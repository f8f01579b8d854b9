------------------------- MODULE QueryAlgebraProofs -------------------------
(***************************************************************************)
(* Proofs about the logical algebra: for any tables, and for trees of any  *)
(* operators of any size, every operator finds the values it looks up      *)
(* unless a join has a condition with its sides reversed, scans load what  *)
(* is used and no more, and the verifier finds no fault in a plan without  *)
(* a join.                                                                 *)
(***************************************************************************)
EXTENDS QueryAlgebra, Lemmas, TLAPS

-----------------------------------------------------------------------------
(* The operators form a forest *)

Streaming == {"TableScan", "Select", "Join"}
Statements == {"Result", "Update", "Delete", "Insert"}

ArityOf(kind) ==
    IF kind \in {"TableScan", "Insert"} THEN 0 ELSE IF kind = "Join" THEN 2 ELSE 1

\* Children are older than their parent, and know it.
Forest(ops) ==
    /\ Len(ops) \in Nat /\ DOMAIN ops = 1 .. Len(ops)
    /\ \A i \in 1 .. Len(ops) :
          /\ ops[i].kind \in Streaming \cup Statements \cup {"GroupBy"}
          /\ arity(ops[i]) = ArityOf(ops[i].kind)
          /\ DOMAIN ops[i].children = 1 .. arity(ops[i])
          /\ \A k \in 1 .. arity(ops[i]) : /\ ops[i].children[k] \in 1 .. i - 1
                                           /\ ops[ops[i].children[k]].parent = i
          /\ arity(ops[i]) = 2 => ops[i].children[1] # ops[i].children[2]
          /\ ops[i].parent \in 0 .. Len(ops)
          /\ ops[i].parent # 0 =>
                \E k \in 1 .. arity(ops[ops[i].parent]) : ops[ops[i].parent].children[k] = i

Left(ops, i) == ops[i].children[1]
Right(ops, i) == ops[i].children[2]

\* Every operator has no, one or two children, all older than it is.
LEMMA Arities ==
    ASSUME NEW ops, Forest(ops), NEW i \in 1 .. Len(ops)
    PROVE  /\ i \in Nat /\ Len(ops) \in Nat
           /\ arity(ops[i]) \in {0, 1, 2}
           /\ arity(ops[i]) >= 1 => Left(ops, i) \in 1 .. i - 1 /\ Left(ops, i) \in 1 .. Len(ops)
           /\ arity(ops[i]) = 2 => Right(ops, i) \in 1 .. i - 1 /\ Right(ops, i) \in 1 .. Len(ops)
<1>1. arity(ops[i]) = ArityOf(ops[i].kind) /\ Len(ops) \in Nat
  BY DEF Forest
<1>2. arity(ops[i]) \in {0, 1, 2}
  BY <1>1 DEF ArityOf
<1>3. \A k \in 1 .. arity(ops[i]) : ops[i].children[k] \in 1 .. i - 1
  BY DEF Forest
<1> QED
  BY <1>1, <1>2, <1>3 DEF Left, Right

\* The recursion of postOrder is well founded.
LEMMA PostOrderUnfolds ==
    ASSUME NEW ops, Forest(ops)
    PROVE  \A i \in 1 .. Len(ops) :
              /\ arity(ops[i]) = 0 => postOrder(ops, i) = <<i>>
              /\ arity(ops[i]) = 1 => postOrder(ops, i) = postOrder(ops, Left(ops, i)) \o <<i>>
              /\ arity(ops[i]) = 2 =>
                    postOrder(ops, i) = postOrder(ops, Left(ops, i)) \o postOrder(ops, Right(ops, i)) \o <<i>>
<1> DEFINE Step(f, j) ==
        IF arity(ops[j]) = 0 THEN <<j>>
        ELSE IF arity(ops[j]) = 1 THEN f[ops[j].children[1]] \o <<j>>
        ELSE f[ops[j].children[1]] \o f[ops[j].children[2]] \o <<j>>
<1> DEFINE Defines(f) == f = [j \in DOMAIN ops |-> Step(f, j)]
<1> DEFINE Partial(n, g) == g = [j \in 1 .. n |-> Step(g, j)]
<1> DEFINE Good == {n \in Nat : n <= Len(ops) => \E g : Partial(n, g)}
<1>0. Len(ops) \in Nat /\ DOMAIN ops = 1 .. Len(ops)
  BY DEF Forest
<1>1. ASSUME NEW f, NEW g, NEW j \in 1 .. Len(ops), \A c \in 1 .. j - 1 : f[c] = g[c]
      PROVE  Step(f, j) = Step(g, j)
  BY <1>1, Arities DEF Left, Right
<1> HIDE DEF Step
<1>2. 0 \in Good
  <2>1. Partial(0, <<>>)
    OBVIOUS
  <2> QED
    BY <2>1
<1>3. ASSUME NEW n \in Nat, n \in Good PROVE n + 1 \in Good
  <2>1. CASE n + 1 <= Len(ops)
    <3>1. n <= Len(ops)
      BY <1>0, <2>1
    <3>2. PICK g : Partial(n, g)
      BY <1>3, <3>1
    <3> DEFINE h == [j \in 1 .. n + 1 |-> IF j = n + 1 THEN Step(g, j) ELSE g[j]]
    <3>3. \A j \in 1 .. n : h[j] = g[j] /\ g[j] = Step(g, j)
      BY <3>2
    <3>4. ASSUME NEW j \in 1 .. n + 1 PROVE h[j] = Step(h, j)
      <4>1. h[j] = Step(g, j)
        <5>1. CASE j = n + 1
          BY <5>1
        <5>2. CASE j # n + 1
          <6>1. j \in 1 .. n
            BY <5>2
          <6> HIDE DEF h
          <6> QED
            BY <6>1, <3>3
        <5> QED
          BY <5>1, <5>2
      <4>2. j \in 1 .. Len(ops) /\ \A c \in 1 .. j - 1 : h[c] = g[c]
        BY <3>3, <1>0, <2>1
      <4> HIDE DEF h
      <4> QED
        BY <4>1, <4>2, <1>1
    <3>5. h = [j \in 1 .. n + 1 |-> h[j]]
      OBVIOUS
    <3>6. Partial(n + 1, h)
      <4> HIDE DEF h
      <4> QED
        BY <3>4, <3>5
    <3> HIDE DEF Partial
    <3> QED
      BY <3>6
  <2>2. CASE ~ (n + 1 <= Len(ops))
    BY <2>2
  <2> QED
    BY <2>1, <2>2
<1>4. Len(ops) \in Good
  <2> HIDE DEF Good
  <2> QED
    BY <1>0, <1>2, <1>3, NatSetInduction
<1>5. PICK f : Defines(f)
  BY <1>4, <1>0
<1> DEFINE order == CHOOSE g : Defines(g)
<1>6. Defines(order)
  <2> HIDE DEF Defines
  <2> QED
    BY <1>5
<1>7. ASSUME NEW i PROVE postOrder(ops, i) = order[i]
  BY Zenon DEF postOrder, Step
<1> HIDE DEF order
<1>8. \A i \in 1 .. Len(ops) : order[i] = Step(order, i)
  BY <1>6, <1>0
<1> HIDE DEF Defines
<1> SUFFICES ASSUME NEW i \in 1 .. Len(ops)
             PROVE  /\ arity(ops[i]) = 0 => order[i] = <<i>>
                    /\ arity(ops[i]) = 1 => order[i] = order[Left(ops, i)] \o <<i>>
                    /\ arity(ops[i]) = 2 => order[i] = order[Left(ops, i)] \o order[Right(ops, i)] \o <<i>>
  BY <1>7, Zenon
<1>9. order[i] = IF arity(ops[i]) = 0 THEN <<i>>
                 ELSE IF arity(ops[i]) = 1 THEN order[Left(ops, i)] \o <<i>>
                 ELSE order[Left(ops, i)] \o order[Right(ops, i)] \o <<i>>
  BY <1>8, Zenon DEF Left, Right, Step
<1>10. 0 # 1 /\ 0 # 2 /\ 1 # 2
  OBVIOUS
<1> QED
  BY <1>9, <1>10, Zenon

\* Induction from the operators without children upwards.
LEMMA UpwardInduction ==
    ASSUME NEW n \in Nat, NEW S, \A i \in 1 .. n : (\A j \in 1 .. i - 1 : j \in S) => i \in S
    PROVE  \A i \in 1 .. n : i \in S
<1> DEFINE Below == {m \in Nat : \A i \in 1 .. n : i <= m => i \in S}
<1>1. 0 \in Below
  OBVIOUS
<1>2. ASSUME NEW m \in Nat, m \in Below PROVE m + 1 \in Below
  <2> SUFFICES ASSUME NEW i \in 1 .. n, i <= m + 1 PROVE i \in S
    OBVIOUS
  <2>1. \A j \in 1 .. i - 1 : j \in 1 .. n /\ j <= m
    OBVIOUS
  <2>2. \A j \in 1 .. i - 1 : j \in S
    BY <1>2, <2>1
  <2> QED
    BY <2>2
<1>3. \A m \in Nat : m \in Below
  <2> HIDE DEF Below
  <2> QED
    BY <1>1, <1>2, NatSetInduction
<1> QED
  BY <1>3

\* ... and from the roots downwards.
LEMMA DownwardInduction ==
    ASSUME NEW n \in Nat, NEW S, \A i \in 1 .. n : (\A j \in i + 1 .. n : j \in S) => i \in S
    PROVE  \A i \in 1 .. n : i \in S
<1> DEFINE Mirror == {m \in 1 .. n : n + 1 - m \in S}
<1>1. ASSUME NEW m \in 1 .. n, \A j \in 1 .. m - 1 : j \in Mirror PROVE m \in Mirror
  <2>1. ASSUME NEW j \in (n + 1 - m) + 1 .. n PROVE j \in S
    <3>1. n + 1 - j \in 1 .. m - 1 /\ n + 1 - (n + 1 - j) = j
      OBVIOUS
    <3> QED
      BY <3>1, <1>1
  <2>2. n + 1 - m \in 1 .. n
    OBVIOUS
  <2> QED
    BY <2>1, <2>2
<1>2. \A m \in 1 .. n : m \in Mirror
  <2> HIDE DEF Mirror
  <2> QED
    BY <1>1, UpwardInduction
<1>3. ASSUME NEW i \in 1 .. n PROVE i \in S
  <2>1. n + 1 - i \in 1 .. n /\ n + 1 - (n + 1 - i) = i
    OBVIOUS
  <2> QED
    BY <1>2, <2>1
<1> QED
  BY <1>3

\* The elements of a sequence that is put together from others.
LEMMA ConcatLast ==
    ASSUME NEW T, NEW s \in Seq(T), NEW e \in T
    PROVE  /\ s \o <<e>> \in Seq(T)
           /\ Len(s) \in Nat
           /\ Len(s \o <<e>>) = Len(s) + 1
           /\ \A k \in 1 .. Len(s) : (s \o <<e>>)[k] = s[k]
           /\ (s \o <<e>>)[Len(s) + 1] = e
OBVIOUS

\* ... and its length.
LEMMA ConcatBoth ==
    ASSUME NEW T, NEW s \in Seq(T), NEW t \in Seq(T)
    PROVE  /\ s \o t \in Seq(T)
           /\ Len(s) \in Nat /\ Len(t) \in Nat
           /\ Len(s \o t) = Len(s) + Len(t)
           /\ \A k \in 1 .. Len(s) : (s \o t)[k] = s[k]
           /\ \A k \in 1 .. Len(t) : (s \o t)[Len(s) + k] = t[k]
OBVIOUS

\* A sequence has its elements at 1 to its length.
LEMMA SeqElements ==
    ASSUME NEW T, NEW s \in Seq(T)
    PROVE  Len(s) \in Nat /\ DOMAIN s = 1 .. Len(s) /\ \A k \in 1 .. Len(s) : s[k] \in T
OBVIOUS

\* The parts a post order is put together from.
LEMMA PostOrderParts ==
    ASSUME NEW ops, Forest(ops)
    PROVE  \A i \in 1 .. Len(ops) :
              LET order == postOrder(ops, i)
                  left  == postOrder(ops, Left(ops, i))
                  right == postOrder(ops, Right(ops, i))
              IN  /\ order \in Seq(1 .. i) /\ order \in Seq(1 .. Len(ops))
                  /\ Len(order) \in Nat \ {0} /\ order[Len(order)] = i
                  /\ arity(ops[i]) = 0 => Len(order) = 1
                  /\ arity(ops[i]) = 1 => /\ Len(order) = Len(left) + 1
                                          /\ \A k \in 1 .. Len(left) : order[k] = left[k]
                  /\ arity(ops[i]) = 2 => /\ Len(order) = Len(left) + Len(right) + 1
                                          /\ \A k \in 1 .. Len(left) : order[k] = left[k]
                                          /\ \A k \in 1 .. Len(right) : order[Len(left) + k] = right[k]
<1> DEFINE P(i) ==
        LET order == postOrder(ops, i)
            left  == postOrder(ops, Left(ops, i))
            right == postOrder(ops, Right(ops, i))
        IN  /\ order \in Seq(1 .. i) /\ order \in Seq(1 .. Len(ops))
            /\ Len(order) \in Nat \ {0} /\ order[Len(order)] = i
            /\ arity(ops[i]) = 0 => Len(order) = 1
            /\ arity(ops[i]) = 1 => /\ Len(order) = Len(left) + 1
                                    /\ \A k \in 1 .. Len(left) : order[k] = left[k]
            /\ arity(ops[i]) = 2 => /\ Len(order) = Len(left) + Len(right) + 1
                                    /\ \A k \in 1 .. Len(left) : order[k] = left[k]
                                    /\ \A k \in 1 .. Len(right) : order[Len(left) + k] = right[k]
<1> DEFINE Good == {i \in 1 .. Len(ops) : P(i)}
<1>0. Len(ops) \in Nat
  BY DEF Forest
<1>1. ASSUME NEW i \in 1 .. Len(ops), \A j \in 1 .. i - 1 : j \in Good PROVE P(i)
  <2> DEFINE order == postOrder(ops, i)
  <2> DEFINE left == postOrder(ops, Left(ops, i))
  <2> DEFINE right == postOrder(ops, Right(ops, i))
  <2>1. /\ arity(ops[i]) = 0 => order = <<i>>
        /\ arity(ops[i]) = 1 => order = left \o <<i>>
        /\ arity(ops[i]) = 2 => order = left \o right \o <<i>>
    BY PostOrderUnfolds
  <2>2. arity(ops[i]) >= 1 => left \in Seq(1 .. Left(ops, i)) /\ Left(ops, i) \in 1 .. i - 1
    BY <1>1, Arities
  <2>3. arity(ops[i]) = 2 => right \in Seq(1 .. Right(ops, i)) /\ Right(ops, i) \in 1 .. i - 1
    BY <1>1, Arities
  <2>4. i \in Nat /\ Len(ops) \in Nat /\ arity(ops[i]) \in {0, 1, 2}
    BY Arities
  <2>5. arity(ops[i]) >= 1 => left \in Seq(1 .. i)
    <3>1. ASSUME arity(ops[i]) >= 1 PROVE 1 .. Left(ops, i) \subseteq 1 .. i
      BY <2>2, <2>4, <3>1
    <3> QED
      BY <3>1, <2>2, SeqWiden
  <2>6. arity(ops[i]) = 2 => right \in Seq(1 .. i)
    <3>1. ASSUME arity(ops[i]) = 2 PROVE 1 .. Right(ops, i) \subseteq 1 .. i
      BY <2>3, <2>4, <3>1
    <3> QED
      BY <3>1, <2>3, SeqWiden
  <2> HIDE DEF order, left, right
  <2>7. /\ order \in Seq(1 .. i)
        /\ Len(order) \in Nat \ {0} /\ order[Len(order)] = i
        /\ arity(ops[i]) = 0 => Len(order) = 1
        /\ arity(ops[i]) = 1 => /\ Len(order) = Len(left) + 1
                                /\ \A k \in 1 .. Len(left) : order[k] = left[k]
        /\ arity(ops[i]) = 2 => /\ Len(order) = Len(left) + Len(right) + 1
                                /\ \A k \in 1 .. Len(left) : order[k] = left[k]
                                /\ \A k \in 1 .. Len(right) : order[Len(left) + k] = right[k]
    <3>0. i \in 1 .. i
      BY <2>4
    <3>1. CASE arity(ops[i]) = 0
      <4>1. <<i>> \in Seq(1 .. i) /\ Len(<<i>>) = 1 /\ <<i>>[1] = i
        BY <3>0
      <4>2. order = <<i>>
        BY <2>1, <3>1
      <4> QED
        BY <4>1, <4>2, <3>1
    <3>2. CASE arity(ops[i]) = 1
      <4>1. left \in Seq(1 .. i)
        BY <2>5, <3>2
      <4>2. order = left \o <<i>>
        BY <2>1, <3>2, Zenon
      <4>3. /\ left \o <<i>> \in Seq(1 .. i)
            /\ Len(left) \in Nat
            /\ Len(left \o <<i>>) = Len(left) + 1
            /\ \A k \in 1 .. Len(left) : (left \o <<i>>)[k] = left[k]
            /\ (left \o <<i>>)[Len(left) + 1] = i
        BY <4>1, <3>0, ConcatLast, ZenonT(30)
      <4>4. /\ order \in Seq(1 .. i)
            /\ Len(left) \in Nat
            /\ Len(order) = Len(left) + 1
            /\ \A k \in 1 .. Len(left) : order[k] = left[k]
            /\ order[Len(left) + 1] = i
        BY <4>2, <4>3, Zenon
      <4> QED
        BY <4>4, <3>2
    <3>3. CASE arity(ops[i]) = 2
      <4>1. order = (left \o right) \o <<i>> /\ left \in Seq(1 .. i) /\ right \in Seq(1 .. i)
        <5>1. left \in Seq(1 .. i) /\ right \in Seq(1 .. i)
          BY <2>5, <2>6, <3>3
        <5>2. order = left \o right \o <<i>>
          BY <2>1, <3>3
        <5> QED
          BY <5>1, <5>2
      <4> DEFINE both == left \o right
      <4>2. /\ both \in Seq(1 .. i) /\ Len(both) = Len(left) + Len(right)
            /\ Len(left) \in Nat /\ Len(right) \in Nat
            /\ \A k \in 1 .. Len(left) : both[k] = left[k]
            /\ \A k \in 1 .. Len(right) : both[Len(left) + k] = right[k]
        BY <4>1, ConcatBoth
      <4>3. order = both \o <<i>>
        BY <4>1
      <4> HIDE DEF both
      <4>4. /\ order \in Seq(1 .. i) /\ Len(order) = Len(both) + 1
            /\ \A k \in 1 .. Len(both) : order[k] = both[k]
            /\ order[Len(both) + 1] = i
        <5>1. /\ both \o <<i>> \in Seq(1 .. i)
              /\ Len(both) \in Nat
              /\ Len(both \o <<i>>) = Len(both) + 1
              /\ \A k \in 1 .. Len(both) : (both \o <<i>>)[k] = both[k]
              /\ (both \o <<i>>)[Len(both) + 1] = i
          <6>1. both \in Seq(1 .. i)
            BY <4>2, Zenon
          <6> QED
            BY <6>1, <3>0, ConcatLast, ZenonT(30)
        <5> QED
          BY <4>3, <5>1, Zenon
      <4>5. \A k \in 1 .. Len(left) : order[k] = left[k]
        BY <4>2, <4>4
      <4>6. ASSUME NEW k \in 1 .. Len(right) PROVE order[Len(left) + k] = right[k]
        <5>1. Len(left) + k \in 1 .. Len(both)
          BY <4>2
        <5>2. order[Len(left) + k] = both[Len(left) + k]
          BY <4>4, <5>1, Zenon
        <5> QED
          BY <4>2, <5>2, Zenon
      <4> QED
        BY <4>2, <4>4, <4>5, <4>6, <3>3
    <3> QED
      BY <2>4, <3>1, <3>2, <3>3
  <2>8. order \in Seq(1 .. Len(ops))
    <3>1. 1 .. i \subseteq 1 .. Len(ops)
      BY <2>4
    <3> QED
      BY <3>1, <2>7, SeqWiden
  <2> QED
    BY <2>7, <2>8 DEF order, left, right
<1>2. \A i \in 1 .. Len(ops) : i \in Good
  <2>1. \A i \in 1 .. Len(ops) : (\A j \in 1 .. i - 1 : j \in Good) => i \in Good
    BY <1>1
  <2> HIDE DEF Good
  <2> QED
    BY <1>0, <2>1, UpwardInduction
<1> QED
  BY <1>2

\* The operators of the tree below operator i.
Tree(ops, i) == ToSet(postOrder(ops, i))

\* A tree is its top with the trees of the children of the top.
LEMMA TreeParts ==
    ASSUME NEW ops, Forest(ops), NEW i \in 1 .. Len(ops)
    PROVE  /\ i \in Tree(ops, i) /\ Tree(ops, i) \subseteq 1 .. i /\ Tree(ops, i) \subseteq 1 .. Len(ops)
           /\ arity(ops[i]) = 0 => Tree(ops, i) = {i}
           /\ arity(ops[i]) = 1 => Tree(ops, i) = Tree(ops, Left(ops, i)) \cup {i}
           /\ arity(ops[i]) = 2 =>
                 Tree(ops, i) = Tree(ops, Left(ops, i)) \cup Tree(ops, Right(ops, i)) \cup {i}
<1> DEFINE order == postOrder(ops, i)
<1> DEFINE left == postOrder(ops, Left(ops, i))
<1> DEFINE right == postOrder(ops, Right(ops, i))
<1>1. /\ order \in Seq(1 .. i) /\ order \in Seq(1 .. Len(ops))
      /\ Len(order) \in Nat \ {0} /\ order[Len(order)] = i
      /\ arity(ops[i]) = 0 => Len(order) = 1
      /\ arity(ops[i]) = 1 => /\ Len(order) = Len(left) + 1
                              /\ \A k \in 1 .. Len(left) : order[k] = left[k]
      /\ arity(ops[i]) = 2 => /\ Len(order) = Len(left) + Len(right) + 1
                              /\ \A k \in 1 .. Len(left) : order[k] = left[k]
                              /\ \A k \in 1 .. Len(right) : order[Len(left) + k] = right[k]
  BY PostOrderParts
<1>2. arity(ops[i]) >= 1 => left \in Seq(1 .. Left(ops, i)) /\ Len(left) \in Nat
  BY PostOrderParts, Arities
<1>3. arity(ops[i]) = 2 => right \in Seq(1 .. Right(ops, i)) /\ Len(right) \in Nat
  BY PostOrderParts, Arities
<1> HIDE DEF order, left, right
<1>4. ToSet(order) = {order[k] : k \in 1 .. Len(order)}
  BY <1>1 DEF ToSet
<1>5. arity(ops[i]) >= 1 => ToSet(left) = {left[k] : k \in 1 .. Len(left)}
  BY <1>2 DEF ToSet
<1>6. arity(ops[i]) = 2 => ToSet(right) = {right[k] : k \in 1 .. Len(right)}
  BY <1>3 DEF ToSet
<1>7. i \in ToSet(order) /\ ToSet(order) \subseteq 1 .. i /\ ToSet(order) \subseteq 1 .. Len(ops)
  <2>1. Len(order) \in 1 .. Len(order) /\ order[Len(order)] = i
    BY <1>1
  <2>2. \A k \in 1 .. Len(order) : order[k] \in 1 .. i /\ order[k] \in 1 .. Len(ops)
    BY <1>1
  <2> QED
    BY <2>1, <2>2, <1>4
<1>8. ASSUME arity(ops[i]) = 0 PROVE ToSet(order) = {i}
  <2>1. Len(order) = 1 /\ order[1] = i
    BY <1>1, <1>8
  <2>2. 1 .. 1 = {1}
    OBVIOUS
  <2> QED
    BY <2>1, <2>2, <1>4
<1>9. ASSUME arity(ops[i]) = 1 PROVE ToSet(order) = ToSet(left) \cup {i}
  <2>1. \A k \in 1 .. Len(order) : k \in 1 .. Len(left) \/ k = Len(order)
    BY <1>1, <1>2, <1>9
  <2>2. \A k \in 1 .. Len(left) : k \in 1 .. Len(order)
    BY <1>1, <1>2, <1>9
  <2>3. \A k \in 1 .. Len(left) : order[k] = left[k]
    BY <1>1, <1>9
  <2>4. ToSet(left) = {left[k] : k \in 1 .. Len(left)}
    BY <1>5, <1>9
  <2>5. order[Len(order)] = i
    BY <1>1
  <2> QED
    BY <1>4, <1>7, <2>1, <2>2, <2>3, <2>4, <2>5
<1>10. ASSUME arity(ops[i]) = 2 PROVE ToSet(order) = ToSet(left) \cup ToSet(right) \cup {i}
  <2>0. Len(left) \in Nat /\ Len(right) \in Nat /\ Len(order) = Len(left) + Len(right) + 1
    BY <1>1, <1>2, <1>3, <1>10
  <2>1. ASSUME NEW k \in 1 .. Len(order)
        PROVE  k \in 1 .. Len(left) \/ (\E m \in 1 .. Len(right) : k = Len(left) + m) \/ k = Len(order)
    <3>1. CASE k <= Len(left)
      BY <3>1, <2>0
    <3>2. CASE k > Len(left) /\ k < Len(order)
      <4>1. k - Len(left) \in 1 .. Len(right) /\ k = Len(left) + (k - Len(left))
        BY <3>2, <2>0
      <4> QED
        BY <4>1
    <3>3. CASE k = Len(order)
      BY <3>3
    <3> QED
      BY <2>0, <3>1, <3>2, <3>3
  <2>2. \A k \in 1 .. Len(left) : k \in 1 .. Len(order)
    BY <2>0
  <2>3. \A k \in 1 .. Len(right) : Len(left) + k \in 1 .. Len(order)
    BY <2>0
  <2>4. \A k \in 1 .. Len(left) : order[k] = left[k]
    BY <1>1, <1>10
  <2>5. \A k \in 1 .. Len(right) : order[Len(left) + k] = right[k]
    BY <1>1, <1>10
  <2>6. ToSet(left) = {left[k] : k \in 1 .. Len(left)} /\ ToSet(right) = {right[k] : k \in 1 .. Len(right)}
    BY <1>5, <1>6, <1>10
  <2>7. order[Len(order)] = i
    BY <1>1
  <2>8. ToSet(order) \subseteq ToSet(left) \cup ToSet(right) \cup {i}
    <3> SUFFICES ASSUME NEW k \in 1 .. Len(order)
                 PROVE  order[k] \in ToSet(left) \cup ToSet(right) \cup {i}
      BY <1>4
    <3>1. CASE k \in 1 .. Len(left)
      BY <3>1, <2>4, <2>6
    <3>2. CASE \E m \in 1 .. Len(right) : k = Len(left) + m
      BY <3>2, <2>5, <2>6
    <3>3. CASE k = Len(order)
      BY <3>3, <2>7
    <3> QED
      BY <2>1, <3>1, <3>2, <3>3
  <2>9. ToSet(left) \subseteq ToSet(order)
    BY <1>4, <2>2, <2>4, <2>6
  <2>10. ToSet(right) \subseteq ToSet(order)
    BY <1>4, <2>3, <2>5, <2>6
  <2> QED
    BY <1>7, <2>8, <2>9, <2>10
<1> QED
  BY <1>7, <1>8, <1>9, <1>10 DEF Tree, order, left, right

\* A tree has, with an operator, its children and, below the top, its parent.
LEMMA TreeClosed ==
    ASSUME NEW ops, Forest(ops), NEW i \in 1 .. Len(ops), NEW j \in Tree(ops, i)
    PROVE  /\ \A k \in 1 .. arity(ops[j]) : ops[j].children[k] \in Tree(ops, i)
           /\ j # i => ops[j].parent \in Tree(ops, i)
<1> DEFINE Closed(m) ==
        \A n \in Tree(ops, m) : /\ \A k \in 1 .. arity(ops[n]) : ops[n].children[k] \in Tree(ops, m)
                                /\ n # m => ops[n].parent \in Tree(ops, m)
<1> DEFINE Good == {m \in 1 .. Len(ops) : Closed(m)}
<1>0. Len(ops) \in Nat
  BY DEF Forest
<1>1. ASSUME NEW m \in 1 .. Len(ops), \A n \in 1 .. m - 1 : n \in Good PROVE Closed(m)
  <2>1. \A k \in 1 .. arity(ops[m]) : ops[ops[m].children[k]].parent = m
    BY DEF Forest
  <2>2. CASE arity(ops[m]) = 0
    BY <2>2, TreeParts
  <2>3. CASE arity(ops[m]) = 1
    <3>1. Closed(Left(ops, m)) /\ Left(ops, m) \in 1 .. Len(ops)
      BY <1>1, <2>3, Arities
    <3>2. Tree(ops, m) = Tree(ops, Left(ops, m)) \cup {m} /\ Left(ops, m) \in Tree(ops, Left(ops, m))
      BY <2>3, <3>1, TreeParts
    <3>3. ops[Left(ops, m)].parent = m
      BY <2>1, <2>3 DEF Left
    <3>4. \A k \in 1 .. arity(ops[m]) : ops[m].children[k] = Left(ops, m)
      BY <2>3 DEF Left
    <3> QED
      BY <3>1, <3>2, <3>3, <3>4
  <2>4. CASE arity(ops[m]) = 2
    <3>1. /\ Closed(Left(ops, m)) /\ Left(ops, m) \in 1 .. Len(ops)
          /\ Closed(Right(ops, m)) /\ Right(ops, m) \in 1 .. Len(ops)
      BY <1>1, <2>4, Arities
    <3>2. /\ Tree(ops, m) = Tree(ops, Left(ops, m)) \cup Tree(ops, Right(ops, m)) \cup {m}
          /\ Left(ops, m) \in Tree(ops, Left(ops, m)) /\ Right(ops, m) \in Tree(ops, Right(ops, m))
      BY <2>4, <3>1, TreeParts
    <3>3. ops[Left(ops, m)].parent = m /\ ops[Right(ops, m)].parent = m
      BY <2>1, <2>4 DEF Left, Right
    <3>4. \A k \in 1 .. arity(ops[m]) : ops[m].children[k] \in {Left(ops, m), Right(ops, m)}
      BY <2>4 DEF Left, Right
    <3> QED
      BY <3>1, <3>2, <3>3, <3>4
  <2> QED
    BY <2>2, <2>3, <2>4, Arities
<1>2. \A m \in 1 .. Len(ops) : m \in Good
  <2>1. \A m \in 1 .. Len(ops) : (\A n \in 1 .. m - 1 : n \in Good) => m \in Good
    BY <1>1
  <2> HIDE DEF Good
  <2> QED
    BY <1>0, <2>1, UpwardInduction
<1> QED
  BY <1>2

\* In a post order the children of an operator come before it.
LEMMA ChildrenFirst ==
    ASSUME NEW ops, Forest(ops), NEW i \in 1 .. Len(ops), NEW n \in 1 .. Len(postOrder(ops, i)),
           NEW k \in 1 .. arity(ops[postOrder(ops, i)[n]])
    PROVE  \E m \in 1 .. n - 1 : postOrder(ops, i)[m] = ops[postOrder(ops, i)[n]].children[k]
<1> DEFINE First(order) ==
        \A p \in 1 .. Len(order) : \A c \in 1 .. arity(ops[order[p]]) :
            \E m \in 1 .. p - 1 : order[m] = ops[order[p]].children[c]
<1> DEFINE Good == {m \in 1 .. Len(ops) : First(postOrder(ops, m))}
<1>0. Len(ops) \in Nat
  BY DEF Forest
<1>1. ASSUME NEW j \in 1 .. Len(ops), \A m \in 1 .. j - 1 : m \in Good PROVE First(postOrder(ops, j))
  <2> DEFINE order == postOrder(ops, j)
  <2> DEFINE left == postOrder(ops, Left(ops, j))
  <2> DEFINE right == postOrder(ops, Right(ops, j))
  <2>1. /\ Len(order) \in Nat \ {0} /\ order[Len(order)] = j
        /\ arity(ops[j]) = 0 => Len(order) = 1
        /\ arity(ops[j]) = 1 => /\ Len(order) = Len(left) + 1
                                /\ \A m \in 1 .. Len(left) : order[m] = left[m]
        /\ arity(ops[j]) = 2 => /\ Len(order) = Len(left) + Len(right) + 1
                                /\ \A m \in 1 .. Len(left) : order[m] = left[m]
                                /\ \A m \in 1 .. Len(right) : order[Len(left) + m] = right[m]
    BY PostOrderParts, SMTT(60)
  <2> HIDE DEF First
  <2>2. ASSUME arity(ops[j]) >= 1
        PROVE  Len(left) \in Nat \ {0} /\ left[Len(left)] = Left(ops, j) /\ First(left)
    <3>1. Left(ops, j) \in 1 .. j - 1 /\ Left(ops, j) \in 1 .. Len(ops)
      BY <2>2, Arities
    <3>2. First(left)
      BY <1>1, <3>1
    <3> QED
      BY <3>1, <3>2, PostOrderParts
  <2>3. ASSUME arity(ops[j]) = 2
        PROVE  Len(right) \in Nat \ {0} /\ right[Len(right)] = Right(ops, j) /\ First(right)
    <3>1. Right(ops, j) \in 1 .. j - 1 /\ Right(ops, j) \in 1 .. Len(ops)
      BY <2>3, Arities
    <3>2. First(right)
      BY <1>1, <3>1
    <3> QED
      BY <3>1, <3>2, PostOrderParts
  <2> SUFFICES ASSUME NEW p \in 1 .. Len(order), NEW c \in 1 .. arity(ops[order[p]])
               PROVE  \E m \in 1 .. p - 1 : order[m] = ops[order[p]].children[c]
    BY DEF First
  <2> HIDE DEF order, left, right
  <2>4. CASE arity(ops[j]) = 0
    <3>1. Len(order) = 1
      BY <2>1, <2>4
    <3>2. order[p] = j
      BY <2>1, <3>1
    <3> QED
      BY <2>4, <3>2
  <2>5. CASE arity(ops[j]) = 1
    <3>1. CASE p \in 1 .. Len(left)
      <4>1. order[p] = left[p]
        BY <2>1, <2>5, <3>1
      <4>2. PICK m \in 1 .. p - 1 : left[m] = ops[left[p]].children[c]
        BY <2>2, <2>5, <3>1, <4>1 DEF First
      <4>3. order[m] = left[m]
        BY <2>1, <2>5, <3>1
      <4> QED
        BY <4>1, <4>2, <4>3
    <3>2. CASE p = Len(order)
      <4>1. order[p] = j /\ c = 1
        BY <2>1, <2>5, <3>2
      <4>2. Len(left) \in 1 .. p - 1 /\ order[Len(left)] = Left(ops, j)
        BY <2>1, <2>2, <2>5, <3>2
      <4> QED
        BY <4>1, <4>2 DEF Left
    <3> QED
      BY <2>1, <2>2, <2>5, <3>1, <3>2
  <2>6. CASE arity(ops[j]) = 2
    <3>0. /\ Len(left) \in Nat \ {0} /\ Len(right) \in Nat \ {0}
          /\ Len(order) = Len(left) + Len(right) + 1
          /\ \A m \in 1 .. Len(left) : order[m] = left[m]
          /\ \A m \in 1 .. Len(right) : order[Len(left) + m] = right[m]
      BY <2>1, <2>2, <2>3, <2>6
    <3>1. CASE p \in 1 .. Len(left)
      <4>1. order[p] = left[p]
        BY <3>0, <3>1
      <4>2. PICK m \in 1 .. p - 1 : left[m] = ops[left[p]].children[c]
        BY <2>2, <2>6, <3>1, <4>1 DEF First
      <4>3. order[m] = left[m]
        BY <3>0, <3>1
      <4> QED
        BY <4>1, <4>2, <4>3
    <3>2. CASE p > Len(left) /\ p < Len(order)
      <4> DEFINE d == p - Len(left)
      <4>1. d \in 1 .. Len(right) /\ p = Len(left) + d
        BY <3>0, <3>2
      <4>2. order[p] = right[d]
        BY <3>0, <4>1
      <4>3. PICK m \in 1 .. d - 1 : right[m] = ops[right[d]].children[c]
        <5>1. First(right) /\ c \in 1 .. arity(ops[right[d]])
          BY <2>3, <2>6, <4>2
        <5> HIDE DEF d
        <5> QED
          BY <4>1, <5>1 DEF First
      <4>4. m \in 1 .. Len(right) /\ Len(left) + m \in 1 .. p - 1
        <5>1. Len(left) \in Nat /\ Len(right) \in Nat /\ d \in 1 .. Len(right) /\ p = Len(left) + d
          BY <3>0, <4>1
        <5>2. m \in 1 .. d - 1
          OBVIOUS
        <5> HIDE DEF d
        <5> QED
          BY <5>1, <5>2, SMTT(30)
      <4>5. order[Len(left) + m] = right[m]
        BY <3>0, <4>4
      <4> QED
        BY <4>2, <4>3, <4>4, <4>5
    <3>3. CASE p = Len(order)
      <4>1. order[p] = j /\ c \in {1, 2}
        BY <2>1, <2>6, <3>3
      <4>2. Len(left) \in 1 .. p - 1 /\ order[Len(left)] = Left(ops, j)
        BY <2>2, <2>6, <3>0, <3>3, SMTT(30)
      <4>3. Len(left) + Len(right) \in 1 .. p - 1 /\ order[Len(left) + Len(right)] = Right(ops, j)
        BY <2>3, <2>6, <3>0, <3>3, SMTT(30)
      <4> QED
        BY <4>1, <4>2, <4>3 DEF Left, Right
    <3>4. p \in 1 .. Len(left) \/ (p > Len(left) /\ p < Len(order)) \/ p = Len(order)
      <4>1. Len(left) \in Nat /\ Len(right) \in Nat /\ Len(order) = Len(left) + Len(right) + 1
        BY <3>0
      <4>2. p \in 1 .. Len(order)
        OBVIOUS
      <4> QED
        BY <4>1, <4>2
    <3> QED
      BY <3>1, <3>2, <3>3, <3>4
  <2> QED
    BY <2>4, <2>5, <2>6, Arities
<1>2. \A m \in 1 .. Len(ops) : m \in Good
  <2>1. \A m \in 1 .. Len(ops) : (\A p \in 1 .. m - 1 : p \in Good) => m \in Good
    BY <1>1
  <2> HIDE DEF Good
  <2> QED
    BY <1>0, <2>1, UpwardInduction
<1> QED
  BY <1>2

\* One step up and then n further ones are n + 1 steps.
StepsUp(up, j) == \A n \in Nat : Walk(up, j)[n + 1] = Walk(up, up[j])[n]

\* WalkShift, with its conclusion as one predicate.
LEMMA StepUp ==
    ASSUME NEW S, NEW up, NEW j, up \in [S -> S], j \in S
    PROVE  StepsUp(up, j)
<1> SUFFICES ASSUME NEW n \in Nat PROVE Walk(up, j)[n + 1] = Walk(up, up[j])[n]
  BY DEF StepsUp
<1> QED
  BY WalkShift

\* An operator of the tree of a root finds that root on its way up.
LEMMA RootOfTree ==
    ASSUME NEW ops, Forest(ops), NEW r \in 1 .. Len(ops), ops[r].parent = 0, NEW i \in Tree(ops, r)
    PROVE  getRoot(ops, i) = r
<1> DEFINE up == [j \in DOMAIN ops |-> IF ops[j].parent = 0 THEN j ELSE ops[j].parent]
<1>0. Len(ops) \in Nat /\ DOMAIN ops = 1 .. Len(ops)
  BY DEF Forest
<1>1. up \in [1 .. Len(ops) -> 1 .. Len(ops)]
  BY DEF Forest
<1>2. \A j \in 1 .. Len(ops) : up[j] = IF ops[j].parent = 0 THEN j ELSE ops[j].parent
  BY <1>0
<1>3. getRoot(ops, i) = Walk(up, i)[Len(ops)]
  BY DEF getRoot
<1> HIDE DEF up
<1> DEFINE Reaches(m, j) == Walk(up, j)[m] = r
<1> DEFINE Good == {m \in Nat : \A j \in Tree(ops, r) : r - j <= m => Reaches(m, j)}
<1>4. Tree(ops, r) \subseteq 1 .. r /\ Tree(ops, r) \subseteq 1 .. Len(ops)
  BY TreeParts
<1>5. 0 \in Good
  <2> SUFFICES ASSUME NEW j \in Tree(ops, r), r - j <= 0 PROVE Walk(up, j)[0] = r
    OBVIOUS
  <2>1. j = r
    <3>1. j \in 1 .. r /\ r \in Nat
      BY <1>4
    <3>2. r - j <= 0
      OBVIOUS
    <3> QED
      BY <3>1, <3>2
  <2>2. Visits(Walk(up, r), 1 .. Len(ops), up, r)
    BY <1>1, WalkVisits, Zenon
  <2>3. Walk(up, r)[0] = r
    BY <2>2 DEF Visits
  <2> QED
    BY <2>1, <2>3
<1>6. ASSUME NEW m \in Nat, m \in Good PROVE m + 1 \in Good
  <2> SUFFICES ASSUME NEW j \in Tree(ops, r), r - j <= m + 1 PROVE Walk(up, j)[m + 1] = r
    OBVIOUS
  <2>1. j \in 1 .. r /\ j \in 1 .. Len(ops)
    BY <1>4
  <2>2. Walk(up, j)[m + 1] = Walk(up, up[j])[m]
    <3>1. StepsUp(up, j)
      BY <2>1, <1>1, StepUp, Zenon
    <3> QED
      BY <3>1 DEF StepsUp
  <2>3. CASE j = r
    <3>1. up[j] = r /\ r - r <= m /\ r \in Tree(ops, r)
      BY <1>2, <2>3, TreeParts
    <3> QED
      BY <2>2, <3>1, <1>6
  <2>4. CASE j # r
    <3>1. ops[j].parent \in Tree(ops, r)
      BY <2>4, TreeClosed
    <3>2. ops[j].parent \in 1 .. Len(ops)
      BY <3>1, <1>4
    <3>3. PICK k \in 1 .. arity(ops[ops[j].parent]) : ops[ops[j].parent].children[k] = j
      BY <2>1, <3>2 DEF Forest
    <3>4. ops[ops[j].parent].children[k] \in 1 .. ops[j].parent - 1
      BY <3>2 DEF Forest
    <3>5. up[j] = ops[j].parent
      BY <1>2, <2>1, <3>2
    <3>6. r - up[j] <= m
      BY <2>1, <3>2, <3>3, <3>4, <3>5
    <3> QED
      BY <2>2, <3>1, <3>5, <3>6, <1>6
  <2> QED
    BY <2>3, <2>4
<1>7. \A m \in Nat : m \in Good
  <2> HIDE DEF Good
  <2> QED
    BY <1>5, <1>6, NatSetInduction
<1>8. r - i <= Len(ops)
  BY <1>0, <1>4
<1> QED
  BY <1>0, <1>3, <1>7, <1>8

\* The states updateProducedSets goes through, one for every operator it visits.
ProducedStates(q, i, calls, after) ==
    /\ after[0] = q
    /\ \A n \in 1 .. Len(calls) : after[n] = visitProduced(after[n - 1], calls[n])
    /\ updateProducedSets(q, i) = after[Len(calls)]

\* Those states are those of a function, whatever the number of operators.
LEMMA ProducedRun ==
    ASSUME NEW q, NEW i, NEW calls, calls = postOrder(q.ops, getRoot(q.ops, i)), Len(calls) \in Nat
    PROVE  \E after : ProducedStates(q, i, calls, after)
<1> DEFINE Step(f, n) == IF n = 0 THEN q ELSE visitProduced(f[n - 1], calls[n])
<1> DEFINE Defines(f) == f = [n \in 0 .. Len(calls) |-> Step(f, n)]
<1> DEFINE Partial(m, g) == g = [n \in 0 .. m |-> Step(g, n)]
<1> DEFINE Good == {m \in Nat : \E g : Partial(m, g)}
<1>1. ASSUME NEW f, NEW g, NEW n \in Nat, n # 0 => f[n - 1] = g[n - 1]
      PROVE  Step(f, n) = Step(g, n)
  BY <1>1
<1>2. 0 \in Good
  <2> DEFINE g == [n \in 0 .. 0 |-> Step(<<>>, n)]
  <2>1. \A n \in 0 .. 0 : Step(g, n) = Step(<<>>, n)
    OBVIOUS
  <2> HIDE DEF Step
  <2>2. Partial(0, g)
    BY <2>1
  <2> QED
    BY <2>2
<1> HIDE DEF Step
<1>3. ASSUME NEW m \in Nat, m \in Good PROVE m + 1 \in Good
  <2>1. PICK g : Partial(m, g)
    BY <1>3
  <2> DEFINE h == [n \in 0 .. m + 1 |-> IF n = m + 1 THEN Step(g, n) ELSE g[n]]
  <2>2. \A n \in 0 .. m : h[n] = g[n] /\ g[n] = Step(g, n)
    BY <2>1
  <2>3. ASSUME NEW n \in 0 .. m + 1 PROVE h[n] = Step(h, n)
    <3>1. h[n] = Step(g, n)
      <4>1. CASE n = m + 1
        BY <4>1
      <4>2. CASE n # m + 1
        <5>1. n \in 0 .. m
          BY <4>2
        <5> HIDE DEF h
        <5> QED
          BY <5>1, <2>2
      <4> QED
        BY <4>1, <4>2
    <3> HIDE DEF h
    <3>2. n # 0 => h[n - 1] = g[n - 1]
      BY <2>2
    <3> QED
      BY <3>1, <3>2, <1>1
  <2>4. h = [n \in 0 .. m + 1 |-> h[n]]
    OBVIOUS
  <2>5. Partial(m + 1, h)
    <3> HIDE DEF h
    <3> QED
      BY <2>3, <2>4
  <2> HIDE DEF Partial
  <2> QED
    BY <2>5
<1>4. Len(calls) \in Good
  <2> HIDE DEF Good
  <2> QED
    BY <1>2, <1>3, NatSetInduction
<1>5. PICK f : Defines(f)
  BY <1>4
<1> DEFINE after == CHOOSE g : Defines(g)
<1>6. Defines(after)
  <2> HIDE DEF Defines
  <2> QED
    BY <1>5
<1>7. updateProducedSets(q, i) = after[Len(calls)]
  BY Zenon DEF updateProducedSets, Step
<1> HIDE DEF after
<1>8. \A n \in 0 .. Len(calls) : after[n] = Step(after, n)
  BY <1>6
<1> HIDE DEF Defines
<1>9. after[0] = q
  BY <1>8 DEF Step
<1>10. ASSUME NEW n \in 1 .. Len(calls) PROVE after[n] = visitProduced(after[n - 1], calls[n])
  <2>1. n \in 0 .. Len(calls) /\ n # 0
    OBVIOUS
  <2> QED
    BY <2>1, <1>8 DEF Step
<1>11. ProducedStates(q, i, calls, after)
  BY <1>7, <1>9, <1>10, Zenon DEF ProducedStates
<1> QED
  BY <1>11, Zenon

-----------------------------------------------------------------------------
(* The produced IUs *)

IUSets == SUBSET Nat

AnyOperator == [kind : Streaming \cup Statements \cup {"GroupBy"},
                children : Seq(Nat), parent : Nat, table : Tables \cup {""},
                pairs : Seq((Nat \X Nat) \cup IUSets),
                aggregations : Seq([required : IUSets, produced : Nat])]

AnyIU == [iuType : {"ColumnRef"}, scanUID : Nat, column : STRING \cup {"tid"}] \cup [iuType : {"ValueRef"}]

\* A query of n operators.
QueryType(n) ==
    [ops : Seq(AnyOperator), iu_vec : Seq(AnyIU), ius : [1 .. n -> IUSets],
     produced : [1 .. n -> IUSets], producedUpToDate : SUBSET (1 .. n),
     required : [1 .. n -> IUSets], requiredUpToDate : SUBSET (1 .. n),
     leftRequired : [1 .. n -> IUSets], rightRequired : [1 .. n -> IUSets]]

Size(q) == Len(q.ops)
Typed(q) == Size(q) \in Nat /\ q \in QueryType(Size(q))

\* Operators that hand on what they are passed have such operators below
\* them; only a Result has a GroupBy below it.
Plan(ops) ==
    /\ Forest(ops)
    /\ \A i \in 1 .. Len(ops) : \A k \in 1 .. arity(ops[i]) :
          \/ ops[ops[i].children[k]].kind \in Streaming
          \/ ops[i].kind = "Result" /\ ops[ops[i].children[k]].kind = "GroupBy"

\* Every scan has been asked for its columns.
ScansFilled(q) == \A i \in 1 .. Size(q) : q.ops[i].kind = "TableScan" => q.produced[i] # {}

Scans(q, i) == {j \in Tree(q.ops, i) : q.ops[j].kind = "TableScan"}

\* What operator i produces, from what the scans below it produce.
Offered(q, i) ==
    IF q.ops[i].kind \in Streaming THEN UNION {q.produced[j] : j \in Scans(q, i)}
    ELSE IF q.ops[i].kind = "GroupBy" THEN Aggregated(q.ops[i]) ELSE {}

\* A scan offers its columns, a selection what is below it, a join both sides.
LEMMA OfferedParts ==
    ASSUME NEW q, Typed(q), Plan(q.ops), NEW i \in 1 .. Size(q)
    PROVE  /\ q.ops[i].kind = "TableScan" => Offered(q, i) = q.produced[i]
           /\ q.ops[i].kind = "Select" => Offered(q, i) = Offered(q, Left(q.ops, i))
           /\ q.ops[i].kind = "Join" =>
                 Offered(q, i) = Offered(q, Left(q.ops, i)) \cup Offered(q, Right(q.ops, i))
           /\ q.ops[i].kind = "GroupBy" => Offered(q, i) = Aggregated(q.ops[i])
           /\ q.ops[i].kind \in Statements => Offered(q, i) = {}
<1>0. Forest(q.ops) /\ i \in 1 .. Len(q.ops) /\ arity(q.ops[i]) = ArityOf(q.ops[i].kind)
  BY DEF Plan, Size, Forest
<1>1. ASSUME q.ops[i].kind = "TableScan" PROVE Offered(q, i) = q.produced[i]
  <2>1. Tree(q.ops, i) = {i}
    BY <1>0, <1>1, TreeParts DEF ArityOf
  <2>2. Scans(q, i) = {i}
    BY <2>1, <1>1 DEF Scans
  <2> QED
    BY <2>2, <1>1 DEF Offered, Streaming
<1>2. ASSUME q.ops[i].kind = "Select" PROVE Offered(q, i) = Offered(q, Left(q.ops, i))
  <2>0. arity(q.ops[i]) = 1
    BY <1>0, <1>2 DEF ArityOf
  <2>1. Tree(q.ops, i) = Tree(q.ops, Left(q.ops, i)) \cup {i}
    BY <1>0, <2>0, TreeParts
  <2>2. Scans(q, i) = Scans(q, Left(q.ops, i))
    BY <2>1, <1>2 DEF Scans
  <2>3. q.ops[Left(q.ops, i)].kind \in Streaming
    BY <2>0, <1>0, <1>2 DEF Plan, Left
  <2> QED
    BY <2>2, <2>3, <1>2 DEF Offered, Streaming
<1>3. ASSUME q.ops[i].kind = "Join"
      PROVE  Offered(q, i) = Offered(q, Left(q.ops, i)) \cup Offered(q, Right(q.ops, i))
  <2>0. arity(q.ops[i]) = 2
    BY <1>0, <1>3 DEF ArityOf
  <2>1. Tree(q.ops, i) = Tree(q.ops, Left(q.ops, i)) \cup Tree(q.ops, Right(q.ops, i)) \cup {i}
    BY <1>0, <2>0, TreeParts
  <2>2. Scans(q, i) = Scans(q, Left(q.ops, i)) \cup Scans(q, Right(q.ops, i))
    BY <2>1, <1>3 DEF Scans
  <2>3. q.ops[Left(q.ops, i)].kind \in Streaming /\ q.ops[Right(q.ops, i)].kind \in Streaming
    BY <2>0, <1>0, <1>3 DEF Plan, Left, Right
  <2>4. q.ops[i].kind \in Streaming
    BY <1>3 DEF Streaming
  <2> QED
    BY <2>2, <2>3, <2>4 DEF Offered
<1> QED
  BY <1>1, <1>2, <1>3 DEF Offered, Streaming, Statements

\* s differs from q in nothing but the produced IUs of its operators.
OnlyProduced(q, s) ==
    /\ Typed(s)
    /\ s.ops = q.ops /\ s.iu_vec = q.iu_vec /\ s.ius = q.ius
    /\ s.required = q.required /\ s.requiredUpToDate = q.requiredUpToDate
    /\ s.leftRequired = q.leftRequired /\ s.rightRequired = q.rightRequired

\* What computeProduced assigns to an operator, from what its children have.
ComputedProduced(q, i) ==
    IF q.ops[i].kind = "TableScan" THEN q.produced[i]
    ELSE IF q.ops[i].kind \in {"Select", "Join"}
         THEN UNION {q.produced[q.ops[i].children[k]] : k \in DOMAIN q.ops[i].children}
    ELSE IF q.ops[i].kind = "GroupBy" THEN Aggregated(q.ops[i]) ELSE {}

\* The IUs a GroupBy produces.
LEMMA AggregatedIUs ==
    ASSUME NEW op \in AnyOperator
    PROVE  Aggregated(op) \in IUSets
<1> DEFINE R == [required : IUSets, produced : Nat]
<1>1. op.aggregations \in Seq(R)
  BY DEF AnyOperator
<1>2. \A r \in R : r.produced \in Nat
  OBVIOUS
<1> HIDE DEF R
<1>3. \A k \in DOMAIN op.aggregations : op.aggregations[k] \in R
  BY <1>1
<1> QED
  BY <1>2, <1>3 DEF Aggregated, IUSets

\* One step of updateProducedSetsTraverser, on a scan with columns or on another operator.
LEMMA VisitProducedStep ==
    ASSUME NEW q, Typed(q), Forest(q.ops), NEW i \in 1 .. Size(q),
           q.ops[i].kind = "TableScan" => q.produced[i] # {}
    PROVE  /\ OnlyProduced(q, visitProduced(q, i))
           /\ visitProduced(q, i).produced = [q.produced EXCEPT ![i] = ComputedProduced(q, i)]
           /\ visitProduced(q, i).producedUpToDate = q.producedUpToDate \cup {i}
<1> DEFINE s == computeProduced(q, i)
<1> DEFINE value == ComputedProduced(q, i)
<1>0. q.produced \in [1 .. Size(q) -> IUSets] /\ q.producedUpToDate \in SUBSET (1 .. Size(q))
  BY DEF Typed, QueryType
<1>1. q.ops[i].kind \in Streaming \cup Statements \cup {"GroupBy"}
  BY DEF Forest, Size
<1>2. value \in IUSets
  <2>1. \A k \in DOMAIN q.ops[i].children : q.ops[i].children[k] \in 1 .. Size(q)
    <3>1. i \in 1 .. Len(q.ops) /\ Len(q.ops) \in Nat
      BY DEF Forest, Size
    <3>2. DOMAIN q.ops[i].children = 1 .. arity(q.ops[i])
      BY <3>1 DEF Forest
    <3>3. \A k \in 1 .. arity(q.ops[i]) : q.ops[i].children[k] \in 1 .. i - 1
      BY <3>1 DEF Forest
    <3>4. 1 .. i - 1 \subseteq 1 .. Len(q.ops)
      BY <3>1
    <3> QED
      BY <3>2, <3>3, <3>4 DEF Size
  <2>2. q.ops[i] \in AnyOperator
    <3>1. q.ops \in Seq(AnyOperator)
      BY DEF Typed, QueryType
    <3> HIDE DEF value
    <3> QED
      BY <3>1 DEF Size
  <2>3. Aggregated(q.ops[i]) \in IUSets
    BY <2>2, AggregatedIUs
  <2>4. UNION {q.produced[q.ops[i].children[k]] : k \in DOMAIN q.ops[i].children} \in IUSets
    BY <2>1, <1>0 DEF IUSets
  <2> QED
    BY <2>3, <2>4, <1>0 DEF ComputedProduced, IUSets
<1>3. s = [q EXCEPT !.produced = [q.produced EXCEPT ![i] = value]]
  <2>1. CASE q.ops[i].kind = "TableScan"
    <3>1. s = q /\ value = q.produced[i]
      BY <2>1 DEF computeProduced, TableScanComputeProduced, ComputedProduced
    <3>2. [q.produced EXCEPT ![i] = q.produced[i]] = q.produced
      BY <1>0
    <3>3. q = [q EXCEPT !.produced = q.produced]
      BY DEF Typed, QueryType
    <3> QED
      BY <3>1, <3>2, <3>3
  <2>2. CASE q.ops[i].kind \in {"Select", "Join"}
    BY <2>2 DEF computeProduced, ComputedProduced
  <2>3. CASE q.ops[i].kind = "GroupBy"
    BY <2>3 DEF computeProduced, ComputedProduced
  <2>4. CASE q.ops[i].kind \in Statements
    BY <2>4 DEF computeProduced, ComputedProduced, Statements
  <2> QED
    BY <1>1, <2>1, <2>2, <2>3, <2>4 DEF Streaming
<1>4. visitProduced(q, i) = [s EXCEPT !.producedUpToDate = s.producedUpToDate \cup {i}]
  BY DEF visitProduced
<1>5. [q.produced EXCEPT ![i] = value] \in [1 .. Size(q) -> IUSets]
  BY <1>0, <1>2
<1>6. q.producedUpToDate \cup {i} \in SUBSET (1 .. Size(q))
  BY <1>0
<1> HIDE DEF s, value
<1> DEFINE t == visitProduced(q, i)
<1>7. t = [q EXCEPT !.produced = [q.produced EXCEPT ![i] = value],
                    !.producedUpToDate = q.producedUpToDate \cup {i}]
  <2>1. q \in QueryType(Size(q))
    BY DEF Typed
  <2>2. s.producedUpToDate = q.producedUpToDate
    BY <1>3, <2>1 DEF QueryType
  <2> QED
    BY <1>3, <1>4, <2>1, <2>2 DEF QueryType
<1>8. /\ t \in QueryType(Size(q))
      /\ t.ops = q.ops /\ t.iu_vec = q.iu_vec /\ t.ius = q.ius
      /\ t.required = q.required /\ t.requiredUpToDate = q.requiredUpToDate
      /\ t.leftRequired = q.leftRequired /\ t.rightRequired = q.rightRequired
      /\ t.produced = [q.produced EXCEPT ![i] = value]
      /\ t.producedUpToDate = q.producedUpToDate \cup {i}
  <2>1. q \in QueryType(Size(q))
    BY DEF Typed
  <2> HIDE DEF t
  <2> QED
    BY <1>5, <1>6, <1>7, <2>1 DEF QueryType
<1> QED
  <2>1. Size(t) = Size(q)
    BY <1>8 DEF Size
  <2>2. Typed(t)
    BY <1>8, <2>1 DEF Typed
  <2> QED
    BY <1>8, <2>2 DEF OnlyProduced, value

\* When its children have what they offer, an operator computes what it offers.
LEMMA ComputedIsOffered ==
    ASSUME NEW q, Typed(q), Plan(q.ops), NEW s, OnlyProduced(q, s), NEW i \in 1 .. Size(q),
           q.ops[i].kind = "TableScan" => s.produced[i] = q.produced[i],
           \A k \in 1 .. arity(q.ops[i]) :
              s.produced[q.ops[i].children[k]] = Offered(q, q.ops[i].children[k])
    PROVE  ComputedProduced(s, i) = Offered(q, i)
<1>0. /\ Forest(q.ops) /\ i \in 1 .. Len(q.ops) /\ s.ops = q.ops
      /\ arity(q.ops[i]) = ArityOf(q.ops[i].kind) /\ DOMAIN q.ops[i].children = 1 .. arity(q.ops[i])
      /\ q.ops[i].kind \in Streaming \cup Statements \cup {"GroupBy"}
  BY DEF Plan, Size, Forest, OnlyProduced
<1>1. CASE q.ops[i].kind = "TableScan"
  BY <1>0, <1>1, OfferedParts DEF ComputedProduced
<1>2. CASE q.ops[i].kind = "Select"
  <2>1. DOMAIN q.ops[i].children = {1} /\ 1 \in 1 .. arity(q.ops[i])
    BY <1>0, <1>2 DEF ArityOf
  <2>2. ComputedProduced(s, i) = s.produced[q.ops[i].children[1]]
    BY <1>0, <1>2, <2>1 DEF ComputedProduced
  <2> QED
    BY <1>2, <2>1, <2>2, OfferedParts DEF Left
<1>3. CASE q.ops[i].kind = "Join"
  <2>1. DOMAIN q.ops[i].children = {1, 2} /\ 1 \in 1 .. arity(q.ops[i]) /\ 2 \in 1 .. arity(q.ops[i])
    BY <1>0, <1>3 DEF ArityOf
  <2>2. ComputedProduced(s, i) = s.produced[q.ops[i].children[1]] \cup s.produced[q.ops[i].children[2]]
    <3> DEFINE child == q.ops[i].children
    <3>0. s.ops[i].kind = "Join" /\ s.ops[i].children = child /\ DOMAIN child = {1, 2}
      BY <1>0, <1>3, <2>1
    <3> HIDE DEF child
    <3>1. ComputedProduced(s, i) = UNION {s.produced[child[k]] : k \in DOMAIN child}
      <4>1. s.ops[i].kind # "TableScan" /\ s.ops[i].kind \in {"Select", "Join"}
        BY <3>0
      <4> QED
        BY <3>0, <4>1, ZenonT(60) DEF ComputedProduced
    <3>2. UNION {s.produced[child[k]] : k \in DOMAIN child} = s.produced[child[1]] \cup s.produced[child[2]]
      BY <3>0, ZenonT(60)
    <3> QED
      BY <3>1, <3>2, Zenon DEF child
  <2> QED
    BY <1>3, <2>1, <2>2, OfferedParts DEF Left, Right
<1>4. CASE q.ops[i].kind = "GroupBy"
  BY <1>0, <1>4, OfferedParts DEF ComputedProduced
<1>5. CASE q.ops[i].kind \in Statements
  BY <1>0, <1>5, OfferedParts DEF ComputedProduced, Statements
<1> QED
  BY <1>0, <1>1, <1>2, <1>3, <1>4, <1>5 DEF Streaming

\* updateProducedSets gives every operator of the tree what it offers.
LEMMA UpdateProduced ==
    ASSUME NEW q, Typed(q), Plan(q.ops), ScansFilled(q),
           NEW r \in 1 .. Size(q), q.ops[r].parent = 0, NEW i \in Tree(q.ops, r)
    PROVE  /\ OnlyProduced(q, updateProducedSets(q, i))
           /\ updateProducedSets(q, i).producedUpToDate = q.producedUpToDate \cup Tree(q.ops, r)
           /\ \A j \in 1 .. Size(q) :
                 updateProducedSets(q, i).produced[j] =
                     IF j \in Tree(q.ops, r) THEN Offered(q, j) ELSE q.produced[j]
<1> DEFINE calls == postOrder(q.ops, getRoot(q.ops, i))
<1>0. Forest(q.ops) /\ Size(q) = Len(q.ops) /\ r \in 1 .. Len(q.ops)
  BY DEF Plan, Size
<1>1. calls = postOrder(q.ops, r)
  BY <1>0, RootOfTree
<1>11. calls = postOrder(q.ops, getRoot(q.ops, i))
  OBVIOUS
<1> HIDE DEF calls
<1>2. calls \in Seq(1 .. Size(q)) /\ Len(calls) \in Nat
  <2>1. /\ postOrder(q.ops, r) \in Seq(1 .. Len(q.ops))
        /\ Len(postOrder(q.ops, r)) \in Nat
    BY <1>0, PostOrderParts
  <2> QED
    BY <1>0, <1>1, <2>1
<1>12. \A m \in 1 .. Len(calls) : calls[m] \in 1 .. Size(q)
  BY <1>2, SeqElements
<1>3. \A n \in 1 .. Len(calls) : \A k \in 1 .. arity(q.ops[calls[n]]) :
         \E m \in 1 .. n - 1 : calls[m] = q.ops[calls[n]].children[k]
  <2>1. \A n \in 1 .. Len(postOrder(q.ops, r)) : \A k \in 1 .. arity(q.ops[postOrder(q.ops, r)[n]]) :
           \E m \in 1 .. n - 1 : postOrder(q.ops, r)[m] = q.ops[postOrder(q.ops, r)[n]].children[k]
    BY <1>0, ChildrenFirst, SMTT(30)
  <2> QED
    BY <1>1, <2>1
<1>4. Tree(q.ops, r) = {calls[m] : m \in 1 .. Len(calls)}
  BY <1>1, <1>2 DEF Tree, ToSet
<1>5. PICK after : /\ after[0] = q
                   /\ \A n \in 1 .. Len(calls) : after[n] = visitProduced(after[n - 1], calls[n])
                   /\ updateProducedSets(q, i) = after[Len(calls)]
  <2>1. Len(calls) \in Nat
    BY <1>2
  <2>2. PICK after : ProducedStates(q, i, calls, after)
    BY <1>11, <2>1, ProducedRun, Zenon
  <2> QED
    BY <2>2, Zenon DEF ProducedStates
<1> DEFINE Done(n) == {calls[m] : m \in 1 .. n}
<1> DEFINE Inv(n) ==
        /\ OnlyProduced(q, after[n])
        /\ after[n].producedUpToDate = q.producedUpToDate \cup Done(n)
        /\ \A j \in 1 .. Size(q) :
              after[n].produced[j] = IF j \in Done(n) THEN Offered(q, j) ELSE q.produced[j]
<1> DEFINE Good == {n \in Nat : n <= Len(calls) => Inv(n)}
<1>6. 0 \in Good
  <2>1. Done(0) = {}
    OBVIOUS
  <2>2. OnlyProduced(q, q)
    BY DEF OnlyProduced
  <2> HIDE DEF Done
  <2> QED
    BY <2>1, <2>2, <1>5
<1>7. ASSUME NEW n \in Nat, n \in Good PROVE n + 1 \in Good
  <2>1. CASE n + 1 <= Len(calls)
    <3>1. n + 1 \in 1 .. Len(calls) /\ (n + 1) - 1 = n /\ n <= Len(calls)
      BY <1>2, <2>1
    <3>2. Inv(n)
      BY <1>7, <3>1
    <3> DEFINE s == after[n]
    <3> DEFINE c == calls[n + 1]
    <3>3. c \in 1 .. Size(q)
      BY <1>12, <3>1
    <3>4. after[n + 1] = visitProduced(s, c)
      BY <1>5, <3>1
    <3>5. \A k \in 1 .. arity(q.ops[c]) : q.ops[c].children[k] \in Done(n) /\ q.ops[c].children[k] \in 1 .. Size(q)
      <4>1. \A k \in 1 .. arity(q.ops[c]) : \E m \in 1 .. n : calls[m] = q.ops[c].children[k]
        <5>1. \A k \in 1 .. arity(q.ops[c]) : \E m \in 1 .. (n + 1) - 1 : calls[m] = q.ops[c].children[k]
          BY <1>3, <3>1
        <5> QED
          BY <3>1, <5>1
      <4>2. \A m \in 1 .. n : calls[m] \in 1 .. Size(q)
        <5>1. \A m \in 1 .. n : m \in 1 .. Len(calls)
          BY <1>2, <3>1
        <5> QED
          BY <1>12, <5>1
      <4> QED
        BY <4>1, <4>2
    <3>6. Done(n + 1) = Done(n) \cup {c}
      <4>1. 1 .. n + 1 = (1 .. n) \cup {n + 1}
        OBVIOUS
      <4> QED
        BY <4>1
    <3> HIDE DEF Done, c
    <3>7. OnlyProduced(q, s) /\ Typed(s) /\ s.ops = q.ops /\ Size(s) = Size(q)
      BY <3>2 DEF OnlyProduced, Size
    <3>8. q.ops[c].kind = "TableScan" => s.produced[c] = q.produced[c]
      BY <3>2, <3>3, OfferedParts
    <3>9. ComputedProduced(s, c) = Offered(q, c)
      <4>1. \A k \in 1 .. arity(q.ops[c]) :
               s.produced[q.ops[c].children[k]] = Offered(q, q.ops[c].children[k])
        BY <3>2, <3>5
      <4> HIDE DEF s
      <4> QED
        BY <3>3, <3>7, <3>8, <4>1, ComputedIsOffered
    <3>10. s.ops[c].kind = "TableScan" => s.produced[c] # {}
      BY <3>3, <3>7, <3>8 DEF ScansFilled
    <3> DEFINE t == visitProduced(s, c)
    <3>11. /\ OnlyProduced(s, t)
           /\ t.produced = [s.produced EXCEPT ![c] = ComputedProduced(s, c)]
           /\ t.producedUpToDate = s.producedUpToDate \cup {c}
      <4>1. Forest(s.ops) /\ c \in 1 .. Size(s)
        BY <1>0, <3>3, <3>7
      <4> HIDE DEF s
      <4> QED
        BY <3>7, <3>10, <4>1, VisitProducedStep
    <3>12. s.produced \in [1 .. Size(q) -> IUSets]
      BY <3>7 DEF Typed, QueryType
    <3> HIDE DEF t
    <3>13. \A j \in 1 .. Size(q) : t.produced[j] = IF j = c THEN Offered(q, c) ELSE s.produced[j]
      BY <3>9, <3>11, <3>12
    <3>14. OnlyProduced(q, t)
      BY <3>7, <3>11 DEF OnlyProduced
    <3>15. t.producedUpToDate = q.producedUpToDate \cup Done(n + 1)
      BY <3>2, <3>6, <3>11
    <3>16. \A j \in 1 .. Size(q) :
              t.produced[j] = IF j \in Done(n + 1) THEN Offered(q, j) ELSE q.produced[j]
      BY <3>2, <3>6, <3>13
    <3>17. after[n + 1] = t
      BY <3>4 DEF t
    <3>18. Inv(n + 1)
      BY <3>14, <3>15, <3>16, <3>17
    <3> HIDE DEF Inv
    <3> QED
      BY <3>18
  <2>2. CASE ~ (n + 1 <= Len(calls))
    BY <2>2
  <2> QED
    BY <2>1, <2>2
<1>8. \A n \in Nat : n \in Good
  <2> HIDE DEF Good
  <2> QED
    BY <1>6, <1>7, NatSetInduction
<1>9. Inv(Len(calls)) /\ Done(Len(calls)) = Tree(q.ops, r)
  BY <1>2, <1>4, <1>8
<1> HIDE DEF Done
<1> QED
  BY <1>5, <1>9

-----------------------------------------------------------------------------
(* The required IUs *)

Compute(i) == [call |-> "computeRequired", op |-> i]
Split(i) == [call |-> "splitRequiredSet", op |-> i]

\* The recursion of requiredTraversal is well founded.
LEMMA RequiredTraversalUnfolds ==
    ASSUME NEW ops, Forest(ops)
    PROVE  \A i \in 1 .. Len(ops) :
              /\ arity(ops[i]) = 0 => requiredTraversal(ops, i) = <<Compute(i)>>
              /\ arity(ops[i]) = 1 => requiredTraversal(ops, i) = <<Compute(i)>> \o requiredTraversal(ops, Left(ops, i))
              /\ arity(ops[i]) = 2 =>
                    requiredTraversal(ops, i) =
                        <<Compute(i)>> \o requiredTraversal(ops, Left(ops, i)) \o requiredTraversal(ops, Right(ops, i)) \o <<Split(i)>>
<1> DEFINE Step(f, j) ==
        IF arity(ops[j]) = 0 THEN <<Compute(j)>>
        ELSE IF arity(ops[j]) = 1 THEN <<Compute(j)>> \o f[ops[j].children[1]]
        ELSE <<Compute(j)>> \o f[ops[j].children[1]] \o f[ops[j].children[2]] \o <<Split(j)>>
<1> DEFINE Defines(f) == f = [j \in DOMAIN ops |-> Step(f, j)]
<1> DEFINE Partial(n, g) == g = [j \in 1 .. n |-> Step(g, j)]
<1> DEFINE Good == {n \in Nat : n <= Len(ops) => \E g : Partial(n, g)}
<1>0. Len(ops) \in Nat /\ DOMAIN ops = 1 .. Len(ops)
  BY DEF Forest
<1>1. ASSUME NEW f, NEW g, NEW j \in 1 .. Len(ops), \A c \in 1 .. j - 1 : f[c] = g[c]
      PROVE  Step(f, j) = Step(g, j)
  BY <1>1, Arities DEF Left, Right
<1> HIDE DEF Step
<1>2. 0 \in Good
  <2>1. Partial(0, <<>>)
    OBVIOUS
  <2> QED
    BY <2>1
<1>3. ASSUME NEW n \in Nat, n \in Good PROVE n + 1 \in Good
  <2>1. CASE n + 1 <= Len(ops)
    <3>1. n <= Len(ops)
      BY <1>0, <2>1
    <3>2. PICK g : Partial(n, g)
      BY <1>3, <3>1
    <3> DEFINE h == [j \in 1 .. n + 1 |-> IF j = n + 1 THEN Step(g, j) ELSE g[j]]
    <3>3. \A j \in 1 .. n : h[j] = g[j] /\ g[j] = Step(g, j)
      BY <3>2
    <3>4. ASSUME NEW j \in 1 .. n + 1 PROVE h[j] = Step(h, j)
      <4>1. h[j] = Step(g, j)
        <5>1. CASE j = n + 1
          BY <5>1
        <5>2. CASE j # n + 1
          <6>1. j \in 1 .. n
            BY <5>2
          <6> HIDE DEF h
          <6> QED
            BY <6>1, <3>3
        <5> QED
          BY <5>1, <5>2
      <4>2. j \in 1 .. Len(ops) /\ \A c \in 1 .. j - 1 : h[c] = g[c]
        BY <3>3, <1>0, <2>1
      <4> HIDE DEF h
      <4> QED
        BY <4>1, <4>2, <1>1
    <3>5. h = [j \in 1 .. n + 1 |-> h[j]]
      OBVIOUS
    <3>6. Partial(n + 1, h)
      <4> HIDE DEF h
      <4> QED
        BY <3>4, <3>5
    <3> HIDE DEF Partial
    <3> QED
      BY <3>6
  <2>2. CASE ~ (n + 1 <= Len(ops))
    BY <2>2
  <2> QED
    BY <2>1, <2>2
<1>4. Len(ops) \in Good
  <2> HIDE DEF Good
  <2> QED
    BY <1>0, <1>2, <1>3, NatSetInduction
<1>5. PICK f : Defines(f)
  BY <1>4, <1>0
<1> DEFINE visits == CHOOSE g : Defines(g)
<1>6. Defines(visits)
  <2> HIDE DEF Defines
  <2> QED
    BY <1>5
<1>7. ASSUME NEW i PROVE requiredTraversal(ops, i) = visits[i]
  BY Zenon DEF requiredTraversal, Step, Compute, Split
<1> HIDE DEF visits
<1>8. \A i \in 1 .. Len(ops) : visits[i] = Step(visits, i)
  BY <1>6, <1>0
<1> HIDE DEF Defines
<1> SUFFICES ASSUME NEW i \in 1 .. Len(ops)
             PROVE  /\ arity(ops[i]) = 0 => visits[i] = <<Compute(i)>>
                    /\ arity(ops[i]) = 1 => visits[i] = <<Compute(i)>> \o visits[Left(ops, i)]
                    /\ arity(ops[i]) = 2 => visits[i] = <<Compute(i)>> \o visits[Left(ops, i)] \o visits[Right(ops, i)] \o <<Split(i)>>
  BY <1>7, Zenon
<1>9. visits[i] = IF arity(ops[i]) = 0 THEN <<Compute(i)>>
                 ELSE IF arity(ops[i]) = 1 THEN <<Compute(i)>> \o visits[Left(ops, i)]
                 ELSE <<Compute(i)>> \o visits[Left(ops, i)] \o visits[Right(ops, i)] \o <<Split(i)>>
  BY <1>8, Zenon DEF Left, Right, Step
<1>10. 0 # 1 /\ 0 # 2 /\ 1 # 2
  OBVIOUS
<1> QED
  BY <1>9, <1>10, Zenon

AnyCall(ops) == [call : {"computeRequired", "splitRequiredSet"}, op : 1 .. Len(ops)]

\* part is in whole, from position d + 1 on.
Embedded(part, whole, d) ==
    /\ Len(part) \in Nat /\ Len(whole) \in Nat /\ d \in Nat
    /\ d + Len(part) <= Len(whole)
    /\ \A k \in 1 .. Len(part) : whole[d + k] = part[k]

\* The parts the calls of updateRequiredSets are put together from.
LEMMA TraversalParts ==
    ASSUME NEW ops, Forest(ops)
    PROVE  \A i \in 1 .. Len(ops) :
              LET visits == requiredTraversal(ops, i)
                  left   == requiredTraversal(ops, Left(ops, i))
                  right  == requiredTraversal(ops, Right(ops, i))
              IN  /\ visits \in Seq(AnyCall(ops)) /\ Len(visits) \in Nat \ {0} /\ visits[1] = Compute(i)
                  /\ arity(ops[i]) = 0 => Len(visits) = 1
                  /\ arity(ops[i]) = 1 => Embedded(left, visits, 1) /\ Len(visits) = 1 + Len(left)
                  /\ arity(ops[i]) = 2 => /\ Embedded(left, visits, 1)
                                          /\ Embedded(right, visits, 1 + Len(left))
                                          /\ Len(visits) = Len(left) + Len(right) + 2
                                          /\ visits[Len(visits)] = Split(i)
<1> DEFINE P(i) ==
        LET visits == requiredTraversal(ops, i)
            left   == requiredTraversal(ops, Left(ops, i))
            right  == requiredTraversal(ops, Right(ops, i))
        IN  /\ visits \in Seq(AnyCall(ops)) /\ Len(visits) \in Nat \ {0} /\ visits[1] = Compute(i)
            /\ arity(ops[i]) = 0 => Len(visits) = 1
            /\ arity(ops[i]) = 1 => Embedded(left, visits, 1) /\ Len(visits) = 1 + Len(left)
            /\ arity(ops[i]) = 2 => /\ Embedded(left, visits, 1)
                                    /\ Embedded(right, visits, 1 + Len(left))
                                    /\ Len(visits) = Len(left) + Len(right) + 2
                                    /\ visits[Len(visits)] = Split(i)
<1> DEFINE Good == {i \in 1 .. Len(ops) : P(i)}
<1>0. Len(ops) \in Nat
  BY DEF Forest
<1>1. ASSUME NEW i \in 1 .. Len(ops), \A j \in 1 .. i - 1 : j \in Good PROVE P(i)
  <2> DEFINE T == AnyCall(ops)
  <2> DEFINE visits == requiredTraversal(ops, i)
  <2> DEFINE left == requiredTraversal(ops, Left(ops, i))
  <2> DEFINE right == requiredTraversal(ops, Right(ops, i))
  <2> DEFINE c == Compute(i)
  <2> DEFINE d == Split(i)
  <2>1. /\ arity(ops[i]) = 0 => visits = <<c>>
        /\ arity(ops[i]) = 1 => visits = <<c>> \o left
        /\ arity(ops[i]) = 2 => visits = <<c>> \o left \o right \o <<d>>
    BY RequiredTraversalUnfolds
  <2>2. ASSUME arity(ops[i]) >= 1 PROVE left \in Seq(T)
    <3>1. Left(ops, i) \in 1 .. i - 1
      BY <2>2, Arities
    <3> QED
      BY <1>1, <3>1
  <2>3. ASSUME arity(ops[i]) = 2 PROVE right \in Seq(T)
    <3>1. Right(ops, i) \in 1 .. i - 1
      BY <2>3, Arities
    <3> QED
      BY <1>1, <3>1
  <2>4. c \in T /\ d \in T
    BY DEF AnyCall, Compute, Split
  <2> HIDE DEF P, Good, T, visits, left, right, c, d
  <2>5. /\ <<c>> \in Seq(T) /\ Len(<<c>>) = 1 /\ <<c>>[1] = c
    BY <2>4
  <2>6. /\ visits \in Seq(T) /\ Len(visits) \in Nat \ {0} /\ visits[1] = c
        /\ arity(ops[i]) = 0 => Len(visits) = 1
        /\ arity(ops[i]) = 1 => Embedded(left, visits, 1) /\ Len(visits) = 1 + Len(left)
        /\ arity(ops[i]) = 2 => /\ Embedded(left, visits, 1)
                                /\ Embedded(right, visits, 1 + Len(left))
                                /\ Len(visits) = Len(left) + Len(right) + 2
                                /\ visits[Len(visits)] = d
    <3>1. CASE arity(ops[i]) = 0
      <4>1. visits = <<c>>
        BY <2>1, <3>1, Zenon
      <4>2. visits \in Seq(T) /\ Len(visits) = 1 /\ visits[1] = c
        BY <2>5, <4>1, Zenon
      <4> QED
        BY <4>2, <3>1
    <3>2. CASE arity(ops[i]) = 1
      <4>1. left \in Seq(T)
        BY <2>2, <3>2
      <4> DEFINE whole == <<c>> \o left
      <4>2. /\ whole \in Seq(T) /\ Len(left) \in Nat
            /\ Len(whole) = 1 + Len(left)
            /\ \A k \in 1 .. 1 : whole[k] = <<c>>[k]
            /\ \A k \in 1 .. Len(left) : whole[1 + k] = left[k]
        BY <2>5, <4>1, ConcatBoth
      <4>3. visits = whole
        BY <2>1, <3>2, Zenon
      <4> HIDE DEF whole
      <4>4. Embedded(left, whole, 1)
        BY <4>2 DEF Embedded
      <4>5. Len(whole) \in Nat \ {0} /\ whole[1] = c
        BY <4>2, <2>5
      <4> QED
        BY <4>2, <4>3, <4>4, <4>5, <3>2
    <3>3. CASE arity(ops[i]) = 2
      <4>1. left \in Seq(T) /\ right \in Seq(T)
        BY <2>2, <2>3, <3>3
      <4> DEFINE first == <<c>> \o left
      <4> DEFINE second == first \o right
      <4> DEFINE whole == second \o <<d>>
      <4>2. /\ first \in Seq(T) /\ Len(left) \in Nat
            /\ Len(first) = 1 + Len(left)
            /\ \A k \in 1 .. 1 : first[k] = <<c>>[k]
            /\ \A k \in 1 .. Len(left) : first[1 + k] = left[k]
        BY <2>5, <4>1, ConcatBoth
      <4> HIDE DEF first
      <4>13. first \in Seq(T)
        BY <4>2, Zenon
      <4>15. right \in Seq(T)
        BY <4>1, Zenon
      <4>3. /\ second \in Seq(T)
            /\ Len(first) \in Nat /\ Len(right) \in Nat
            /\ Len(second) = Len(first) + Len(right)
            /\ \A k \in 1 .. Len(first) : second[k] = first[k]
            /\ \A k \in 1 .. Len(right) : second[Len(first) + k] = right[k]
        BY <4>13, <4>15, ConcatBoth
      <4> HIDE DEF second
      <4>14. second \in Seq(T)
        BY <4>3, Zenon
      <4>4. /\ whole \in Seq(T)
            /\ Len(second) \in Nat
            /\ Len(whole) = Len(second) + 1
            /\ \A k \in 1 .. Len(second) : whole[k] = second[k]
            /\ whole[Len(second) + 1] = d
        BY <4>14, <2>4, ConcatLast, Zenon
      <4>5. visits = whole
        BY <2>1, <3>3, Zenon DEF first, second
      <4> HIDE DEF whole
      <4>6. Len(whole) = Len(left) + Len(right) + 2 /\ Len(whole) \in Nat \ {0}
        BY <4>2, <4>3, <4>4
      <4>7. whole[1] = c
        BY <4>2, <4>3, <4>4, <2>5
      <4>8. ASSUME NEW k \in 1 .. Len(left) PROVE whole[1 + k] = left[k]
        <5>1. 1 + k \in 1 .. Len(first) /\ 1 + k \in 1 .. Len(second)
          BY <4>2, <4>3
        <5> QED
          BY <4>2, <4>3, <4>4, <5>1
      <4>9. ASSUME NEW k \in 1 .. Len(right) PROVE whole[(1 + Len(left)) + k] = right[k]
        <5>1. (1 + Len(left)) + k \in 1 .. Len(second)
          BY <4>2, <4>3
        <5> QED
          BY <4>2, <4>3, <4>4, <5>1
      <4>10. Embedded(left, whole, 1)
        BY <4>2, <4>3, <4>6, <4>8 DEF Embedded
      <4>11. Embedded(right, whole, 1 + Len(left))
        BY <4>2, <4>3, <4>6, <4>9 DEF Embedded
      <4>12. whole[Len(whole)] = d
        BY <4>4
      <4> QED
        BY <4>4, <4>5, <4>6, <4>7, <4>10, <4>11, <4>12, <3>3
    <3> QED
      BY <3>1, <3>2, <3>3, Arities
  <2> QED
    BY <2>6 DEF P, T, visits, left, right, c, d
<1>2. \A i \in 1 .. Len(ops) : i \in Good
  <2>1. \A i \in 1 .. Len(ops) : (\A j \in 1 .. i - 1 : j \in Good) => i \in Good
    BY <1>1
  <2> HIDE DEF Good
  <2> QED
    BY <1>0, <2>1, UpwardInduction
<1> QED
  BY <1>2

\* Call c is made before position n of the calls.
Before(calls, n, c) == \E m \in 1 .. n - 1 : calls[m] = c

\* The call at position n computes the set of an operator whose parent's is
\* computed, or splits one when those of both children are.
InOrder(ops, i, calls, n) ==
    LET j == calls[n].op
    IN  /\ j \in Tree(ops, i)
        /\ calls[n] \in {Compute(j), Split(j)}
        /\ calls[n] = Compute(j) /\ j # i => Before(calls, n, Compute(ops[j].parent))
        /\ calls[n] = Split(j) => /\ arity(ops[j]) = 2
                                  /\ Before(calls, n, Compute(j))
                                  /\ Before(calls, n, Compute(Left(ops, j)))
                                  /\ Before(calls, n, Compute(Right(ops, j)))

\* Every operator of the tree has its turn.
AllCalled(ops, i, calls) ==
    \A j \in Tree(ops, i) : /\ Before(calls, Len(calls) + 1, Compute(j))
                            /\ arity(ops[j]) = 2 => Before(calls, Len(calls) + 1, Split(j))

\* What comes before a call in a part comes before it in the whole.
LEMMA BeforeEmbedded ==
    ASSUME NEW part, NEW whole, NEW d, Embedded(part, whole, d),
           NEW k \in 1 .. Len(part) + 1, NEW c, Before(part, k, c)
    PROVE  Before(whole, d + k, c)
<1>1. Len(part) \in Nat /\ d \in Nat
  BY DEF Embedded
<1>2. PICK m \in 1 .. k - 1 : part[m] = c
  BY DEF Before
<1>3. m \in 1 .. Len(part) /\ d + m \in 1 .. (d + k) - 1
  BY <1>1
<1>4. whole[d + m] = c
  BY <1>2, <1>3 DEF Embedded
<1> QED
  BY <1>3, <1>4 DEF Before

\* What was before one position is before the later ones.
LEMMA BeforeLater ==
    ASSUME NEW calls, NEW n \in Nat, NEW m \in Nat, m <= n, NEW c, Before(calls, m, c)
    PROVE  Before(calls, n, c)
<1>1. 1 .. m - 1 \subseteq 1 .. n - 1
  OBVIOUS
<1> QED
  BY <1>1 DEF Before

\* The calls for a child of operator i, among those for i.
LEMMA ChildInOrder ==
    ASSUME NEW ops, NEW i, NEW j, NEW part, NEW whole, NEW d, Embedded(part, whole, d), d >= 1,
           whole[1] = Compute(i), ops[j].parent = i, Tree(ops, j) \subseteq Tree(ops, i),
           NEW k \in 1 .. Len(part), InOrder(ops, j, part, k)
    PROVE  InOrder(ops, i, whole, d + k)
<1> DEFINE c == part[k].op
<1>1. /\ Len(part) \in Nat /\ d \in Nat /\ whole[d + k] = part[k] /\ k \in 1 .. Len(part) + 1
      /\ d + k \in Nat
  BY DEF Embedded
<1>2. /\ c \in Tree(ops, j)
      /\ part[k] \in {Compute(c), Split(c)}
      /\ part[k] = Compute(c) /\ c # j => Before(part, k, Compute(ops[c].parent))
      /\ part[k] = Split(c) => /\ arity(ops[c]) = 2
                               /\ Before(part, k, Compute(c))
                               /\ Before(part, k, Compute(Left(ops, c)))
                               /\ Before(part, k, Compute(Right(ops, c)))
  BY DEF InOrder
<1> HIDE DEF c
<1>3. ASSUME NEW x, Before(part, k, x) PROVE Before(whole, d + k, x)
  BY <1>1, <1>3, BeforeEmbedded
<1>4. ASSUME c = j PROVE Before(whole, d + k, Compute(ops[c].parent))
  <2>1. 1 \in 1 .. (d + k) - 1
    BY <1>1
  <2> QED
    BY <2>1, <1>4 DEF Before
<1>5. whole[d + k] = Compute(c) /\ c # i => Before(whole, d + k, Compute(ops[c].parent))
  BY <1>1, <1>2, <1>3, <1>4
<1> QED
  <2>1. whole[d + k].op = c
    BY <1>1 DEF c
  <2> QED
    BY <1>1, <1>2, <1>3, <1>5, <2>1 DEF InOrder

\* The calls of updateRequiredSets are in order, and none is left out.
LEMMA TraversalOrder ==
    ASSUME NEW ops, Forest(ops), NEW i \in 1 .. Len(ops)
    PROVE  /\ \A n \in 1 .. Len(requiredTraversal(ops, i)) : InOrder(ops, i, requiredTraversal(ops, i), n)
           /\ AllCalled(ops, i, requiredTraversal(ops, i))
<1> DEFINE P(j, calls) ==
        /\ \A n \in 1 .. Len(calls) : InOrder(ops, j, calls, n)
        /\ AllCalled(ops, j, calls)
<1> DEFINE Good == {j \in 1 .. Len(ops) : P(j, requiredTraversal(ops, j))}
<1>0. Len(ops) \in Nat
  BY DEF Forest
<1>1. ASSUME NEW j \in 1 .. Len(ops), \A m \in 1 .. j - 1 : m \in Good
      PROVE  P(j, requiredTraversal(ops, j))
  <2> DEFINE visits == requiredTraversal(ops, j)
  <2> DEFINE left == requiredTraversal(ops, Left(ops, j))
  <2> DEFINE right == requiredTraversal(ops, Right(ops, j))
  <2>1. /\ visits \in Seq(AnyCall(ops)) /\ Len(visits) \in Nat \ {0} /\ visits[1] = Compute(j)
        /\ arity(ops[j]) = 0 => Len(visits) = 1
        /\ arity(ops[j]) = 1 => Embedded(left, visits, 1) /\ Len(visits) = 1 + Len(left)
        /\ arity(ops[j]) = 2 => /\ Embedded(left, visits, 1)
                                /\ Embedded(right, visits, 1 + Len(left))
                                /\ Len(visits) = Len(left) + Len(right) + 2
                                /\ visits[Len(visits)] = Split(j)
    BY TraversalParts
  <2>2. ASSUME NEW k, k \in 1 .. j - 1, k \in 1 .. Len(ops)
        PROVE  P(k, requiredTraversal(ops, k)) /\ k \in Tree(ops, k)
    <3>1. k \in Good /\ k \in Tree(ops, k)
      BY <1>1, <2>2, TreeParts
    <3> HIDE DEF P
    <3> QED
      BY <3>1
  <2>3. j \in Tree(ops, j)
    BY TreeParts
  <2>4. /\ arity(ops[j]) = 0 => Tree(ops, j) = {j}
        /\ arity(ops[j]) = 1 => Tree(ops, j) = Tree(ops, Left(ops, j)) \cup {j}
        /\ arity(ops[j]) = 2 =>
              Tree(ops, j) = Tree(ops, Left(ops, j)) \cup Tree(ops, Right(ops, j)) \cup {j}
    BY TreeParts
  <2>5. ASSUME arity(ops[j]) >= 1
        PROVE  P(Left(ops, j), left) /\ Left(ops, j) \in Tree(ops, Left(ops, j)) /\ ops[Left(ops, j)].parent = j
    <3>1. Left(ops, j) \in 1 .. j - 1 /\ Left(ops, j) \in 1 .. Len(ops)
      BY <2>5, Arities
    <3>2. ops[Left(ops, j)].parent = j
      <4>1. 1 \in 1 .. arity(ops[j])
        BY <2>5, Arities
      <4> QED
        BY <4>1 DEF Forest, Left
    <3> HIDE DEF P
    <3> QED
      BY <2>2, <3>1, <3>2
  <2>6. ASSUME arity(ops[j]) = 2
        PROVE  P(Right(ops, j), right) /\ Right(ops, j) \in Tree(ops, Right(ops, j)) /\ ops[Right(ops, j)].parent = j
    <3>1. Right(ops, j) \in 1 .. j - 1 /\ Right(ops, j) \in 1 .. Len(ops)
      BY <2>6, Arities
    <3>2. ops[Right(ops, j)].parent = j
      <4>1. 2 \in 1 .. arity(ops[j])
        BY <2>6
      <4> QED
        BY <4>1 DEF Forest, Right
    <3> HIDE DEF P
    <3> QED
      BY <2>2, <3>1, <3>2
  <2> HIDE DEF visits, left, right, Good, P
  <2>7. InOrder(ops, j, visits, 1)
    <3>1. visits[1].op = j /\ Compute(j) # Split(j)
      BY <2>1 DEF Compute, Split
    <3> QED
      BY <2>1, <2>3, <3>1 DEF InOrder
  <2>8. Before(visits, Len(visits) + 1, Compute(j))
    <3>1. 1 \in 1 .. (Len(visits) + 1) - 1
      BY <2>1
    <3> QED
      BY <2>1, <3>1 DEF Before
  <2>9. ASSUME NEW part, NEW c, NEW d, Embedded(part, visits, d), d >= 1,
               P(c, part), ops[c].parent = j, Tree(ops, c) \subseteq Tree(ops, j)
        PROVE  /\ \A k \in 1 .. Len(part) : InOrder(ops, j, visits, d + k)
               /\ \A m \in Tree(ops, c) :
                     /\ Before(visits, Len(visits) + 1, Compute(m))
                     /\ Before(visits, d + Len(part) + 1, Compute(m))
                     /\ arity(ops[m]) = 2 => Before(visits, Len(visits) + 1, Split(m))
    <3>1. Len(part) \in Nat /\ d \in Nat /\ d + Len(part) <= Len(visits) /\ Len(visits) \in Nat
      BY <2>9 DEF Embedded
    <3>2. ASSUME NEW k \in 1 .. Len(part) PROVE InOrder(ops, j, visits, d + k)
      <4>1. InOrder(ops, c, part, k)
        BY <2>9 DEF P
      <4> QED
        BY <2>1, <2>9, <4>1, ChildInOrder
    <3>3. ASSUME NEW x, Before(part, Len(part) + 1, x)
          PROVE  Before(visits, d + Len(part) + 1, x) /\ Before(visits, Len(visits) + 1, x)
      <4>1. Len(part) + 1 \in 1 .. Len(part) + 1
        BY <3>1
      <4>2. Before(visits, d + (Len(part) + 1), x)
        BY <2>9, <3>3, <4>1, BeforeEmbedded
      <4>3. /\ d + (Len(part) + 1) = d + Len(part) + 1
            /\ d + (Len(part) + 1) \in Nat /\ Len(visits) + 1 \in Nat
            /\ d + (Len(part) + 1) <= Len(visits) + 1
        BY <3>1
      <4>4. Before(visits, Len(visits) + 1, x)
        BY <4>2, <4>3, BeforeLater
      <4> QED
        BY <4>2, <4>3, <4>4
    <3> QED
      BY <2>9, <3>2, <3>3 DEF P, AllCalled
  <2>10. P(j, visits)
    <3>1. CASE arity(ops[j]) = 0
      <4>1. Len(visits) = 1 /\ Tree(ops, j) = {j}
        BY <2>1, <2>4, <3>1
      <4>2. \A n \in 1 .. Len(visits) : InOrder(ops, j, visits, n)
        BY <2>7, <4>1
      <4> QED
        BY <2>8, <3>1, <4>1, <4>2 DEF P, AllCalled
    <3>2. CASE arity(ops[j]) = 1
      <4>1. Embedded(left, visits, 1) /\ Len(visits) = 1 + Len(left) /\ Len(left) \in Nat
        BY <2>1, <3>2 DEF Embedded
      <4>2. Tree(ops, j) = Tree(ops, Left(ops, j)) \cup {j}
        BY <2>4, <3>2
      <4>3. P(Left(ops, j), left) /\ ops[Left(ops, j)].parent = j
        BY <2>5, <3>2
      <4>4. /\ \A k \in 1 .. Len(left) : InOrder(ops, j, visits, 1 + k)
            /\ \A m \in Tree(ops, Left(ops, j)) :
                  /\ Before(visits, Len(visits) + 1, Compute(m))
                  /\ arity(ops[m]) = 2 => Before(visits, Len(visits) + 1, Split(m))
        BY <2>9, <4>1, <4>2, <4>3
      <4>5. ASSUME NEW n \in 1 .. Len(visits) PROVE InOrder(ops, j, visits, n)
        <5>1. CASE n = 1
          BY <2>7, <5>1
        <5>2. CASE n # 1
          <6>1. n - 1 \in 1 .. Len(left) /\ 1 + (n - 1) = n
            BY <4>1, <5>2
          <6> QED
            BY <4>4, <6>1
        <5> QED
          BY <5>1, <5>2
      <4> QED
        BY <2>8, <3>2, <4>2, <4>4, <4>5 DEF P, AllCalled
    <3>3. CASE arity(ops[j]) = 2
      <4>1. /\ Embedded(left, visits, 1) /\ Embedded(right, visits, 1 + Len(left))
            /\ Len(visits) = Len(left) + Len(right) + 2
            /\ visits[Len(visits)] = Split(j)
            /\ Len(left) \in Nat /\ Len(right) \in Nat /\ Len(visits) \in Nat
        BY <2>1, <3>3 DEF Embedded
      <4>2. /\ Tree(ops, j) = Tree(ops, Left(ops, j)) \cup Tree(ops, Right(ops, j)) \cup {j}
            /\ Left(ops, j) \in Tree(ops, Left(ops, j)) /\ Right(ops, j) \in Tree(ops, Right(ops, j))
        BY <2>4, <2>5, <2>6, <3>3
      <4>3. P(Left(ops, j), left) /\ ops[Left(ops, j)].parent = j
        BY <2>5, <3>3
      <4>4. P(Right(ops, j), right) /\ ops[Right(ops, j)].parent = j
        BY <2>6, <3>3
      <4>5. /\ \A k \in 1 .. Len(left) : InOrder(ops, j, visits, 1 + k)
            /\ \A m \in Tree(ops, Left(ops, j)) :
                  /\ Before(visits, Len(visits) + 1, Compute(m))
                  /\ Before(visits, 1 + Len(left) + 1, Compute(m))
                  /\ arity(ops[m]) = 2 => Before(visits, Len(visits) + 1, Split(m))
        BY <2>9, <4>1, <4>2, <4>3
      <4>6. /\ \A k \in 1 .. Len(right) : InOrder(ops, j, visits, (1 + Len(left)) + k)
            /\ \A m \in Tree(ops, Right(ops, j)) :
                  /\ Before(visits, Len(visits) + 1, Compute(m))
                  /\ Before(visits, (1 + Len(left)) + Len(right) + 1, Compute(m))
                  /\ arity(ops[m]) = 2 => Before(visits, Len(visits) + 1, Split(m))
        <5>1. 1 + Len(left) >= 1 /\ Tree(ops, Right(ops, j)) \subseteq Tree(ops, j)
          BY <4>1, <4>2
        <5> QED
          BY <2>9, <4>1, <4>4, <5>1
      <4>7. InOrder(ops, j, visits, Len(visits))
        <5>1. visits[Len(visits)].op = j /\ Compute(j) # Split(j)
          BY <4>1 DEF Compute, Split
        <5>2. /\ (1 + Len(left)) + Len(right) + 1 = Len(visits)
              /\ 1 + Len(left) + 1 <= Len(visits) /\ 1 + Len(left) + 1 \in Nat
          BY <4>1
        <5>3. Before(visits, Len(visits), Compute(Right(ops, j)))
          BY <4>2, <4>6, <5>2
        <5>4. Before(visits, Len(visits), Compute(Left(ops, j)))
          BY <4>1, <4>2, <4>5, <5>2, BeforeLater
        <5>5. Before(visits, Len(visits), Compute(j))
          <6>1. 1 \in 1 .. Len(visits) - 1
            BY <4>1
          <6> QED
            BY <2>1, <6>1 DEF Before
        <5> QED
          BY <2>3, <3>3, <4>1, <5>1, <5>3, <5>4, <5>5 DEF InOrder
      <4>8. Before(visits, Len(visits) + 1, Split(j))
        <5>1. Len(visits) \in 1 .. (Len(visits) + 1) - 1
          BY <2>1, <4>1
        <5> QED
          BY <4>1, <5>1 DEF Before
      <4>9. ASSUME NEW n \in 1 .. Len(visits) PROVE InOrder(ops, j, visits, n)
        <5>1. CASE n = 1
          BY <2>7, <5>1
        <5>2. CASE n > 1 /\ n <= 1 + Len(left)
          <6>1. n - 1 \in 1 .. Len(left) /\ 1 + (n - 1) = n
            BY <4>1, <5>2
          <6> QED
            BY <4>5, <6>1
        <5>3. CASE n > 1 + Len(left) /\ n < Len(visits)
          <6>1. n - (1 + Len(left)) \in 1 .. Len(right) /\ (1 + Len(left)) + (n - (1 + Len(left))) = n
            BY <4>1, <5>3
          <6> QED
            BY <4>6, <6>1
        <5>4. CASE n = Len(visits)
          BY <4>7, <5>4
        <5>5. n = 1 \/ (n > 1 /\ n <= 1 + Len(left)) \/ (n > 1 + Len(left) /\ n < Len(visits)) \/ n = Len(visits)
          BY <4>1
        <5> QED
          BY <5>1, <5>2, <5>3, <5>4, <5>5
      <4> QED
        BY <2>8, <4>2, <4>5, <4>6, <4>8, <4>9 DEF P, AllCalled
    <3> QED
      BY <3>1, <3>2, <3>3, Arities
  <2> QED
    BY <2>10 DEF visits
<1>2. \A m \in 1 .. Len(ops) : m \in Good
  <2>1. \A m \in 1 .. Len(ops) : (\A p \in 1 .. m - 1 : p \in Good) => m \in Good
    BY <1>1
  <2> HIDE DEF Good
  <2> QED
    BY <1>0, <2>1, UpwardInduction
<1> QED
  BY <1>2

\* The states updateRequiredSets goes through, one for every call it makes.
LEMMA RequiredRun ==
    ASSUME NEW q, NEW i, NEW calls, calls = requiredTraversal(q.ops, getRoot(q.ops, i)), Len(calls) \in Nat
    PROVE  \E after : /\ after[0] = q
                      /\ \A n \in 1 .. Len(calls) : after[n] = visitRequired(after[n - 1], calls[n])
                      /\ updateRequiredSets(q, i) = after[Len(calls)]
<1> DEFINE Step(f, n) == IF n = 0 THEN q ELSE visitRequired(f[n - 1], calls[n])
<1> DEFINE Defines(f) == f = [n \in 0 .. Len(calls) |-> Step(f, n)]
<1> DEFINE Partial(m, g) == g = [n \in 0 .. m |-> Step(g, n)]
<1> DEFINE Good == {m \in Nat : \E g : Partial(m, g)}
<1>1. ASSUME NEW f, NEW g, NEW n \in Nat, n # 0 => f[n - 1] = g[n - 1]
      PROVE  Step(f, n) = Step(g, n)
  BY <1>1
<1>2. 0 \in Good
  <2> DEFINE g == [n \in 0 .. 0 |-> Step(<<>>, n)]
  <2>1. \A n \in 0 .. 0 : Step(g, n) = Step(<<>>, n)
    OBVIOUS
  <2> HIDE DEF Step
  <2>2. Partial(0, g)
    BY <2>1
  <2> QED
    BY <2>2
<1> HIDE DEF Step
<1>3. ASSUME NEW m \in Nat, m \in Good PROVE m + 1 \in Good
  <2>1. PICK g : Partial(m, g)
    BY <1>3
  <2> DEFINE h == [n \in 0 .. m + 1 |-> IF n = m + 1 THEN Step(g, n) ELSE g[n]]
  <2>2. \A n \in 0 .. m : h[n] = g[n] /\ g[n] = Step(g, n)
    BY <2>1
  <2>3. ASSUME NEW n \in 0 .. m + 1 PROVE h[n] = Step(h, n)
    <3>1. h[n] = Step(g, n)
      <4>1. CASE n = m + 1
        BY <4>1
      <4>2. CASE n # m + 1
        <5>1. n \in 0 .. m
          BY <4>2
        <5> HIDE DEF h
        <5> QED
          BY <5>1, <2>2
      <4> QED
        BY <4>1, <4>2
    <3> HIDE DEF h
    <3>2. n # 0 => h[n - 1] = g[n - 1]
      BY <2>2
    <3> QED
      BY <3>1, <3>2, <1>1
  <2>4. h = [n \in 0 .. m + 1 |-> h[n]]
    OBVIOUS
  <2>5. Partial(m + 1, h)
    <3> HIDE DEF h
    <3> QED
      BY <2>3, <2>4
  <2> HIDE DEF Partial
  <2> QED
    BY <2>5
<1>4. Len(calls) \in Good
  <2> HIDE DEF Good
  <2> QED
    BY <1>2, <1>3, NatSetInduction
<1>5. PICK f : Defines(f)
  BY <1>4
<1> DEFINE after == CHOOSE g : Defines(g)
<1>6. Defines(after)
  <2> HIDE DEF Defines
  <2> QED
    BY <1>5
<1>7. updateRequiredSets(q, i) = after[Len(calls)]
  BY Zenon DEF updateRequiredSets, Step
<1> HIDE DEF after
<1>8. \A n \in 0 .. Len(calls) : after[n] = Step(after, n)
  BY <1>6
<1> HIDE DEF Defines
<1>9. after[0] = q
  BY <1>8 DEF Step
<1>10. ASSUME NEW n \in 1 .. Len(calls) PROVE after[n] = visitRequired(after[n - 1], calls[n])
  <2>1. n \in 0 .. Len(calls) /\ n # 0
    OBVIOUS
  <2> QED
    BY <2>1, <1>8 DEF Step
<1> QED
  BY <1>7, <1>9, <1>10

\* A cache that is up to date has what the operator offers.
CachesRight(q) ==
    \A j \in 1 .. Size(q) : j \in q.producedUpToDate => q.produced[j] = Offered(q, j)

\* s is q with more caches filled, and filled right.
Keeps(q, s) ==
    /\ Typed(s)
    /\ s.ops = q.ops /\ s.iu_vec = q.iu_vec /\ s.ius = q.ius
    /\ \A j \in 1 .. Size(q) : q.ops[j].kind = "TableScan" => s.produced[j] = q.produced[j]
    /\ q.producedUpToDate \subseteq s.producedUpToDate
    /\ CachesRight(s)

\* As long as the scans keep their columns, every operator offers what it did.
LEMMA OffersKept ==
    ASSUME NEW q, NEW s, s.ops = q.ops, Forest(q.ops),
           \A j \in 1 .. Size(q) : q.ops[j].kind = "TableScan" => s.produced[j] = q.produced[j]
    PROVE  \A j \in 1 .. Size(q) : Offered(s, j) = Offered(q, j)
<1> SUFFICES ASSUME NEW j \in 1 .. Size(q) PROVE Offered(s, j) = Offered(q, j)
  OBVIOUS
<1>1. Tree(q.ops, j) \subseteq 1 .. Size(q)
  BY TreeParts DEF Size
<1>2. Scans(s, j) = Scans(q, j) /\ \A k \in Scans(q, j) : s.produced[k] = q.produced[k]
  BY <1>1 DEF Scans
<1>3. {s.produced[k] : k \in Scans(s, j)} = {q.produced[k] : k \in Scans(q, j)}
  BY <1>2
<1> QED
  BY <1>3 DEF Offered

\* What filling more caches keeps.
LEMMA KeptFacts ==
    ASSUME NEW q, NEW s, Plan(q.ops), ScansFilled(q), Keeps(q, s)
    PROVE  /\ Plan(s.ops) /\ ScansFilled(s) /\ CachesRight(s) /\ Size(s) = Size(q) /\ Typed(s)
           /\ \A j \in 1 .. Size(q) : Offered(s, j) = Offered(q, j)
<1>1. s.ops = q.ops /\ Size(s) = Size(q) /\ Plan(s.ops) /\ Forest(q.ops)
  BY DEF Keeps, Size, Plan
<1>2. ScansFilled(s)
  BY <1>1 DEF Keeps, ScansFilled
<1>3. \A j \in 1 .. Size(q) : q.ops[j].kind = "TableScan" => s.produced[j] = q.produced[j]
  BY DEF Keeps
<1> QED
  BY <1>1, <1>2, <1>3, OffersKept DEF Keeps

\* Caches may be filled in several steps.
LEMMA KeepsTrans ==
    ASSUME NEW q, NEW s, NEW t, Keeps(q, s), Keeps(s, t)
    PROVE  Keeps(q, t)
<1>1. Size(s) = Size(q)
  BY DEF Keeps, Size
<1> QED
  BY <1>1 DEF Keeps

\* After getProduced the operator asked has what it offers.
LEMMA GetProduced ==
    ASSUME NEW q, Typed(q), Plan(q.ops), ScansFilled(q), CachesRight(q),
           NEW r \in 1 .. Size(q), q.ops[r].parent = 0, NEW i \in Tree(q.ops, r)
    PROVE  /\ Keeps(q, getProduced(q, i)) /\ OnlyProduced(q, getProduced(q, i))
           /\ i \in getProduced(q, i).producedUpToDate
           /\ i \notin q.producedUpToDate => Tree(q.ops, r) \subseteq getProduced(q, i).producedUpToDate
<1>1. CASE i \in q.producedUpToDate
  <2>1. getProduced(q, i) = q
    BY <1>1 DEF getProduced
  <2> QED
    BY <1>1, <2>1 DEF Keeps, OnlyProduced
<1>2. CASE i \notin q.producedUpToDate
  <2> DEFINE s == updateProducedSets(q, i)
  <2>1. getProduced(q, i) = s
    BY <1>2 DEF getProduced
  <2>2. /\ OnlyProduced(q, s)
        /\ s.producedUpToDate = q.producedUpToDate \cup Tree(q.ops, r)
        /\ \A j \in 1 .. Size(q) :
              s.produced[j] = IF j \in Tree(q.ops, r) THEN Offered(q, j) ELSE q.produced[j]
    BY UpdateProduced
  <2> HIDE DEF s
  <2>3. \A j \in 1 .. Size(q) : q.ops[j].kind = "TableScan" => s.produced[j] = q.produced[j]
    BY <2>2, OfferedParts
  <2>4. s.ops = q.ops /\ Size(s) = Size(q) /\ Forest(q.ops)
    BY <2>2 DEF OnlyProduced, Size, Plan
  <2>5. \A j \in 1 .. Size(q) : Offered(s, j) = Offered(q, j)
    BY <2>3, <2>4, OffersKept
  <2>6. CachesRight(s)
    BY <2>2, <2>4, <2>5 DEF CachesRight
  <2>7. Keeps(q, s)
    BY <2>2, <2>3, <2>6 DEF Keeps, OnlyProduced
  <2> QED
    BY <2>1, <2>2, <2>7
<1> QED
  BY <1>1, <1>2

HasSibling(ops, j) == ops[j].parent # 0 /\ arity(ops[ops[j].parent]) = 2

\* What an operator requires, from what its parent does.
ShouldRequire(q, j) ==
    IF q.ops[j].kind \in Streaming
    THEN q.ius[j] \cup IF q.ops[j].parent = 0 THEN {}
                       ELSE IF HasSibling(q.ops, j) THEN q.required[q.ops[j].parent] \cap Offered(q, j)
                       ELSE q.required[q.ops[j].parent]
    ELSE IF q.ops[j].kind = "Insert" THEN {} ELSE q.ius[j]

\* One step of updateRequiredSetsTraverser on its way down.
LEMMA ComputeRequiredStep ==
    ASSUME NEW q, Typed(q), Plan(q.ops), ScansFilled(q), CachesRight(q),
           NEW r \in 1 .. Size(q), q.ops[r].parent = 0, NEW i \in Tree(q.ops, r),
           q.required[i] = {} \/ q.required[i] = ShouldRequire(q, i)
    PROVE  /\ Keeps(q, computeRequired(q, i))
           /\ computeRequired(q, i).required = [q.required EXCEPT ![i] = ShouldRequire(q, i)]
           /\ computeRequired(q, i).requiredUpToDate = q.requiredUpToDate \cup {i}
           /\ computeRequired(q, i).leftRequired = q.leftRequired
           /\ computeRequired(q, i).rightRequired = q.rightRequired
           /\ q.ops[i].kind \in Streaming /\ HasSibling(q.ops, i) =>
                 i \in computeRequired(q, i).producedUpToDate
           /\ ~HasSibling(q.ops, i) => computeRequired(q, i).producedUpToDate = q.producedUpToDate
<1> DEFINE s == IF q.ops[i].kind \in {"TableScan", "Select", "Join"} /\ hasSibling(q, i)
                THEN getProduced(q, i) ELSE q
<1> DEFINE value == ShouldRequire(q, i)
<1>0. Forest(q.ops) /\ i \in 1 .. Len(q.ops) /\ i \in 1 .. Size(q) /\ Size(q) = Len(q.ops)
  <2>1. r \in 1 .. Len(q.ops) /\ Forest(q.ops)
    BY DEF Size, Plan
  <2> QED
    BY <2>1, TreeParts DEF Size
<1>1. hasSibling(q, i) <=> HasSibling(q.ops, i)
  <2>1. ASSUME q.ops[i].parent # 0 PROVE arity(q.ops[q.ops[i].parent]) \in {0, 1, 2}
    <3>1. q.ops[i].parent \in 1 .. Len(q.ops)
      BY <1>0, <2>1 DEF Forest
    <3> QED
      BY <1>0, <3>1, Arities
  <2> QED
    BY <2>1 DEF hasSibling, HasSibling
<1>2. Keeps(q, s) /\ OnlyProduced(q, s)
  <2>1. Keeps(q, q) /\ OnlyProduced(q, q)
    BY DEF Keeps, OnlyProduced
  <2>2. Keeps(q, getProduced(q, i)) /\ OnlyProduced(q, getProduced(q, i))
    BY GetProduced
  <2> QED
    BY <2>1, <2>2
<1>3. ASSUME q.ops[i].kind \in Streaming, HasSibling(q.ops, i)
      PROVE  i \in s.producedUpToDate /\ s.produced[i] = Offered(q, i)
  <2>1. s = getProduced(q, i)
    BY <1>1, <1>3 DEF Streaming
  <2>2. i \in s.producedUpToDate
    BY <2>1, GetProduced
  <2> HIDE DEF s
  <2>3. CachesRight(s) /\ Size(s) = Size(q) /\ Offered(s, i) = Offered(q, i)
    BY <1>0, <1>2, KeptFacts
  <2> QED
    BY <1>0, <2>2, <2>3 DEF CachesRight
<1>16. ~HasSibling(q.ops, i) => s.producedUpToDate = q.producedUpToDate
  BY <1>1
<1>4. computeRequired(q, i) = [s EXCEPT !.required = [s.required EXCEPT ![i] = required(s, i)],
                                        !.requiredUpToDate = s.requiredUpToDate \cup {i}]
  BY Zenon DEF computeRequired
<1> HIDE DEF s
<1>5. /\ s.ops = q.ops /\ s.ius = q.ius /\ s.required = q.required
      /\ s.requiredUpToDate = q.requiredUpToDate
      /\ s.leftRequired = q.leftRequired /\ s.rightRequired = q.rightRequired
      /\ s \in QueryType(Size(q)) /\ Size(s) = Size(q)
  BY <1>2 DEF OnlyProduced, Typed, Size
<1>6. hasSibling(s, i) <=> HasSibling(q.ops, i)
  BY <1>1, <1>5 DEF hasSibling
<1>7. q.ops[i].kind \in Streaming \cup Statements \cup {"GroupBy"}
  BY <1>0 DEF Forest
<1>8. required(s, i) = value
  <2>1. CASE q.ops[i].kind \in Streaming
    <3>1. required(s, i) = computeExpected(s, i) \cup q.ius[i]
      BY <1>5, <2>1 DEF required, Streaming
    <3>2. CASE q.ops[i].parent = 0
      BY <1>5, <2>1, <3>1, <3>2 DEF computeExpected, ShouldRequire
    <3>3. CASE q.ops[i].parent # 0 /\ HasSibling(q.ops, i)
      BY <1>3, <1>5, <1>6, <2>1, <3>1, <3>3 DEF computeExpected, ShouldRequire
    <3>4. CASE q.ops[i].parent # 0 /\ ~HasSibling(q.ops, i)
      BY <1>5, <1>6, <2>1, <3>1, <3>4 DEF computeExpected, ShouldRequire
    <3> QED
      BY <3>2, <3>3, <3>4
  <2>2. CASE q.ops[i].kind = "GroupBy"
    BY <1>5, <2>2 DEF required, ShouldRequire, Streaming
  <2>3. CASE q.ops[i].kind \in {"Result", "Update", "Delete"}
    <3>1. required(s, i) = q.required[i] \cup q.ius[i]
      BY <1>5, <2>3 DEF required
    <3>2. value = q.ius[i]
      BY <2>3 DEF ShouldRequire, Streaming
    <3> HIDE DEF value
    <3>3. q.required[i] = {} \/ q.required[i] = value
      BY DEF value
    <3> QED
      BY <3>1, <3>2, <3>3
  <2>4. CASE q.ops[i].kind = "Insert"
    <3>1. required(s, i) = q.required[i]
      BY <1>5, <2>4 DEF required
    <3>2. value = {}
      BY <2>4 DEF ShouldRequire, Streaming
    <3> HIDE DEF value
    <3>3. q.required[i] = {} \/ q.required[i] = value
      BY DEF value
    <3> QED
      BY <3>1, <3>2, <3>3
  <2> QED
    BY <1>7, <2>1, <2>2, <2>3, <2>4 DEF Statements
<1>9. value \in IUSets
  <2>1. /\ q.ius \in [1 .. Size(q) -> IUSets] /\ q.required \in [1 .. Size(q) -> IUSets]
    BY DEF Typed, QueryType
  <2>2. q.ops[i].parent # 0 => q.ops[i].parent \in 1 .. Size(q)
    BY <1>0 DEF Forest
  <2> QED
    BY <1>0, <2>1, <2>2 DEF ShouldRequire, IUSets
<1> HIDE DEF value
<1> DEFINE t == computeRequired(q, i)
<1>10. t = [s EXCEPT !.required = [q.required EXCEPT ![i] = value],
                     !.requiredUpToDate = q.requiredUpToDate \cup {i}]
  BY <1>4, <1>5, <1>8
<1>11. /\ [q.required EXCEPT ![i] = value] \in [1 .. Size(q) -> IUSets]
       /\ q.requiredUpToDate \cup {i} \in SUBSET (1 .. Size(q))
  <2>1. q.required \in [1 .. Size(q) -> IUSets] /\ q.requiredUpToDate \in SUBSET (1 .. Size(q))
    BY DEF Typed, QueryType
  <2> QED
    BY <2>1, <1>0, <1>9
<1> HIDE DEF t
<1>12. /\ t \in QueryType(Size(q))
       /\ t.ops = s.ops /\ t.iu_vec = s.iu_vec /\ t.ius = s.ius
       /\ t.produced = s.produced /\ t.producedUpToDate = s.producedUpToDate
       /\ t.required = [q.required EXCEPT ![i] = value]
       /\ t.requiredUpToDate = q.requiredUpToDate \cup {i}
       /\ t.leftRequired = q.leftRequired /\ t.rightRequired = q.rightRequired
  BY <1>5, <1>10, <1>11 DEF QueryType
<1>13. Typed(t) /\ Size(t) = Size(q)
  BY <1>5, <1>12 DEF Typed, Size
<1>14. CachesRight(t)
  <2>1. \A j \in 1 .. Size(q) : Offered(t, j) = Offered(s, j)
    BY <1>0, <1>5, <1>12, OffersKept
  <2> QED
    BY <1>2, <1>5, <1>12, <1>13, <2>1 DEF CachesRight, Keeps
<1>15. Keeps(q, t)
  BY <1>2, <1>12, <1>13, <1>14 DEF Keeps
<1> QED
  BY <1>3, <1>12, <1>15, <1>16 DEF t, value

\* The step for a join after its children.
LEMMA SplitStep ==
    ASSUME NEW q, Typed(q), Forest(q.ops), CachesRight(q),
           NEW i \in 1 .. Size(q), arity(q.ops[i]) = 2
    PROVE  /\ Keeps(q, splitRequiredSet(q, i))
           /\ splitRequiredSet(q, i).required = q.required
           /\ splitRequiredSet(q, i).requiredUpToDate = q.requiredUpToDate
           /\ splitRequiredSet(q, i).producedUpToDate = q.producedUpToDate
           /\ splitRequiredSet(q, i).leftRequired =
                 [q.leftRequired EXCEPT ![i] = q.leftRequired[i] \cup (q.required[i] \cap q.required[Left(q.ops, i)])]
           /\ splitRequiredSet(q, i).rightRequired =
                 [q.rightRequired EXCEPT ![i] = q.rightRequired[i] \cup (q.required[i] \cap q.required[Right(q.ops, i)])]
<1> DEFINE lefts == [q.leftRequired EXCEPT ![i] = q.leftRequired[i] \cup (q.required[i] \cap q.required[Left(q.ops, i)])]
<1> DEFINE rights == [q.rightRequired EXCEPT ![i] = q.rightRequired[i] \cup (q.required[i] \cap q.required[Right(q.ops, i)])]
<1> DEFINE t == splitRequiredSet(q, i)
<1>1. t = [q EXCEPT !.leftRequired = lefts, !.rightRequired = rights]
  BY DEF splitRequiredSet, Left, Right
<1>2. q \in QueryType(Size(q)) /\ Size(q) = Len(q.ops)
  BY DEF Typed, Size
<1>3. Left(q.ops, i) \in 1 .. Size(q) /\ Right(q.ops, i) \in 1 .. Size(q)
  BY <1>2, Arities
<1>4. lefts \in [1 .. Size(q) -> IUSets] /\ rights \in [1 .. Size(q) -> IUSets]
  <2>1. /\ q.required \in [1 .. Size(q) -> IUSets]
        /\ q.leftRequired \in [1 .. Size(q) -> IUSets] /\ q.rightRequired \in [1 .. Size(q) -> IUSets]
    BY <1>2 DEF QueryType
  <2> QED
    BY <2>1, <1>3 DEF IUSets
<1> HIDE DEF lefts, rights, t
<1>5. /\ t \in QueryType(Size(q))
      /\ t.ops = q.ops /\ t.iu_vec = q.iu_vec /\ t.ius = q.ius
      /\ t.produced = q.produced /\ t.producedUpToDate = q.producedUpToDate
      /\ t.required = q.required /\ t.requiredUpToDate = q.requiredUpToDate
      /\ t.leftRequired = lefts /\ t.rightRequired = rights
  BY <1>1, <1>2, <1>4 DEF QueryType
<1>6. Typed(t) /\ Size(t) = Size(q)
  BY <1>2, <1>5 DEF Typed, Size
<1>7. \A j \in 1 .. Size(q) : Offered(t, j) = Offered(q, j)
  BY <1>5, OffersKept
<1>8. CachesRight(t)
  BY <1>5, <1>6, <1>7 DEF CachesRight
<1>9. Keeps(q, t)
  BY <1>5, <1>6, <1>8 DEF Keeps
<1> QED
  BY <1>5, <1>9 DEF t, lefts, rights

\* What the traversal of tree r has reached: the sets of the operators in
\* computed and the splits of those in split, from what was not filled before.
Progress(q, r, s, computed, split) ==
    /\ Keeps(q, s)
    /\ computed \subseteq Tree(q.ops, r)
    /\ \A j \in computed : j # r => q.ops[j].parent \in computed
    /\ \A j \in split : /\ j \in computed /\ arity(q.ops[j]) = 2
                        /\ Left(q.ops, j) \in computed /\ Right(q.ops, j) \in computed
    /\ s.requiredUpToDate = computed
    /\ \A j \in 1 .. Size(q) :
          /\ s.required[j] = IF j \in computed THEN ShouldRequire(s, j) ELSE {}
          /\ s.leftRequired[j] = IF j \in split THEN s.required[j] \cap s.required[Left(q.ops, j)] ELSE {}
          /\ s.rightRequired[j] = IF j \in split THEN s.required[j] \cap s.required[Right(q.ops, j)] ELSE {}
          /\ j \in computed /\ q.ops[j].kind \in Streaming /\ HasSibling(q.ops, j) => j \in s.producedUpToDate
    /\ (\A j \in Tree(q.ops, r) : ~HasSibling(q.ops, j)) => s.producedUpToDate = q.producedUpToDate

\* The traversal goes on to an operator below one it has reached.
LEMMA ProgressCompute ==
    ASSUME NEW q, Typed(q), Plan(q.ops), ScansFilled(q),
           NEW r \in 1 .. Size(q), q.ops[r].parent = 0,
           NEW s, NEW computed, NEW split, Progress(q, r, s, computed, split),
           NEW i \in Tree(q.ops, r), i # r => q.ops[i].parent \in computed
    PROVE  Progress(q, r, computeRequired(s, i), computed \cup {i}, split)
<1> DEFINE t == computeRequired(s, i)
<1>1. Keeps(q, s) /\ s.ops = q.ops
  BY DEF Progress, Keeps
<1>2. /\ Plan(s.ops) /\ ScansFilled(s) /\ CachesRight(s) /\ Size(s) = Size(q) /\ Typed(s)
      /\ \A j \in 1 .. Size(q) : Offered(s, j) = Offered(q, j)
  BY <1>1, KeptFacts
<1>3. i \in 1 .. Size(q) /\ Forest(q.ops)
  BY TreeParts DEF Size, Plan
<1>4. s.required[i] = {} \/ s.required[i] = ShouldRequire(s, i)
  BY <1>3 DEF Progress
<1>5. /\ Keeps(s, t)
      /\ t.required = [s.required EXCEPT ![i] = ShouldRequire(s, i)]
      /\ t.requiredUpToDate = s.requiredUpToDate \cup {i}
      /\ t.leftRequired = s.leftRequired
      /\ t.rightRequired = s.rightRequired
      /\ q.ops[i].kind \in Streaming /\ HasSibling(q.ops, i) => i \in t.producedUpToDate
      /\ ~HasSibling(q.ops, i) => t.producedUpToDate = s.producedUpToDate
  <2>1. r \in 1 .. Size(s) /\ s.ops[r].parent = 0 /\ i \in Tree(s.ops, r)
    BY <1>1, <1>2
  <2> QED
    BY <1>1, <1>2, <1>4, <2>1, ComputeRequiredStep
<1> HIDE DEF t
<1>6. Keeps(q, t) /\ t.ius = s.ius /\ t.ops = q.ops /\ s.producedUpToDate \subseteq t.producedUpToDate
  BY <1>1, <1>5, KeepsTrans DEF Keeps
<1>7. \A j \in 1 .. Size(q) : Offered(t, j) = Offered(s, j)
  BY <1>2, <1>6, KeptFacts
<1>8. s.required \in [1 .. Size(q) -> IUSets]
  BY <1>2 DEF Typed, QueryType
<1>9. \A j \in 1 .. Size(q) : t.required[j] = IF j = i THEN ShouldRequire(s, i) ELSE s.required[j]
  BY <1>5, <1>8
<1>10. \A j \in computed : /\ t.required[j] = s.required[j]
                           /\ q.ops[j].parent # 0 => t.required[q.ops[j].parent] = s.required[q.ops[j].parent]
  <2> SUFFICES ASSUME NEW j \in computed
               PROVE  /\ t.required[j] = s.required[j]
                      /\ q.ops[j].parent # 0 => t.required[q.ops[j].parent] = s.required[q.ops[j].parent]
    OBVIOUS
  <2>1. \A k \in computed : k \in 1 .. Size(q) /\ s.required[k] = ShouldRequire(s, k)
    <3>1. computed \subseteq Tree(q.ops, r) /\ Tree(q.ops, r) \subseteq 1 .. Size(q)
      BY <1>3, TreeParts DEF Progress, Size
    <3> QED
      BY <3>1 DEF Progress
  <2>2. \A k \in computed : t.required[k] = s.required[k]
    BY <1>9, <2>1
  <2>3. q.ops[j].parent # 0 => q.ops[j].parent \in computed
    BY DEF Progress
  <2> QED
    BY <2>2, <2>3
<1>11. \A j \in 1 .. Size(q) : j \in computed \cup {i} => t.required[j] = ShouldRequire(t, j)
  <2> SUFFICES ASSUME NEW j \in 1 .. Size(q), j \in computed \cup {i} PROVE t.required[j] = ShouldRequire(t, j)
    OBVIOUS
  <2>1. q.ops[j].parent # 0 => t.required[q.ops[j].parent] = s.required[q.ops[j].parent]
    <3>1. CASE j \in computed
      BY <1>10, <3>1
    <3>2. CASE j = i /\ j \notin computed
      <4>1. q.ops[j].parent # 0 => q.ops[j].parent \in computed
        BY <3>2
      <4> QED
        <5>1. ASSUME q.ops[j].parent # 0 PROVE q.ops[j].parent \in 1 .. Size(q) /\ q.ops[j].parent # i
          <6>1. q.ops[j].parent \in computed
            BY <4>1, <5>1
          <6>2. q.ops[j].parent \in 0 .. Len(q.ops)
            BY <1>3 DEF Forest, Size
          <6> QED
            BY <3>2, <5>1, <6>1, <6>2 DEF Size
        <5> QED
          BY <1>9, <5>1
    <3> QED
      BY <3>1, <3>2
  <2>2. ShouldRequire(t, j) = ShouldRequire(s, j)
    BY <1>1, <1>6, <1>7, <2>1 DEF ShouldRequire
  <2>3. j \in computed => s.required[j] = ShouldRequire(s, j)
    BY DEF Progress
  <2> QED
    BY <1>9, <2>2, <2>3
<1>12. \A j \in 1 .. Size(q) : j \notin computed \cup {i} => t.required[j] = {}
  BY <1>9 DEF Progress
<1>13. \A j \in 1 .. Size(q) :
          /\ t.leftRequired[j] = IF j \in split THEN t.required[j] \cap t.required[Left(q.ops, j)] ELSE {}
          /\ t.rightRequired[j] = IF j \in split THEN t.required[j] \cap t.required[Right(q.ops, j)] ELSE {}
  <2>1. \A j \in split : j \in computed /\ Left(q.ops, j) \in computed /\ Right(q.ops, j) \in computed
    BY DEF Progress
  <2>2. \A j \in 1 .. Size(q) : 
          /\ s.leftRequired[j] = IF j \in split THEN s.required[j] \cap s.required[Left(q.ops, j)] ELSE {}
          /\ s.rightRequired[j] = IF j \in split THEN s.required[j] \cap s.required[Right(q.ops, j)] ELSE {}
    BY Zenon DEF Progress
  <2> QED
    BY <1>5, <1>10, <2>1, <2>2, ZenonT(60)
<1>14. \A j \in 1 .. Size(q) :
          j \in computed \cup {i} /\ q.ops[j].kind \in Streaming /\ HasSibling(q.ops, j) => j \in t.producedUpToDate
  BY <1>5, <1>6 DEF Progress
<1>15. t.requiredUpToDate = computed \cup {i}
  BY <1>5 DEF Progress
<1>16. (\A j \in Tree(q.ops, r) : ~HasSibling(q.ops, j)) => t.producedUpToDate = q.producedUpToDate
  BY <1>5 DEF Progress
<1>17. /\ computed \cup {i} \subseteq Tree(q.ops, r)
       /\ \A j \in computed \cup {i} : j # r => q.ops[j].parent \in computed \cup {i}
       /\ \A j \in split : /\ j \in computed \cup {i} /\ arity(q.ops[j]) = 2
                           /\ Left(q.ops, j) \in computed \cup {i} /\ Right(q.ops, j) \in computed \cup {i}
  BY DEF Progress
<1>18. Progress(q, r, t, computed \cup {i}, split)
  BY <1>6, <1>11, <1>12, <1>13, <1>14, <1>15, <1>16, <1>17 DEF Progress
<1> QED
  BY <1>18 DEF t

\* The traversal splits the set of a join both sides of which it has reached.
LEMMA ProgressSplit ==
    ASSUME NEW q, Typed(q), Plan(q.ops), ScansFilled(q),
           NEW r \in 1 .. Size(q), q.ops[r].parent = 0,
           NEW s, NEW computed, NEW split, Progress(q, r, s, computed, split),
           NEW i \in computed, arity(q.ops[i]) = 2,
           Left(q.ops, i) \in computed, Right(q.ops, i) \in computed
    PROVE  Progress(q, r, splitRequiredSet(s, i), computed, split \cup {i})
<1> DEFINE t == splitRequiredSet(s, i)
<1>1. Keeps(q, s) /\ s.ops = q.ops
  BY DEF Progress, Keeps
<1>2. /\ Plan(s.ops) /\ ScansFilled(s) /\ CachesRight(s) /\ Size(s) = Size(q) /\ Typed(s)
      /\ \A j \in 1 .. Size(q) : Offered(s, j) = Offered(q, j)
  BY <1>1, KeptFacts
<1>3. i \in 1 .. Size(q) /\ Forest(q.ops)
  <2>1. computed \subseteq Tree(q.ops, r) /\ Forest(q.ops)
    BY DEF Progress, Plan
  <2>2. Tree(q.ops, r) \subseteq 1 .. Size(q)
    BY <2>1, TreeParts DEF Size
  <2> QED
    BY <2>1, <2>2
<1>4. /\ Keeps(s, t)
      /\ t.required = s.required
      /\ t.requiredUpToDate = s.requiredUpToDate
      /\ t.producedUpToDate = s.producedUpToDate
      /\ t.leftRequired =
            [s.leftRequired EXCEPT ![i] = s.leftRequired[i] \cup (s.required[i] \cap s.required[Left(q.ops, i)])]
      /\ t.rightRequired =
            [s.rightRequired EXCEPT ![i] = s.rightRequired[i] \cup (s.required[i] \cap s.required[Right(q.ops, i)])]
  <2>1. Forest(s.ops) /\ i \in 1 .. Size(s) /\ arity(s.ops[i]) = 2
    BY <1>1, <1>2, <1>3
  <2> QED
    BY <1>1, <1>2, <2>1, SplitStep
<1> HIDE DEF t
<1>5. Keeps(q, t) /\ t.ius = s.ius /\ t.ops = q.ops
  BY <1>1, <1>4, KeepsTrans DEF Keeps
<1>6. \A j \in 1 .. Size(q) : Offered(t, j) = Offered(s, j)
  BY <1>2, <1>5, KeptFacts
<1>7. \A j \in 1 .. Size(q) : ShouldRequire(t, j) = ShouldRequire(s, j)
  BY <1>1, <1>4, <1>5, <1>6 DEF ShouldRequire
<1>8. s.leftRequired \in [1 .. Size(q) -> IUSets] /\ s.rightRequired \in [1 .. Size(q) -> IUSets]
  BY <1>2 DEF Typed, QueryType
<1>9. \A j \in 1 .. Size(q) :
         /\ t.leftRequired[j] = IF j = i THEN s.leftRequired[j] \cup (s.required[j] \cap s.required[Left(q.ops, j)])
                                ELSE s.leftRequired[j]
         /\ t.rightRequired[j] = IF j = i THEN s.rightRequired[j] \cup (s.required[j] \cap s.required[Right(q.ops, j)])
                                 ELSE s.rightRequired[j]
  BY <1>4, <1>8
<1>10. \A j \in 1 .. Size(q) :
          /\ s.leftRequired[j] = IF j \in split THEN s.required[j] \cap s.required[Left(q.ops, j)] ELSE {}
          /\ s.rightRequired[j] = IF j \in split THEN s.required[j] \cap s.required[Right(q.ops, j)] ELSE {}
  BY DEF Progress
<1>11. \A j \in 1 .. Size(q) :
          /\ t.leftRequired[j] = IF j \in split \cup {i} THEN t.required[j] \cap t.required[Left(q.ops, j)] ELSE {}
          /\ t.rightRequired[j] = IF j \in split \cup {i} THEN t.required[j] \cap t.required[Right(q.ops, j)] ELSE {}
  <2> SUFFICES ASSUME NEW j \in 1 .. Size(q)
               PROVE  /\ t.leftRequired[j] = IF j \in split \cup {i} THEN t.required[j] \cap t.required[Left(q.ops, j)] ELSE {}
                      /\ t.rightRequired[j] = IF j \in split \cup {i} THEN t.required[j] \cap t.required[Right(q.ops, j)] ELSE {}
    OBVIOUS
  <2>1. t.required = s.required
    BY <1>4
  <2>2. CASE j = i
    BY <1>9, <1>10, <2>1, <2>2
  <2>3. CASE j # i
    BY <1>9, <1>10, <2>1, <2>3
  <2> QED
    BY <2>2, <2>3
<1>12. Progress(q, r, t, computed, split \cup {i})
  <2>1. /\ computed \subseteq Tree(q.ops, r)
        /\ \A j \in computed : j # r => q.ops[j].parent \in computed
        /\ s.requiredUpToDate = computed
        /\ \A j \in 1 .. Size(q) :
              /\ s.required[j] = IF j \in computed THEN ShouldRequire(s, j) ELSE {}
              /\ j \in computed /\ q.ops[j].kind \in Streaming /\ HasSibling(q.ops, j) => j \in s.producedUpToDate
        /\ (\A j \in Tree(q.ops, r) : ~HasSibling(q.ops, j)) => s.producedUpToDate = q.producedUpToDate
    BY DEF Progress
  <2>2. \A j \in split \cup {i} : /\ j \in computed /\ arity(q.ops[j]) = 2
                                  /\ Left(q.ops, j) \in computed /\ Right(q.ops, j) \in computed
    BY DEF Progress
  <2>3. t.requiredUpToDate = s.requiredUpToDate /\ t.required = s.required /\ t.producedUpToDate = s.producedUpToDate
    BY <1>4
  <2>4. \A j \in 1 .. Size(q) : t.required[j] = IF j \in computed THEN ShouldRequire(t, j) ELSE {}
    BY <1>7, <2>1, <2>3
  <2> QED
    BY <1>5, <1>11, <2>1, <2>2, <2>3, <2>4, Zenon DEF Progress
<1> QED
  BY <1>12 DEF t

\* Nothing has asked for required IUs yet.
Fresh(q) ==
    /\ q.requiredUpToDate = {}
    /\ \A j \in 1 .. Size(q) : q.required[j] = {} /\ q.leftRequired[j] = {} /\ q.rightRequired[j] = {}

\* The required IUs of tree r are as computeRequired and splitRequiredSet say.
Filled(q, r) ==
    \A j \in Tree(q.ops, r) :
       /\ j \in q.requiredUpToDate
       /\ q.required[j] = ShouldRequire(q, j)
       /\ arity(q.ops[j]) = 2 =>
             /\ q.leftRequired[j] = q.required[j] \cap q.required[Left(q.ops, j)]
             /\ q.rightRequired[j] = q.required[j] \cap q.required[Right(q.ops, j)]
       /\ q.ops[j].kind \in Streaming /\ HasSibling(q.ops, j) => j \in q.producedUpToDate

\* updateRequiredSets fills the required IUs of the whole tree.
LEMMA UpdateRequired ==
    ASSUME NEW q, Typed(q), Plan(q.ops), ScansFilled(q), CachesRight(q), Fresh(q),
           NEW r \in 1 .. Size(q), q.ops[r].parent = 0, NEW i \in Tree(q.ops, r)
    PROVE  /\ Keeps(q, updateRequiredSets(q, i))
           /\ Filled(updateRequiredSets(q, i), r)
           /\ (\A j \in Tree(q.ops, r) : ~HasSibling(q.ops, j)) =>
                 updateRequiredSets(q, i).producedUpToDate = q.producedUpToDate
<1> DEFINE calls == requiredTraversal(q.ops, getRoot(q.ops, i))
<1>0. Forest(q.ops) /\ Size(q) = Len(q.ops) /\ r \in 1 .. Len(q.ops)
  BY DEF Plan, Size
<1>1. calls = requiredTraversal(q.ops, r)
  BY <1>0, RootOfTree
<1>2. calls = requiredTraversal(q.ops, getRoot(q.ops, i))
  OBVIOUS
<1> HIDE DEF calls
<1>3. Len(calls) \in Nat
  BY <1>0, <1>1, TraversalParts
<1>4. \A n \in 1 .. Len(calls) : InOrder(q.ops, r, calls, n)
  BY <1>0, <1>1, TraversalOrder
<1>5. AllCalled(q.ops, r, calls)
  BY <1>0, <1>1, TraversalOrder
<1>6. PICK after : /\ after[0] = q
                   /\ \A n \in 1 .. Len(calls) : after[n] = visitRequired(after[n - 1], calls[n])
                   /\ updateRequiredSets(q, i) = after[Len(calls)]
  BY <1>2, <1>3, RequiredRun
<1>7. Tree(q.ops, r) \subseteq 1 .. Size(q)
  BY <1>0, TreeParts
<1> DEFINE Computed(n) == {j \in 1 .. Size(q) : Before(calls, n + 1, Compute(j))}
<1> DEFINE Divided(n) == {j \in 1 .. Size(q) : Before(calls, n + 1, Split(j))}
<1> DEFINE Good == {n \in Nat : n <= Len(calls) => Progress(q, r, after[n], Computed(n), Divided(n))}
<1>8. 0 \in Good
  <2>1. Computed(0) = {} /\ Divided(0) = {}
    BY DEF Before
  <2>2. Keeps(q, q)
    BY DEF Keeps
  <2> HIDE DEF Computed, Divided
  <2>3. Progress(q, r, q, {}, {})
    BY <2>2 DEF Progress, Fresh
  <2> QED
    BY <1>6, <2>1, <2>3
<1>9. ASSUME NEW n \in Nat, n \in Good PROVE n + 1 \in Good
  <2>1. CASE n + 1 <= Len(calls)
    <3> SUFFICES Progress(q, r, after[n + 1], Computed(n + 1), Divided(n + 1))
      OBVIOUS
    <3> DEFINE j == calls[n + 1].op
    <3>1. n + 1 \in 1 .. Len(calls) /\ (n + 1) - 1 = n /\ n <= Len(calls)
      BY <1>3, <2>1
    <3>2. Progress(q, r, after[n], Computed(n), Divided(n))
      BY <1>9, <3>1
    <3>3. InOrder(q.ops, r, calls, n + 1)
      BY <1>4, <3>1
    <3>4. after[n + 1] = visitRequired(after[n], calls[n + 1])
      BY <1>6, <3>1
    <3>5. \A c : Before(calls, (n + 1) + 1, c) <=> Before(calls, n + 1, c) \/ calls[n + 1] = c
      <4>1. 1 .. ((n + 1) + 1) - 1 = (1 .. (n + 1) - 1) \cup {n + 1}
        OBVIOUS
      <4> QED
        BY <4>1 DEF Before
    <3>6. /\ j \in Tree(q.ops, r)
          /\ calls[n + 1] \in {Compute(j), Split(j)}
          /\ calls[n + 1] = Compute(j) /\ j # r => Before(calls, n + 1, Compute(q.ops[j].parent))
          /\ calls[n + 1] = Split(j) => /\ arity(q.ops[j]) = 2
                                        /\ Before(calls, n + 1, Compute(j))
                                        /\ Before(calls, n + 1, Compute(Left(q.ops, j)))
                                        /\ Before(calls, n + 1, Compute(Right(q.ops, j)))
      BY <3>3 DEF InOrder
    <3> HIDE DEF j
    <3>7. j \in 1 .. Size(q)
      BY <1>7, <3>6
    <3>8. CASE calls[n + 1] = Compute(j)
      <4>1. after[n + 1] = computeRequired(after[n], j)
        BY <3>4, <3>8 DEF visitRequired, Compute
      <4>2. Computed(n + 1) = Computed(n) \cup {j} /\ Divided(n + 1) = Divided(n)
        <5>1. \A k \in 1 .. Size(q) : (calls[n + 1] = Compute(k) <=> k = j) /\ calls[n + 1] # Split(k)
          BY <3>8 DEF Compute, Split
        <5> QED
          BY <3>5, <3>7, <5>1
      <4>3. j # r => q.ops[j].parent \in Computed(n)
        <5>1. j # r => q.ops[j].parent \in Tree(q.ops, r)
          BY <1>0, <3>6, TreeClosed
        <5> QED
          BY <1>7, <3>6, <3>8, <5>1
      <4> HIDE DEF Computed, Divided
      <4>4. Progress(q, r, computeRequired(after[n], j), Computed(n) \cup {j}, Divided(n))
        BY <3>2, <3>6, <4>3, ProgressCompute
      <4> QED
        BY <4>1, <4>2, <4>4
    <3>9. CASE calls[n + 1] = Split(j)
      <4>1. after[n + 1] = splitRequiredSet(after[n], j)
        BY <3>4, <3>9 DEF visitRequired, Split
      <4>2. Computed(n + 1) = Computed(n) /\ Divided(n + 1) = Divided(n) \cup {j}
        <5>1. \A k \in 1 .. Size(q) : (calls[n + 1] = Split(k) <=> k = j) /\ calls[n + 1] # Compute(k)
          BY <3>9 DEF Compute, Split
        <5> QED
          BY <3>5, <3>7, <5>1
      <4>3. /\ j \in Computed(n) /\ arity(q.ops[j]) = 2
            /\ Left(q.ops, j) \in Computed(n) /\ Right(q.ops, j) \in Computed(n)
        <5>1. arity(q.ops[j]) = 2
          BY <3>6, <3>9
        <5>2. Left(q.ops, j) \in 1 .. Size(q) /\ Right(q.ops, j) \in 1 .. Size(q)
          BY <1>0, <3>7, <5>1, Arities
        <5> QED
          BY <3>6, <3>7, <3>9, <5>2
      <4> HIDE DEF Computed, Divided
      <4>4. Progress(q, r, splitRequiredSet(after[n], j), Computed(n), Divided(n) \cup {j})
        BY <3>2, <4>3, ProgressSplit
      <4> QED
        BY <4>1, <4>2, <4>4
    <3> QED
      BY <3>6, <3>8, <3>9
  <2>2. CASE ~ (n + 1 <= Len(calls))
    BY <2>2
  <2> QED
    BY <2>1, <2>2
<1>10. \A n \in Nat : n \in Good
  <2> HIDE DEF Good
  <2> QED
    BY <1>8, <1>9, NatSetInduction
<1> DEFINE s == after[Len(calls)]
<1>11. Progress(q, r, s, Computed(Len(calls)), Divided(Len(calls)))
  <2>1. Len(calls) <= Len(calls)
    BY <1>3
  <2>2. Len(calls) \in Good
    <3> HIDE DEF Good
    <3> QED
      BY <1>3, <1>10
  <2> HIDE DEF Computed, Divided
  <2> QED
    BY <2>1, <2>2
<1>14. /\ Tree(q.ops, r) \subseteq Computed(Len(calls))
       /\ \A j \in Tree(q.ops, r) : arity(q.ops[j]) = 2 => j \in Divided(Len(calls))
  BY <1>5, <1>7 DEF AllCalled
<1> HIDE DEF Computed, Divided, s
<1>12. Keeps(q, s) /\ s.ops = q.ops
  BY <1>11 DEF Progress, Keeps
<1>13. Filled(s, r)
  <2>1. /\ s.requiredUpToDate = Computed(Len(calls))
        /\ \A j \in 1 .. Size(q) :
              /\ s.required[j] = IF j \in Computed(Len(calls)) THEN ShouldRequire(s, j) ELSE {}
              /\ s.leftRequired[j] = IF j \in Divided(Len(calls)) THEN s.required[j] \cap s.required[Left(q.ops, j)] ELSE {}
              /\ s.rightRequired[j] = IF j \in Divided(Len(calls)) THEN s.required[j] \cap s.required[Right(q.ops, j)] ELSE {}
              /\ j \in Computed(Len(calls)) /\ q.ops[j].kind \in Streaming /\ HasSibling(q.ops, j) =>
                    j \in s.producedUpToDate
    BY <1>11 DEF Progress
  <2> SUFFICES ASSUME NEW j \in Tree(q.ops, r)
               PROVE  /\ j \in s.requiredUpToDate
                      /\ s.required[j] = ShouldRequire(s, j)
                      /\ arity(q.ops[j]) = 2 =>
                            /\ s.leftRequired[j] = s.required[j] \cap s.required[Left(q.ops, j)]
                            /\ s.rightRequired[j] = s.required[j] \cap s.required[Right(q.ops, j)]
                      /\ q.ops[j].kind \in Streaming /\ HasSibling(q.ops, j) => j \in s.producedUpToDate
    BY <1>12 DEF Filled
  <2>2. j \in 1 .. Size(q) /\ j \in Computed(Len(calls)) /\ (arity(q.ops[j]) = 2 => j \in Divided(Len(calls)))
    BY <1>7, <1>14
  <2> QED
    BY <2>1, <2>2
<1> QED
  BY <1>6, <1>11, <1>12, <1>13 DEF Progress, s

\* After getRequired the required IUs of the whole tree are filled, whoever asked first.
LEMMA GetRequired ==
    ASSUME NEW q, Typed(q), Plan(q.ops), ScansFilled(q), CachesRight(q),
           NEW r \in 1 .. Size(q), q.ops[r].parent = 0, Fresh(q) \/ Filled(q, r), NEW i \in Tree(q.ops, r)
    PROVE  /\ Keeps(q, getRequired(q, i))
           /\ Filled(getRequired(q, i), r)
           /\ (\A j \in Tree(q.ops, r) : ~HasSibling(q.ops, j)) =>
                 getRequired(q, i).producedUpToDate = q.producedUpToDate
<1>1. CASE i \in q.requiredUpToDate
  <2>1. getRequired(q, i) = q
    BY <1>1 DEF getRequired
  <2>2. Filled(q, r)
    BY <1>1 DEF Fresh
  <2>3. Keeps(q, q)
    BY DEF Keeps
  <2> QED
    BY <2>1, <2>2, <2>3
<1>2. CASE i \notin q.requiredUpToDate
  <2>1. getRequired(q, i) = updateRequiredSets(q, i)
    BY <1>2 DEF getRequired
  <2>2. Fresh(q)
    BY <1>2 DEF Filled
  <2> QED
    BY <2>1, <2>2, UpdateRequired
<1> QED
  BY <1>1, <1>2

-----------------------------------------------------------------------------
(* The translation *)

\* A part of a part is a part.
LEMMA EmbeddedAgain ==
    ASSUME NEW inner, NEW part, NEW whole, NEW c, NEW d, Embedded(inner, part, c), Embedded(part, whole, d)
    PROVE  Embedded(inner, whole, d + c)
<1>1. /\ Len(inner) \in Nat /\ Len(part) \in Nat /\ Len(whole) \in Nat /\ c \in Nat /\ d \in Nat
      /\ c + Len(inner) <= Len(part) /\ d + Len(part) <= Len(whole)
      /\ \A k \in 1 .. Len(inner) : part[c + k] = inner[k]
      /\ \A k \in 1 .. Len(part) : whole[d + k] = part[k]
  BY DEF Embedded
<1>2. \A k \in 1 .. Len(inner) : whole[(d + c) + k] = inner[k]
  <2> SUFFICES ASSUME NEW k \in 1 .. Len(inner) PROVE whole[(d + c) + k] = inner[k]
    OBVIOUS
  <2>1. c + k \in 1 .. Len(part) /\ d + (c + k) = (d + c) + k
    BY <1>1
  <2> QED
    BY <1>1, <2>1
<1> QED
  BY <1>1, <1>2 DEF Embedded

\* Popping what was pushed.
LEMMA Popped ==
    ASSUME NEW stack \in Seq(Nat), NEW a \in Nat, NEW b \in Nat
    PROVE  /\ Append(stack, a) \in Seq(Nat)
           /\ Append(Append(stack, a), b) \in Seq(Nat)
           /\ Len(stack) \in Nat
           /\ SubSeq(stack, 1, Len(stack) - 0) = stack
           /\ Len(Append(stack, a)) = Len(stack) + 1 /\ Append(stack, a)[Len(stack) + 1] = a
           /\ SubSeq(Append(stack, a), 1, Len(Append(stack, a)) - 1) = stack
           /\ Len(Append(Append(stack, a), b)) = Len(stack) + 2
           /\ Append(Append(stack, a), b)[Len(stack) + 1] = a
           /\ Append(Append(stack, a), b)[Len(stack) + 2] = b
           /\ SubSeq(Append(Append(stack, a), b), 1, Len(Append(Append(stack, a), b)) - 2) = stack
<1>1. Append(stack, a) \in Seq(Nat) /\ Len(stack) \in Nat /\ Append(Append(stack, a), b) \in Seq(Nat)
  OBVIOUS
<1>2. SubSeq(stack, 1, Len(stack) - 0) = stack
  OBVIOUS
<1>3. Len(Append(stack, a)) = Len(stack) + 1 /\ Append(stack, a)[Len(stack) + 1] = a
  OBVIOUS
<1>4. SubSeq(Append(stack, a), 1, Len(Append(stack, a)) - 1) = stack
  OBVIOUS
<1>5. /\ Len(Append(Append(stack, a), b)) = Len(stack) + 2
      /\ Append(Append(stack, a), b)[Len(stack) + 1] = a
      /\ Append(Append(stack, a), b)[Len(stack) + 2] = b
  OBVIOUS
<1>6. SubSeq(Append(Append(stack, a), b), 1, Len(Append(Append(stack, a), b)) - 2) = stack
  OBVIOUS
<1> QED
  BY <1>1, <1>2, <1>3, <1>4, <1>5, <1>6

\* The children that are popped for operator j are its own.
PopsChildren(ops, stack, j) ==
    \A k \in 1 .. arity(ops[j]) : popChildren(stack, ops[j])[k] = ops[j].children[k]

\* The stacks of visits in the order whole.
Stacked(ops, whole, stacks) ==
    \A n \in 1 .. Len(whole) :
       stacks[n] = Append(SubSeq(stacks[n - 1], 1, Len(stacks[n - 1]) - arity(ops[whole[n]])), whole[n])

\* Visiting the part of the order that belongs to operator i leaves the stack
\* as it was with i on top, and pops the right children all the way.
LEMMA StackOrder ==
    ASSUME NEW ops, Forest(ops), NEW whole, NEW stacks, Stacked(ops, whole, stacks)
    PROVE  \A i \in 1 .. Len(ops) : \A d :
              Embedded(postOrder(ops, i), whole, d) /\ stacks[d] \in Seq(Nat) =>
                 /\ stacks[d + Len(postOrder(ops, i))] = Append(stacks[d], i)
                 /\ \A k \in 1 .. Len(postOrder(ops, i)) : PopsChildren(ops, stacks[d + k - 1], whole[d + k])
<1> DEFINE P(i) ==
        \A d : Embedded(postOrder(ops, i), whole, d) /\ stacks[d] \in Seq(Nat) =>
                 /\ stacks[d + Len(postOrder(ops, i))] = Append(stacks[d], i)
                 /\ \A k \in 1 .. Len(postOrder(ops, i)) : PopsChildren(ops, stacks[d + k - 1], whole[d + k])
<1> DEFINE Good == {i \in 1 .. Len(ops) : P(i)}
<1>0. Len(ops) \in Nat
  BY DEF Forest
<1>1. ASSUME NEW i \in 1 .. Len(ops), \A j \in 1 .. i - 1 : j \in Good PROVE i \in Good
  <2> SUFFICES ASSUME NEW d, Embedded(postOrder(ops, i), whole, d), stacks[d] \in Seq(Nat)
               PROVE  /\ stacks[d + Len(postOrder(ops, i))] = Append(stacks[d], i)
                      /\ \A k \in 1 .. Len(postOrder(ops, i)) : PopsChildren(ops, stacks[d + k - 1], whole[d + k])
    OBVIOUS
  <2> DEFINE order == postOrder(ops, i)
  <2> DEFINE left == postOrder(ops, Left(ops, i))
  <2> DEFINE right == postOrder(ops, Right(ops, i))
  <2> DEFINE last == d + Len(order)
  <2> DEFINE st == stacks[d]
  <2>1. /\ Len(order) \in Nat \ {0} /\ order[Len(order)] = i
        /\ arity(ops[i]) = 0 => Len(order) = 1
        /\ arity(ops[i]) = 1 => /\ Len(order) = Len(left) + 1
                                /\ \A k \in 1 .. Len(left) : order[k] = left[k]
        /\ arity(ops[i]) = 2 => /\ Len(order) = Len(left) + Len(right) + 1
                                /\ \A k \in 1 .. Len(left) : order[k] = left[k]
                                /\ \A k \in 1 .. Len(right) : order[Len(left) + k] = right[k]
    BY PostOrderParts
  <2>2. /\ arity(ops[i]) \in {0, 1, 2} /\ i \in Nat
        /\ arity(ops[i]) >= 1 => Left(ops, i) \in 1 .. i - 1 /\ Left(ops, i) \in 1 .. Len(ops)
        /\ arity(ops[i]) = 2 => Right(ops, i) \in 1 .. i - 1 /\ Right(ops, i) \in 1 .. Len(ops)
    BY Arities
  <2>3. /\ arity(ops[i]) >= 1 => Len(left) \in Nat
        /\ arity(ops[i]) = 2 => Len(right) \in Nat
    BY <2>2, PostOrderParts
  <2> HIDE DEF order, left, right
  <2>4. Embedded(order, whole, d)
    BY DEF order
  <2>5. /\ last \in 1 .. Len(whole) /\ last - 1 \in Nat /\ d \in Nat /\ whole[last] = i
        /\ last = d + Len(order) /\ last - 1 = d + (Len(order) - 1)
    BY <2>1, <2>4 DEF Embedded
  <2>6. stacks[last] = Append(SubSeq(stacks[last - 1], 1, Len(stacks[last - 1]) - arity(ops[i])), i)
    <3> HIDE DEF last
    <3> QED
      BY <2>5 DEF Stacked
  <2>7. DOMAIN ops[i].children = 1 .. arity(ops[i])
    BY DEF Forest
  <2> HIDE DEF last, st
  <2>8. st \in Seq(Nat) /\ st = stacks[d]
    BY DEF st
  <2> SUFFICES /\ stacks[last] = Append(st, i)
               /\ \A k \in 1 .. Len(order) : PopsChildren(ops, stacks[d + k - 1], whole[d + k])
    BY <2>5, <2>8 DEF order
  <2>9. CASE arity(ops[i]) = 0
    <3>1. Len(order) = 1 /\ last - 1 = d
      <4>1. Len(order) = 1
        BY <2>1, <2>9
      <4> QED
        BY <2>5, <4>1
    <3>2. stacks[last] = Append(st, i)
      BY <2>6, <2>8, <2>9, <3>1, Popped
    <3>3. PopsChildren(ops, stacks[d + 1 - 1], whole[d + 1])
      <4>1. whole[d + 1] = i
        BY <2>5, <3>1
      <4> QED
        BY <4>1, <2>9 DEF PopsChildren
    <3> QED
      BY <3>1, <3>2, <3>3
  <2>10. CASE arity(ops[i]) = 1
    <3> DEFINE a == Left(ops, i)
    <3>1. /\ Len(order) = Len(left) + 1 /\ Len(left) \in Nat /\ last - 1 = d + Len(left)
          /\ a \in 1 .. i - 1 /\ a \in Nat /\ a \in 1 .. Len(ops)
      <4>1. Len(order) = Len(left) + 1
        BY <2>1, <2>10
      <4>2. Len(left) \in Nat /\ a \in 1 .. i - 1 /\ a \in 1 .. Len(ops) /\ i \in Nat
        BY <2>2, <2>3, <2>10
      <4>3. a \in Nat
        BY <4>2
      <4> HIDE DEF a
      <4>4. last - 1 = d + Len(left)
        BY <2>5, <4>1, <4>2
      <4> QED
        BY <4>1, <4>2, <4>3, <4>4
    <3>2. Embedded(left, whole, d)
      <4>1. Embedded(left, order, 0)
        BY <2>1, <2>10, <3>1 DEF Embedded
      <4> QED
        BY <2>4, <2>5, <4>1, EmbeddedAgain
    <3>3. P(a)
      BY <1>1, <3>1
    <3> HIDE DEF a
    <3>4. /\ stacks[d + Len(left)] = Append(st, a)
          /\ \A k \in 1 .. Len(left) : PopsChildren(ops, stacks[d + k - 1], whole[d + k])
      BY <2>8, <3>2, <3>3 DEF left, a
    <3>5. stacks[last - 1] = Append(st, a)
      BY <3>1, <3>4
    <3>6. stacks[last] = Append(st, i)
      BY <2>6, <2>8, <2>10, <3>1, <3>5, Popped
    <3>7. PopsChildren(ops, stacks[last - 1], i)
      <4>1. popChildren(stacks[last - 1], ops[i]) = <<Last(stacks[last - 1])>>
        BY <2>10 DEF popChildren
      <4>2. Last(Append(st, a)) = a
        BY <2>8, <3>1, Popped DEF Last
      <4> QED
        BY <2>10, <3>5, <4>1, <4>2 DEF PopsChildren, a, Left
    <3>8. ASSUME NEW k \in 1 .. Len(order) PROVE PopsChildren(ops, stacks[d + k - 1], whole[d + k])
      <4>1. CASE k \in 1 .. Len(left)
        BY <3>4, <4>1
      <4>2. CASE k \notin 1 .. Len(left)
        <5>1. k = Len(order) /\ d + k - 1 = last - 1 /\ d + k = last
          BY <2>5, <3>1, <4>2
        <5> QED
          BY <2>5, <3>7, <5>1
      <4> QED
        BY <4>1, <4>2
    <3> QED
      BY <3>6, <3>8
  <2>11. CASE arity(ops[i]) = 2
    <3> DEFINE a == Left(ops, i)
    <3> DEFINE b == Right(ops, i)
    <3> DEFINE e == d + Len(left)
    <3>1. /\ Len(order) = Len(left) + Len(right) + 1 /\ Len(left) \in Nat /\ Len(right) \in Nat
          /\ last - 1 = e + Len(right) /\ e \in Nat
          /\ a \in 1 .. i - 1 /\ a \in Nat /\ a \in 1 .. Len(ops)
          /\ b \in 1 .. i - 1 /\ b \in Nat /\ b \in 1 .. Len(ops)
      <4>1. Len(order) = Len(left) + Len(right) + 1
        BY <2>1, <2>11
      <4>2. /\ Len(left) \in Nat /\ Len(right) \in Nat /\ i \in Nat
            /\ a \in 1 .. i - 1 /\ a \in 1 .. Len(ops)
            /\ b \in 1 .. i - 1 /\ b \in 1 .. Len(ops)
        BY <2>2, <2>3, <2>11
      <4>3. a \in Nat /\ b \in Nat
        BY <4>2
      <4> HIDE DEF a, b
      <4>4. last - 1 = e + Len(right) /\ e \in Nat
        BY <2>5, <4>1, <4>2
      <4> QED
        BY <4>1, <4>2, <4>3, <4>4
    <3>2. Embedded(left, whole, d)
      <4>1. Embedded(left, order, 0)
        BY <2>1, <2>11, <3>1 DEF Embedded
      <4> QED
        BY <2>4, <2>5, <4>1, EmbeddedAgain
    <3>3. Embedded(right, whole, e)
      <4>1. Embedded(right, order, Len(left))
        BY <2>1, <2>11, <3>1 DEF Embedded
      <4> QED
        BY <2>4, <2>5, <4>1, EmbeddedAgain
    <3>4. P(a) /\ P(b)
      BY <1>1, <3>1
    <3> HIDE DEF a, b
    <3>5. /\ stacks[e] = Append(st, a)
          /\ \A k \in 1 .. Len(left) : PopsChildren(ops, stacks[d + k - 1], whole[d + k])
      BY <2>8, <3>2, <3>4 DEF left, a
    <3> HIDE DEF e
    <3>6. stacks[e] \in Seq(Nat)
      BY <2>8, <3>1, <3>5, Popped
    <3>7. /\ stacks[e + Len(right)] = Append(stacks[e], b)
          /\ \A k \in 1 .. Len(right) : PopsChildren(ops, stacks[e + k - 1], whole[e + k])
      BY <3>3, <3>4, <3>6 DEF right, b
    <3>8. stacks[last - 1] = Append(Append(st, a), b)
      <4>1. last - 1 = e + Len(right)
        BY <3>1
      <4>2. stacks[e] = Append(st, a)
        BY <3>5
      <4>3. stacks[e + Len(right)] = Append(stacks[e], b)
        BY <3>7
      <4> QED
        BY <4>1, <4>2, <4>3, Zenon
    <3>9. stacks[last] = Append(st, i)
      <4>1. SubSeq(Append(Append(st, a), b), 1, Len(Append(Append(st, a), b)) - 2) = st
        BY <2>8, <3>1, Popped
      <4> QED
        BY <2>6, <2>11, <3>8, <4>1, Zenon
    <3>10. PopsChildren(ops, stacks[last - 1], i)
      <4> DEFINE full == Append(Append(st, a), b)
      <4>1. popChildren(full, ops[i]) = <<full[Len(full) - 1], full[Len(full)]>>
        BY <2>11 DEF popChildren, popLeftAndRight
      <4>2. Len(full) = Len(st) + 2 /\ Len(st) \in Nat /\ full[Len(st) + 1] = a /\ full[Len(st) + 2] = b
        BY <2>8, <3>1, Popped
      <4> HIDE DEF full
      <4>3. Len(full) - 1 = Len(st) + 1
        BY <4>2
      <4>4. popChildren(full, ops[i]) = <<a, b>>
        BY <4>1, <4>2, <4>3
      <4>5. full = stacks[last - 1]
        BY <3>8 DEF full
      <4>6. 1 .. arity(ops[i]) = {1, 2}
        BY <2>11
      <4> QED
        BY <4>4, <4>5, <4>6 DEF PopsChildren, a, b, Left, Right
    <3>11. ASSUME NEW k \in 1 .. Len(order) PROVE PopsChildren(ops, stacks[d + k - 1], whole[d + k])
      <4>1. CASE k \in 1 .. Len(left)
        BY <3>5, <4>1
      <4>2. CASE k = Len(order)
        <5>1. d + k - 1 = last - 1 /\ d + k = last
          BY <2>5, <4>2
        <5> QED
          BY <2>5, <3>10, <5>1
      <4>3. CASE k \notin 1 .. Len(left) /\ k # Len(order)
        <5>0. /\ Len(order) = Len(left) + Len(right) + 1 /\ Len(left) \in Nat /\ Len(right) \in Nat
              /\ d \in Nat
          BY <2>5, <3>1
        <5>1. k - Len(left) \in 1 .. Len(right) /\ e + (k - Len(left)) = d + k
              /\ e + (k - Len(left)) - 1 = d + k - 1
          <6>1. k \in 1 .. Len(left) + Len(right) + 1
            BY <5>0
          <6> DEFINE n == Len(left)
          <6> DEFINE m == Len(right)
          <6>2. k \in 1 .. n + m + 1 /\ n \in Nat /\ m \in Nat /\ k \notin 1 .. n /\ k # n + m + 1
            BY <5>0, <4>3, <6>1
          <6> HIDE DEF n, m
          <6>3. k - n \in 1 .. m /\ (d + n) + (k - n) = d + k /\ (d + n) + (k - n) - 1 = d + k - 1
            BY <5>0, <6>2
          <6> QED
            BY <6>3 DEF n, m, e
        <5>2. PopsChildren(ops, stacks[e + (k - Len(left)) - 1], whole[e + (k - Len(left))])
          BY <3>7, <5>1
        <5> QED
          BY <5>1, <5>2
      <4> QED
        BY <4>1, <4>2, <4>3
    <3> QED
      BY <3>9, <3>11
  <2> QED
    BY <2>2, <2>9, <2>10, <2>11
<1>2. \A i \in 1 .. Len(ops) : i \in Good
  <2> HIDE DEF Good
  <2> QED
    BY <1>0, <1>1, UpwardInduction
<1> QED
  BY <1>2

\* What an operator below the root of a tree is, and its parent.
LEMMA BelowRoot ==
    ASSUME NEW ops, Plan(ops), NEW r \in 1 .. Len(ops), NEW j \in Tree(ops, r), j # r
    PROVE  /\ ops[j].parent \in Tree(ops, r) /\ ops[j].parent # 0
           /\ ops[j].kind \in Streaming \cup {"GroupBy"}
           /\ ops[j].kind = "GroupBy" => ops[ops[j].parent].kind = "Result"
           /\ \E k \in 1 .. arity(ops[ops[j].parent]) : ops[ops[j].parent].children[k] = j
<1>0. Forest(ops) /\ Tree(ops, r) \subseteq 1 .. Len(ops)
  BY TreeParts DEF Plan
<1>1. ops[j].parent \in Tree(ops, r)
  BY <1>0, TreeClosed
<1>2. ops[j].parent \in 1 .. Len(ops) /\ ops[j].parent # 0
  BY <1>0, <1>1
<1>3. PICK k \in 1 .. arity(ops[ops[j].parent]) : ops[ops[j].parent].children[k] = j
  BY <1>0, <1>2 DEF Forest
<1>4. ops[j].kind \in Streaming \/ (ops[ops[j].parent].kind = "Result" /\ ops[j].kind = "GroupBy")
  <2>1. \A i \in 1 .. Len(ops) : \A c \in 1 .. arity(ops[i]) :
          \/ ops[ops[i].children[c]].kind \in Streaming
          \/ ops[i].kind = "Result" /\ ops[ops[i].children[c]].kind = "GroupBy"
    BY DEF Plan
  <2> DEFINE p == ops[j].parent
  <2>2. p \in 1 .. Len(ops) /\ k \in 1 .. arity(ops[p]) /\ ops[p].children[k] = j
    BY <1>2, <1>3
  <2> HIDE DEF p
  <2>3. \/ ops[ops[p].children[k]].kind \in Streaming
        \/ ops[p].kind = "Result" /\ ops[ops[p].children[k]].kind = "GroupBy"
    BY <2>1, <2>2, ZenonT(60)
  <2>4. ops[j].kind \in Streaming \/ (ops[p].kind = "Result" /\ ops[j].kind = "GroupBy")
    BY <2>2, <2>3
  <2> QED
    BY <2>4 DEF p
<1>5. "GroupBy" \notin Streaming
  BY DEF Streaming
<1> QED
  BY <1>1, <1>2, <1>3, <1>4, <1>5

\* Only an Insert has no scan below it.
LEMMA HasScan ==
    ASSUME NEW ops, Plan(ops), NEW r \in 1 .. Len(ops), ops[r].kind # "Insert"
    PROVE  \E j \in Tree(ops, r) : ops[j].kind = "TableScan"
<1> DEFINE Good == {i \in 1 .. Len(ops) : ops[i].kind # "Insert" => \E j \in Tree(ops, i) : ops[j].kind = "TableScan"}
<1>0. Forest(ops) /\ Len(ops) \in Nat
  BY DEF Plan, Forest
<1>1. ASSUME NEW i \in 1 .. Len(ops), \A j \in 1 .. i - 1 : j \in Good, ops[i].kind # "Insert"
      PROVE  \E j \in Tree(ops, i) : ops[j].kind = "TableScan"
  <2>1. arity(ops[i]) = ArityOf(ops[i].kind) /\ i \in Tree(ops, i)
    BY <1>0, TreeParts DEF Forest
  <2>2. CASE ops[i].kind = "TableScan"
    BY <2>1, <2>2
  <2>3. CASE ops[i].kind # "TableScan"
    <3>1. arity(ops[i]) \in {1, 2}
      BY <1>1, <2>1, <2>3 DEF ArityOf
    <3>2. Left(ops, i) \in 1 .. i - 1 /\ Left(ops, i) \in 1 .. Len(ops)
      BY <1>0, <3>1, Arities
    <3>3. ops[Left(ops, i)].kind # "Insert"
      <4>1. 1 \in 1 .. arity(ops[i])
        BY <3>1
      <4>2. \/ ops[ops[i].children[1]].kind \in Streaming
            \/ ops[i].kind = "Result" /\ ops[ops[i].children[1]].kind = "GroupBy"
        BY <4>1 DEF Plan
      <4> QED
        BY <4>2 DEF Left, Streaming
    <3>4. \E j \in Tree(ops, Left(ops, i)) : ops[j].kind = "TableScan"
      BY <1>1, <3>2, <3>3
    <3>5. Tree(ops, Left(ops, i)) \subseteq Tree(ops, i)
      BY <1>0, <3>1, TreeParts
    <3> QED
      BY <3>4, <3>5
  <2> QED
    BY <2>2, <2>3
<1>2. \A i \in 1 .. Len(ops) : i \in Good
  <2>1. \A i \in 1 .. Len(ops) : (\A j \in 1 .. i - 1 : j \in Good) => i \in Good
    BY <1>1
  <2> HIDE DEF Good
  <2> QED
    BY <1>0, <2>1, UpwardInduction
<1> QED
  BY <1>2

\* The states traverse goes through, one for every operator it visits.
LEMMA TraverseRun ==
    ASSUME NEW q, NEW i, NEW calls, calls = postOrder(q.ops, i), Len(calls) \in Nat
    PROVE  \E after : /\ after[0] = [q |-> q, stack |-> <<>>, nodes |-> <<>>]
                      /\ \A n \in 1 .. Len(calls) : after[n] = visit(after[n - 1], calls[n])
                      /\ traverse(q, i) = after[Len(calls)]
<1> DEFINE Step(f, n) == IF n = 0 THEN [q |-> q, stack |-> <<>>, nodes |-> <<>>] ELSE visit(f[n - 1], calls[n])
<1> DEFINE Defines(f) == f = [n \in 0 .. Len(calls) |-> Step(f, n)]
<1> DEFINE Partial(m, g) == g = [n \in 0 .. m |-> Step(g, n)]
<1> DEFINE Good == {m \in Nat : \E g : Partial(m, g)}
<1>1. ASSUME NEW f, NEW g, NEW n \in Nat, n # 0 => f[n - 1] = g[n - 1]
      PROVE  Step(f, n) = Step(g, n)
  BY <1>1
<1>2. 0 \in Good
  <2> DEFINE g == [n \in 0 .. 0 |-> Step(<<>>, n)]
  <2>1. \A n \in 0 .. 0 : Step(g, n) = Step(<<>>, n)
    OBVIOUS
  <2> HIDE DEF Step
  <2>2. Partial(0, g)
    BY <2>1
  <2> QED
    BY <2>2
<1> HIDE DEF Step
<1>3. ASSUME NEW m \in Nat, m \in Good PROVE m + 1 \in Good
  <2>1. PICK g : Partial(m, g)
    BY <1>3
  <2> DEFINE h == [n \in 0 .. m + 1 |-> IF n = m + 1 THEN Step(g, n) ELSE g[n]]
  <2>2. \A n \in 0 .. m : h[n] = g[n] /\ g[n] = Step(g, n)
    BY <2>1
  <2>3. ASSUME NEW n \in 0 .. m + 1 PROVE h[n] = Step(h, n)
    <3>1. h[n] = Step(g, n)
      <4>1. CASE n = m + 1
        BY <4>1
      <4>2. CASE n # m + 1
        <5>1. n \in 0 .. m
          BY <4>2
        <5> HIDE DEF h
        <5> QED
          BY <5>1, <2>2
      <4> QED
        BY <4>1, <4>2
    <3> HIDE DEF h
    <3>2. n # 0 => h[n - 1] = g[n - 1]
      BY <2>2
    <3> QED
      BY <3>1, <3>2, <1>1
  <2>4. h = [n \in 0 .. m + 1 |-> h[n]]
    OBVIOUS
  <2>5. Partial(m + 1, h)
    <3> HIDE DEF h
    <3> QED
      BY <2>3, <2>4
  <2> HIDE DEF Partial
  <2> QED
    BY <2>5
<1>4. Len(calls) \in Good
  <2> HIDE DEF Good
  <2> QED
    BY <1>2, <1>3, NatSetInduction
<1>5. PICK f : Defines(f)
  BY <1>4
<1> DEFINE after == CHOOSE g : Defines(g)
<1>6. Defines(after)
  <2> HIDE DEF Defines
  <2> QED
    BY <1>5
<1>7. traverse(q, i) = after[Len(calls)]
  BY Zenon DEF traverse, Step
<1> HIDE DEF after
<1>8. \A n \in 0 .. Len(calls) : after[n] = Step(after, n)
  BY <1>6
<1> HIDE DEF Defines
<1>9. after[0] = [q |-> q, stack |-> <<>>, nodes |-> <<>>]
  BY <1>8 DEF Step
<1>10. ASSUME NEW n \in 1 .. Len(calls) PROVE after[n] = visit(after[n - 1], calls[n])
  <2>1. n \in 0 .. Len(calls) /\ n # 0
    OBVIOUS
  <2> QED
    BY <2>1, <1>8 DEF Step
<1> QED
  BY <1>7, <1>9, <1>10

\* The root of a statement is visited last, and once.
LEMMA RootLast ==
    ASSUME NEW ops, Plan(ops), NEW r \in 1 .. Len(ops), ops[r].kind \in Statements,
           NEW n \in 1 .. Len(postOrder(ops, r)), postOrder(ops, r)[n] = r
    PROVE  n = Len(postOrder(ops, r))
<1> DEFINE order == postOrder(ops, r)
<1> DEFINE left == postOrder(ops, Left(ops, r))
<1>0. Forest(ops) /\ arity(ops[r]) \in {0, 1}
  <2>1. Forest(ops) /\ arity(ops[r]) = ArityOf(ops[r].kind)
    BY DEF Plan, Forest
  <2> QED
    BY <2>1 DEF ArityOf, Statements
<1>1. /\ Len(order) \in Nat \ {0}
      /\ arity(ops[r]) = 0 => Len(order) = 1
      /\ arity(ops[r]) = 1 => /\ Len(order) = Len(left) + 1
                              /\ \A k \in 1 .. Len(left) : order[k] = left[k]
  BY <1>0, PostOrderParts
<1>2. CASE arity(ops[r]) = 0
  <2>1. n \in 1 .. Len(order)
    OBVIOUS
  <2> HIDE DEF order
  <2>2. Len(order) = 1
    BY <1>1, <1>2
  <2>3. n = Len(order)
    BY <2>1, <2>2
  <2> QED
    BY <2>3 DEF order
<1>3. CASE arity(ops[r]) = 1
  <2>1. Left(ops, r) \in 1 .. r - 1 /\ Left(ops, r) \in 1 .. Len(ops) /\ r \in Nat
    BY <1>0, <1>3, Arities
  <2>2. left \in Seq(1 .. Left(ops, r))
    BY <1>0, <2>1, PostOrderParts
  <2>3. Len(left) \in Nat /\ \A k \in 1 .. Len(left) : left[k] \in 1 .. Left(ops, r)
    BY <2>2, SeqElements
  <2> HIDE DEF left
  <2>4. \A k \in 1 .. Len(left) : left[k] # r
    BY <2>1, <2>3
  <2>5. n \in 1 .. Len(order) /\ order[n] = r
    OBVIOUS
  <2> HIDE DEF order
  <2>6. n = Len(order)
    BY <1>1, <1>3, <2>3, <2>4, <2>5
  <2> QED
    BY <2>6 DEF order
<1> QED
  BY <1>0, <1>2, <1>3

\* What the translation does to the logical tree, by kind of operator.
LEMMA VisitLogicalCases ==
    ASSUME NEW q, NEW i
    PROVE  /\ q.ops[i].kind = "TableScan" => visitLogical(q, i) = getRequired(q, i)
           /\ q.ops[i].kind \in {"Select", "Join", "GroupBy", "Delete", "Insert"} => visitLogical(q, i) = q
           /\ q.ops[i].kind = "Update" => visitLogical(q, i) = [q EXCEPT !.ius[i] = {}]
           /\ q.ops[i].kind = "Result" => \/ visitLogical(q, i) = getRequired(q, i)
                                          \/ visitLogical(q, i) = q
<1>1. q.ops[i].kind = "TableScan" => visitLogical(q, i) = getRequired(q, i)
  BY DEF visitLogical, visitTableScan
<1>2. q.ops[i].kind \in {"Select", "Join", "GroupBy", "Delete", "Insert"} => visitLogical(q, i) = q
  BY DEF visitLogical
<1>3. q.ops[i].kind = "Update" => visitLogical(q, i) = [q EXCEPT !.ius[i] = {}]
  BY DEF visitLogical
<1>4. q.ops[i].kind = "Result" => visitLogical(q, i) = getRequired(q, i) \/ visitLogical(q, i) = q
  BY DEF visitLogical
<1> QED
  BY <1>1, <1>2, <1>3, <1>4

\* The query after operator i of tree r is visited: its caches are filled as
\* soon as a scan is met.
LEMMA VisitLogicalStep ==
    ASSUME NEW q, Typed(q), Plan(q.ops), ScansFilled(q), CachesRight(q),
           NEW r \in 1 .. Size(q), q.ops[r].parent = 0, Fresh(q) \/ Filled(q, r), NEW i \in Tree(q.ops, r),
           q.ops[i].kind # "Update"
    PROVE  /\ Keeps(q, visitLogical(q, i))
           /\ Fresh(visitLogical(q, i)) \/ Filled(visitLogical(q, i), r)
           /\ Filled(q, r) \/ q.ops[i].kind = "TableScan" => Filled(visitLogical(q, i), r)
<1>1. Keeps(q, getRequired(q, i)) /\ Filled(getRequired(q, i), r)
  BY GetRequired
<1>2. Keeps(q, q)
  BY DEF Keeps
<1>3. q.ops[i].kind \in Streaming \cup Statements \cup {"GroupBy"}
  <2>1. Forest(q.ops) /\ Tree(q.ops, r) \subseteq 1 .. Len(q.ops)
    BY TreeParts DEF Plan, Size
  <2> QED
    BY <2>1 DEF Forest
<1>4. q.ops[i].kind = "TableScan" => visitLogical(q, i) = getRequired(q, i)
  BY VisitLogicalCases
<1>5. q.ops[i].kind # "TableScan" => visitLogical(q, i) = getRequired(q, i) \/ visitLogical(q, i) = q
  BY <1>3, VisitLogicalCases DEF Streaming, Statements
<1> QED
  BY <1>1, <1>2, <1>4, <1>5

\* A logical tree with the IUs of its root put back.
Restored(q, r, ius) == [q EXCEPT !.ius[r] = ius]

\* Only the IUs of the root are put back.
LEMMA RestoredFields ==
    ASSUME NEW q, Typed(q), NEW r \in 1 .. Size(q), NEW ius \in IUSets
    PROVE  /\ Restored(q, r, ius) \in QueryType(Size(q)) /\ Typed(Restored(q, r, ius))
           /\ Size(Restored(q, r, ius)) = Size(q)
           /\ Restored(q, r, ius).ops = q.ops /\ Restored(q, r, ius).iu_vec = q.iu_vec
           /\ Restored(q, r, ius).ius = [q.ius EXCEPT ![r] = ius]
           /\ Restored(q, r, ius).produced = q.produced
           /\ Restored(q, r, ius).producedUpToDate = q.producedUpToDate
           /\ Restored(q, r, ius).required = q.required
           /\ Restored(q, r, ius).requiredUpToDate = q.requiredUpToDate
           /\ Restored(q, r, ius).leftRequired = q.leftRequired
           /\ Restored(q, r, ius).rightRequired = q.rightRequired
<1> DEFINE t == Restored(q, r, ius)
<1> DEFINE other == [q.ius EXCEPT ![r] = ius]
<1>1. q \in QueryType(Size(q)) /\ Size(q) \in Nat
  BY DEF Typed
<1>2. other \in [1 .. Size(q) -> IUSets]
  <2>1. q.ius \in [1 .. Size(q) -> IUSets]
    BY <1>1 DEF QueryType
  <2> QED
    BY <2>1
<1>3. t = [q EXCEPT !.ius = other]
  BY DEF Restored
<1> HIDE DEF t, other
<1>4. /\ t \in QueryType(Size(q))
      /\ t.ops = q.ops /\ t.iu_vec = q.iu_vec /\ t.ius = other
      /\ t.produced = q.produced /\ t.producedUpToDate = q.producedUpToDate
      /\ t.required = q.required /\ t.requiredUpToDate = q.requiredUpToDate
      /\ t.leftRequired = q.leftRequired /\ t.rightRequired = q.rightRequired
  BY <1>1, <1>2, <1>3 DEF QueryType
<1>5. Size(t) = Size(q)
  BY <1>4 DEF Size
<1>6. Typed(t)
  BY <1>1, <1>4, <1>5 DEF Typed
<1> QED
  BY <1>4, <1>5, <1>6 DEF t, other

\* Queries with the same fields are the same.
LEMMA SameFields ==
    ASSUME NEW q, Typed(q), NEW s, Typed(s), s.ops = q.ops, s.iu_vec = q.iu_vec, s.ius = q.ius,
           s.produced = q.produced, s.producedUpToDate = q.producedUpToDate,
           s.required = q.required, s.requiredUpToDate = q.requiredUpToDate,
           s.leftRequired = q.leftRequired, s.rightRequired = q.rightRequired
    PROVE  s = q
<1>1. Size(s) = Size(q)
  BY DEF Size
<1>2. q \in QueryType(Size(q)) /\ s \in QueryType(Size(q))
  BY <1>1 DEF Typed
<1> QED
  BY <1>2 DEF QueryType

\* Clearing the IUs of the root is undone by putting them back.
LEMMA RestoreCleared ==
    ASSUME NEW q, Typed(q), NEW r \in 1 .. Size(q)
    PROVE  /\ Typed([q EXCEPT !.ius[r] = {}])
           /\ Restored([q EXCEPT !.ius[r] = {}], r, q.ius[r]) = q
           /\ Restored(q, r, q.ius[r]) = q
<1>0. {} \in IUSets /\ q.ius \in [1 .. Size(q) -> IUSets] /\ q.ius[r] \in IUSets
  <2>1. q.ius \in [1 .. Size(q) -> IUSets]
    BY DEF Typed, QueryType
  <2> QED
    BY <2>1 DEF IUSets
<1> DEFINE c == Restored(q, r, {})
<1>1. c = [q EXCEPT !.ius[r] = {}]
  BY DEF Restored
<1>2. /\ Typed(c) /\ Size(c) = Size(q)
      /\ c.ops = q.ops /\ c.iu_vec = q.iu_vec /\ c.ius = [q.ius EXCEPT ![r] = {}]
      /\ c.produced = q.produced /\ c.producedUpToDate = q.producedUpToDate
      /\ c.required = q.required /\ c.requiredUpToDate = q.requiredUpToDate
      /\ c.leftRequired = q.leftRequired /\ c.rightRequired = q.rightRequired
  <2>1. {} \in IUSets
    BY <1>0
  <2> QED
    BY <2>1, RestoredFields
<1> HIDE DEF c
<1> DEFINE d == Restored(c, r, q.ius[r])
<1>3. /\ Typed(d)
      /\ d.ops = q.ops /\ d.iu_vec = q.iu_vec /\ d.ius = [c.ius EXCEPT ![r] = q.ius[r]]
      /\ d.produced = q.produced /\ d.producedUpToDate = q.producedUpToDate
      /\ d.required = q.required /\ d.requiredUpToDate = q.requiredUpToDate
      /\ d.leftRequired = q.leftRequired /\ d.rightRequired = q.rightRequired
  <2>1. r \in 1 .. Size(c)
    BY <1>2
  <2> QED
    BY <1>0, <1>2, <2>1, RestoredFields
<1> HIDE DEF d
<1>4. d.ius = q.ius
  BY <1>0, <1>2, <1>3
<1>5. d = q
  BY <1>3, <1>4, SameFields
<1> DEFINE e == Restored(q, r, q.ius[r])
<1>6. /\ Typed(e)
      /\ e.ops = q.ops /\ e.iu_vec = q.iu_vec /\ e.ius = [q.ius EXCEPT ![r] = q.ius[r]]
      /\ e.produced = q.produced /\ e.producedUpToDate = q.producedUpToDate
      /\ e.required = q.required /\ e.requiredUpToDate = q.requiredUpToDate
      /\ e.leftRequired = q.leftRequired /\ e.rightRequired = q.rightRequired
  BY <1>0, RestoredFields
<1> HIDE DEF e
<1>7. e.ius = q.ius
  BY <1>0, <1>6
<1>8. e = q
  BY <1>6, <1>7, SameFields
<1> QED
  BY <1>1, <1>2, <1>5, <1>8 DEF c, d, e

\* The stack and the physical tree after a visit.
LEMMA VisitFields ==
    ASSUME NEW t, NEW i
    PROVE  /\ visit(t, i).q = visitLogical(t.q, i)
           /\ visit(t, i).stack = Append(SubSeq(t.stack, 1, Len(t.stack) - arity(t.q.ops[i])), i)
           /\ DOMAIN visit(t, i).nodes = DOMAIN t.nodes \cup {i}
           /\ visit(t, i).nodes[i].children = popChildren(t.stack, t.q.ops[i])
           /\ visit(t, i).nodes[i].ius = t.q.ius[i]
           /\ \A j \in DOMAIN t.nodes : j # i => visit(t, i).nodes[j] = t.nodes[j]
<1> DEFINE node == Physical(popChildren(t.stack, t.q.ops[i]), t.q.ius[i])
<1> DEFINE nodes == [j \in DOMAIN t.nodes \cup {i} |-> IF j = i THEN node ELSE t.nodes[j]]
<1> DEFINE stack == Append(SubSeq(t.stack, 1, Len(t.stack) - arity(t.q.ops[i])), i)
<1> DEFINE v == visitLogical(t.q, i)
<1>1. visit(t, i) = [q |-> v, stack |-> stack, nodes |-> nodes]
  BY Zenon DEF visit
<1>2. node.children = popChildren(t.stack, t.q.ops[i]) /\ node.ius = t.q.ius[i]
  BY DEF Physical
<1> HIDE DEF node, v, stack
<1>3. DOMAIN nodes = DOMAIN t.nodes \cup {i} /\ nodes[i] = node /\ \A j \in DOMAIN t.nodes : j # i => nodes[j] = t.nodes[j]
  OBVIOUS
<1> HIDE DEF nodes
<1>4. visit(t, i).q = v /\ visit(t, i).stack = stack /\ visit(t, i).nodes = nodes
  BY <1>1
<1> QED
  BY <1>2, <1>3, <1>4, Zenon DEF v, stack

\* The physical tree of a statement has the shape of the logical one, and the
\* IUs the logical one had.
Shaped(ops, r, nodes) ==
    /\ DOMAIN nodes = Tree(ops, r)
    /\ \A j \in Tree(ops, r) : \A k \in 1 .. arity(ops[j]) : nodes[j].children[k] = ops[j].children[k]

NodesOf(q, r, nodes) ==
    /\ Shaped(q.ops, r, nodes)
    /\ \A j \in Tree(q.ops, r) : nodes[j].ius = q.ius[j]

\* The translation fills the caches of the logical tree, and may take the IUs
\* of its root away.
LEMMA Traverse ==
    ASSUME NEW q, Typed(q), Plan(q.ops), ScansFilled(q), CachesRight(q),
           NEW r \in 1 .. Size(q), q.ops[r].parent = 0, q.ops[r].kind \in Statements,
           Fresh(q) \/ Filled(q, r)
    PROVE  /\ Typed(traverse(q, r).q)
           /\ Keeps(q, Restored(traverse(q, r).q, r, q.ius[r]))
           /\ q.ops[r].kind # "Insert" => Filled(Restored(traverse(q, r).q, r, q.ius[r]), r)
           /\ NodesOf(q, r, traverse(q, r).nodes)
           /\ Last(traverse(q, r).stack) = r
<1> DEFINE calls == postOrder(q.ops, r)
<1>0. Forest(q.ops) /\ Size(q) = Len(q.ops) /\ r \in 1 .. Len(q.ops) /\ Len(q.ops) \in Nat
  BY DEF Plan, Size, Forest
<1>1. /\ calls \in Seq(1 .. Len(q.ops))
      /\ Len(calls) \in Nat \ {0} /\ calls[Len(calls)] = r
  BY <1>0, PostOrderParts
<1>2. \A n \in 1 .. Len(calls) : calls[n] = r => n = Len(calls)
  BY <1>0, RootLast
<1>3. Tree(q.ops, r) = {calls[m] : m \in 1 .. Len(calls)} /\ Tree(q.ops, r) \subseteq 1 .. Size(q)
  <2>1. Tree(q.ops, r) \subseteq 1 .. Size(q)
    BY <1>0, TreeParts
  <2>2. Tree(q.ops, r) = {calls[m] : m \in DOMAIN calls}
    BY DEF Tree, ToSet
  <2>3. DOMAIN calls = 1 .. Len(calls)
    BY <1>1
  <2> QED
    BY <2>1, <2>2, <2>3
<1>4. PICK after : /\ after[0] = [q |-> q, stack |-> <<>>, nodes |-> <<>>]
                   /\ \A n \in 1 .. Len(calls) : after[n] = visit(after[n - 1], calls[n])
                   /\ traverse(q, r) = after[Len(calls)]
  <2>1. calls = postOrder(q.ops, r)
    OBVIOUS
  <2>2. Len(calls) \in Nat
    BY <1>1
  <2> HIDE DEF calls
  <2> QED
    BY <2>1, <2>2, TraverseRun
<1>5. calls = postOrder(q.ops, r)
  OBVIOUS
<1> HIDE DEF calls
<1> DEFINE last == Len(calls)
<1>6. last \in Nat \ {0} /\ \A n \in 1 .. last : calls[n] \in Tree(q.ops, r) /\ calls[n] \in 1 .. Size(q)
  BY <1>1, <1>3
<1> HIDE DEF last
<1> DEFINE Met(n) == \E m \in 1 .. n : q.ops[calls[m]].kind = "TableScan"
<1> DEFINE Inv(n) == /\ Keeps(q, after[n].q)
                     /\ Fresh(after[n].q) \/ Filled(after[n].q, r)
                     /\ Met(n) => Filled(after[n].q, r)
<1> DEFINE Good == {n \in Nat : n < last => Inv(n)}
<1>7. 0 \in Good
  <2>1. ~Met(0)
    OBVIOUS
  <2>2. after[0].q = q
    BY <1>4
  <2>3. Keeps(q, q)
    BY DEF Keeps
  <2>4. Inv(0)
    BY <2>1, <2>2, <2>3
  <2> HIDE DEF Inv
  <2> QED
    BY <2>4
<1>8. ASSUME NEW n \in Nat, n + 1 <= last, Inv(n), q.ops[calls[n + 1]].kind # "Update" PROVE Inv(n + 1)
  <2> DEFINE s == after[n].q
  <2> DEFINE c == calls[n + 1]
  <2>1. n + 1 \in 1 .. last /\ (n + 1) - 1 = n
    BY <1>6, <1>8
  <2>2. after[n + 1] = visit(after[n], c)
    BY <1>4, <2>1 DEF last
  <2>3. after[n + 1].q = visitLogical(s, c)
    BY <2>2, VisitFields
  <2>4. Met(n + 1) <=> Met(n) \/ q.ops[c].kind = "TableScan"
    <3>1. 1 .. n + 1 = (1 .. n) \cup {n + 1}
      OBVIOUS
    <3> QED
      BY <3>1
  <2>5. c \in Tree(q.ops, r)
    BY <1>6, <2>1
  <2>6. Keeps(q, s) /\ (Fresh(s) \/ Filled(s, r)) /\ (Met(n) => Filled(s, r))
    BY <1>8
  <2> HIDE DEF s, c, Met
  <2>7. /\ Plan(s.ops) /\ ScansFilled(s) /\ CachesRight(s) /\ Size(s) = Size(q) /\ Typed(s) /\ s.ops = q.ops
    BY <2>6, KeptFacts DEF Keeps
  <2>8. /\ Keeps(s, visitLogical(s, c))
        /\ Fresh(visitLogical(s, c)) \/ Filled(visitLogical(s, c), r)
        /\ Filled(s, r) \/ s.ops[c].kind = "TableScan" => Filled(visitLogical(s, c), r)
    <3>1. /\ r \in 1 .. Size(s) /\ s.ops[r].parent = 0 /\ c \in Tree(s.ops, r)
          /\ s.ops[c].kind # "Update"
      BY <1>8, <2>5, <2>7 DEF c
    <3> QED
      BY <2>6, <2>7, <3>1, VisitLogicalStep
  <2>9. Keeps(q, visitLogical(s, c))
    BY <2>6, <2>8, KeepsTrans
  <2> QED
    BY <2>3, <2>4, <2>6, <2>7, <2>8, <2>9
<1>9. ASSUME NEW n \in Nat, n \in Good PROVE n + 1 \in Good
  <2>1. CASE n + 1 < last
    <3>1. n + 1 \in 1 .. last /\ n + 1 # last /\ n + 1 <= last /\ n < last
      BY <1>6, <2>1
    <3>2. calls[n + 1] # r /\ calls[n + 1] \in Tree(q.ops, r)
      BY <1>2, <1>6, <3>1 DEF last
    <3>3. q.ops[calls[n + 1]].kind \in Streaming \cup {"GroupBy"}
      BY <1>0, <3>2, BelowRoot
    <3>4. Inv(n)
      BY <1>9, <3>1
    <3>5. q.ops[calls[n + 1]].kind # "Update"
      BY <3>3 DEF Streaming
    <3> HIDE DEF Inv
    <3>6. Inv(n + 1)
      BY <1>8, <3>1, <3>4, <3>5
    <3> QED
      BY <3>6
  <2>2. CASE ~(n + 1 < last)
    BY <2>2
  <2> QED
    BY <2>1, <2>2
<1>10. \A n \in Nat : n \in Good
  <2> HIDE DEF Good
  <2> QED
    BY <1>7, <1>9, NatSetInduction
<1>11. \A n \in Nat : n < last => Inv(n)
  <2> HIDE DEF Inv
  <2> QED
    BY <1>10
<1> DEFINE before == after[last - 1].q
<1> DEFINE s == Restored(after[last].q, r, q.ius[r])
<1>12. /\ last - 1 \in Nat /\ last - 1 < last /\ (last - 1) + 1 = last
       /\ calls[last] = r /\ last \in 1 .. last
  BY <1>1, <1>6 DEF last
<1>13. Keeps(q, before) /\ (Fresh(before) \/ Filled(before, r)) /\ (Met(last - 1) => Filled(before, r))
  BY <1>11, <1>12
<1>14. /\ Typed(before) /\ Size(before) = Size(q) /\ before.ops = q.ops /\ before.ius = q.ius
  BY <1>13 DEF Keeps, Size
<1>15. Typed(after[last].q) /\ Keeps(q, s) /\ (Met(last) => Filled(s, r)) /\ after[last].q.ops = q.ops
  <2>1. CASE q.ops[r].kind = "Update"
    <3>1. after[last].q = [before EXCEPT !.ius[r] = {}]
      <4>1. after[last].q = visitLogical(before, r)
        <5>1. after[last] = visit(after[last - 1], r)
          BY <1>4, <1>12 DEF last
        <5> QED
          BY <5>1, VisitFields
      <4>2. before.ops[r].kind = "Update"
        BY <1>14, <2>1
      <4> HIDE DEF before
      <4> QED
        BY <4>1, <4>2, VisitLogicalCases
    <3> HIDE DEF before
    <3>2. Typed([before EXCEPT !.ius[r] = {}]) /\ Restored([before EXCEPT !.ius[r] = {}], r, q.ius[r]) = before
      <4>1. r \in 1 .. Size(before)
        BY <1>14
      <4> QED
        BY <1>14, <4>1, RestoreCleared
    <3>3. s = before
      BY <3>1, <3>2
    <3>4. Met(last) => Met(last - 1)
      <4>1. 1 .. last = (1 .. last - 1) \cup {last}
        BY <1>12
      <4> QED
        BY <1>12, <2>1, <4>1
    <3>5. after[last].q.ops = before.ops
      <4>1. before \in QueryType(Size(before))
        BY <1>14 DEF Typed
      <4> QED
        BY <3>1, <4>1 DEF QueryType
    <3> HIDE DEF s, Met
    <3> QED
      BY <1>13, <1>14, <3>1, <3>2, <3>3, <3>4, <3>5
  <2>2. CASE q.ops[r].kind # "Update"
    <3>1. Inv(last - 1)
      BY <1>11, <1>12
    <3>2. Inv(last)
      <4>1. q.ops[calls[(last - 1) + 1]].kind # "Update" /\ (last - 1) + 1 <= last
        BY <1>12, <2>2
      <4> HIDE DEF Inv
      <4>2. Inv((last - 1) + 1)
        BY <1>8, <1>12, <3>1, <4>1
      <4> QED
        BY <1>12, <4>2
    <3> DEFINE t == after[last].q
    <3>3. Keeps(q, t) /\ (Met(last) => Filled(t, r))
      BY <3>2
    <3>4. Typed(t) /\ t.ius = q.ius /\ Size(t) = Size(q) /\ t.ops = q.ops
      BY <3>3 DEF Keeps, Size
    <3>5. s = t
      <4>1. r \in 1 .. Size(t) /\ q.ius[r] = t.ius[r]
        BY <3>4
      <4> HIDE DEF t
      <4> QED
        BY <3>4, <4>1, RestoreCleared DEF t
    <3> HIDE DEF Met, s, t
    <3> QED
      BY <3>3, <3>4, <3>5 DEF t
  <2> QED
    BY <2>1, <2>2
<1>16. q.ops[r].kind # "Insert" => Met(last)
  <2>1. ASSUME q.ops[r].kind # "Insert" PROVE \E j \in Tree(q.ops, r) : q.ops[j].kind = "TableScan"
    BY <1>0, <2>1, HasScan
  <2> QED
    BY <1>3, <2>1 DEF last
<1>17. \A n \in 0 .. last : after[n].q.ops = q.ops /\ (n < last => after[n].q.ius = q.ius)
  <2> SUFFICES ASSUME NEW n \in 0 .. last PROVE after[n].q.ops = q.ops /\ (n < last => after[n].q.ius = q.ius)
    OBVIOUS
  <2>1. CASE n < last
    <3>1. Keeps(q, after[n].q)
      BY <1>6, <1>11, <2>1
    <3> QED
      BY <3>1 DEF Keeps
  <2>2. CASE n = last
    BY <1>15, <2>2
  <2> QED
    BY <1>6, <2>1, <2>2
<1> HIDE DEF Good, Inv, Met, before, s
<1> DEFINE stacks == [n \in 0 .. last |-> after[n].stack]
<1>18. Stacked(q.ops, calls, stacks) /\ stacks[0] = <<>>
  <2>1. ASSUME NEW n \in 1 .. Len(calls)
        PROVE  stacks[n] = Append(SubSeq(stacks[n - 1], 1, Len(stacks[n - 1]) - arity(q.ops[calls[n]])), calls[n])
    <3>1. n \in 0 .. last /\ n - 1 \in 0 .. last
      BY <1>6 DEF last
    <3>2. stacks[n] = after[n].stack /\ stacks[n - 1] = after[n - 1].stack
      BY <3>1
    <3> HIDE DEF stacks
    <3>3. after[n] = visit(after[n - 1], calls[n])
      BY <1>4
    <3>4. after[n - 1].q.ops = q.ops
      BY <1>17, <3>1, SMTT(30)
    <3>5. after[n].stack = Append(SubSeq(after[n - 1].stack, 1, Len(after[n - 1].stack) - arity(after[n - 1].q.ops[calls[n]])), calls[n])
      <4> DEFINE t == after[n - 1]
      <4> DEFINE c == calls[n]
      <4>1. after[n] = visit(t, c)
        BY <3>3
      <4> HIDE DEF t, c
      <4>2. visit(t, c).stack = Append(SubSeq(t.stack, 1, Len(t.stack) - arity(t.q.ops[c])), c)
        BY VisitFields, Zenon
      <4>3. after[n].stack = Append(SubSeq(t.stack, 1, Len(t.stack) - arity(t.q.ops[c])), c)
        BY <4>1, <4>2
      <4> QED
        BY <4>3 DEF t, c
    <3> QED
      BY <3>2, <3>4, <3>5
  <2>2. stacks[0] = <<>>
    BY <1>4, <1>6
  <2> HIDE DEF stacks
  <2> QED
    BY <2>1, <2>2 DEF Stacked
<1> HIDE DEF stacks
<1>19. /\ stacks[last] = Append(<<>>, r)
       /\ \A k \in 1 .. last : PopsChildren(q.ops, stacks[k - 1], calls[k])
  <2>1. Embedded(calls, calls, 0)
    BY <1>1 DEF Embedded
  <2>2. stacks[0] \in Seq(Nat)
    BY <1>18
  <2>3. /\ stacks[0 + Len(calls)] = Append(stacks[0], r)
        /\ \A k \in 1 .. Len(calls) : PopsChildren(q.ops, stacks[0 + k - 1], calls[0 + k])
    <3>1. Embedded(postOrder(q.ops, r), calls, 0)
      BY <1>5, <2>1, Zenon
    <3>2. /\ stacks[0 + Len(postOrder(q.ops, r))] = Append(stacks[0], r)
          /\ \A k \in 1 .. Len(postOrder(q.ops, r)) : PopsChildren(q.ops, stacks[0 + k - 1], calls[0 + k])
      <4>1. \A i \in 1 .. Len(q.ops) : \A d :
              Embedded(postOrder(q.ops, i), calls, d) /\ stacks[d] \in Seq(Nat) =>
                 /\ stacks[d + Len(postOrder(q.ops, i))] = Append(stacks[d], i)
                 /\ \A k \in 1 .. Len(postOrder(q.ops, i)) : PopsChildren(q.ops, stacks[d + k - 1], calls[d + k])
        BY <1>0, <1>18, StackOrder
      <4> QED
        BY <1>0, <2>2, <3>1, <4>1, Zenon
    <3> QED
      BY <1>5, <3>2, Zenon
  <2>4. 0 + Len(calls) = last /\ \A k \in 1 .. Len(calls) : 0 + k - 1 = k - 1 /\ 0 + k = k
    BY <1>6 DEF last
  <2> QED
    BY <1>18, <2>3, <2>4 DEF last
<1>20. Last(after[last].stack) = r
  <2>1. after[last].stack = Append(<<>>, r)
    BY <1>6, <1>19 DEF stacks
  <2> QED
    BY <2>1 DEF Last
<1> DEFINE Built(n) ==
        /\ DOMAIN after[n].nodes = {calls[m] : m \in 1 .. n}
        /\ \A j \in DOMAIN after[n].nodes :
              /\ after[n].nodes[j].ius = q.ius[j]
              /\ \A k \in 1 .. arity(q.ops[j]) : after[n].nodes[j].children[k] = q.ops[j].children[k]
<1> DEFINE Fine == {n \in Nat : n <= last => Built(n)}
<1>21. 0 \in Fine
  <2>1. after[0].nodes = <<>>
    BY <1>4
  <2>2. DOMAIN after[0].nodes = {}
    BY <2>1
  <2>3. {calls[m] : m \in 1 .. 0} = {}
    OBVIOUS
  <2>4. Built(0)
    BY <2>2, <2>3
  <2> HIDE DEF Built
  <2> QED
    BY <2>4
<1>22. ASSUME NEW n \in Nat, n \in Fine PROVE n + 1 \in Fine
  <2>1. CASE n + 1 <= last
    <3> DEFINE t == after[n]
    <3> DEFINE c == calls[n + 1]
    <3>1. n + 1 \in 1 .. last /\ (n + 1) - 1 = n /\ n <= last /\ n \in 0 .. last /\ n < last
      BY <1>6, <2>1
    <3>2. Built(n)
      BY <1>22, <3>1
    <3>3. after[n + 1] = visit(t, c)
      BY <1>4, <3>1 DEF last
    <3>4. t.q.ops = q.ops /\ t.q.ius = q.ius
      BY <1>17, <3>1
    <3>5. PopsChildren(q.ops, t.stack, c)
      <4>1. PopsChildren(q.ops, stacks[(n + 1) - 1], calls[n + 1])
        BY <1>19, <3>1
      <4>2. stacks[n] = t.stack
        BY <3>1 DEF stacks
      <4> QED
        BY <3>1, <4>1, <4>2
    <3>6. {calls[m] : m \in 1 .. n + 1} = {calls[m] : m \in 1 .. n} \cup {c}
      <4>1. 1 .. n + 1 = (1 .. n) \cup {n + 1}
        OBVIOUS
      <4> QED
        BY <4>1
    <3> HIDE DEF c
    <3>7. /\ DOMAIN visit(t, c).nodes = DOMAIN t.nodes \cup {c}
          /\ visit(t, c).nodes[c].children = popChildren(t.stack, t.q.ops[c])
          /\ visit(t, c).nodes[c].ius = t.q.ius[c]
          /\ \A j \in DOMAIN t.nodes : j # c => visit(t, c).nodes[j] = t.nodes[j]
      BY VisitFields
    <3> HIDE DEF t
    <3> DEFINE u == visit(t, c)
    <3> HIDE DEF u
    <3>8. /\ DOMAIN u.nodes = DOMAIN t.nodes \cup {c}
          /\ u.nodes[c].ius = q.ius[c]
          /\ \A k \in 1 .. arity(q.ops[c]) : u.nodes[c].children[k] = q.ops[c].children[k]
          /\ \A j \in DOMAIN t.nodes : j # c => u.nodes[j] = t.nodes[j]
      BY <3>4, <3>5, <3>7 DEF u, PopsChildren
    <3>9. /\ DOMAIN t.nodes = {calls[m] : m \in 1 .. n}
          /\ \A j \in DOMAIN t.nodes :
                /\ t.nodes[j].ius = q.ius[j]
                /\ \A k \in 1 .. arity(q.ops[j]) : t.nodes[j].children[k] = q.ops[j].children[k]
      BY <3>2 DEF t
    <3>10. /\ DOMAIN u.nodes = {calls[m] : m \in 1 .. n + 1}
           /\ \A j \in DOMAIN u.nodes :
                 /\ u.nodes[j].ius = q.ius[j]
                 /\ \A k \in 1 .. arity(q.ops[j]) : u.nodes[j].children[k] = q.ops[j].children[k]
      <4>1. DOMAIN u.nodes = {calls[m] : m \in 1 .. n + 1}
        BY <3>6, <3>8, <3>9
      <4>2. ASSUME NEW j \in DOMAIN u.nodes
            PROVE  /\ u.nodes[j].ius = q.ius[j]
                   /\ \A k \in 1 .. arity(q.ops[j]) : u.nodes[j].children[k] = q.ops[j].children[k]
        <5>1. CASE j = c
          BY <3>8, <5>1
        <5>2. CASE j # c
          <6>1. j \in DOMAIN t.nodes /\ u.nodes[j] = t.nodes[j]
            BY <3>8, <5>2
          <6> QED
            BY <3>9, <6>1
        <5> QED
          BY <5>1, <5>2
      <4> QED
        BY <4>1, <4>2
    <3>11. Built(n + 1)
      BY <3>3, <3>10 DEF u
    <3> HIDE DEF Built
    <3> QED
      BY <3>11
  <2>2. CASE ~(n + 1 <= last)
    BY <2>2
  <2> QED
    BY <2>1, <2>2
<1>23. \A n \in Nat : n \in Fine
  <2> HIDE DEF Fine
  <2> QED
    BY <1>21, <1>22, NatSetInduction
<1>24. Built(last)
  <2>1. last \in Fine /\ last <= last
    <3> HIDE DEF Fine
    <3> QED
      BY <1>6, <1>23
  <2> HIDE DEF Built
  <2> QED
    BY <2>1
<1>25. NodesOf(q, r, after[last].nodes)
  <2>1. /\ DOMAIN after[last].nodes = {calls[m] : m \in 1 .. last}
        /\ \A j \in DOMAIN after[last].nodes :
              /\ after[last].nodes[j].ius = q.ius[j]
              /\ \A k \in 1 .. arity(q.ops[j]) : after[last].nodes[j].children[k] = q.ops[j].children[k]
    BY <1>24
  <2>2. Tree(q.ops, r) = {calls[m] : m \in 1 .. last}
    BY <1>3 DEF last
  <2> QED
    BY <2>1, <2>2 DEF NodesOf, Shaped
<1>26. traverse(q, r) = after[last]
  BY <1>4 DEF last
<1> HIDE DEF Built, Fine, last
<1> QED
  BY <1>15, <1>16, <1>20, <1>25, <1>26 DEF s

-----------------------------------------------------------------------------
(* What the filled caches say *)

\* The IUs an operator names come from below it; those of a join from both
\* sides, which have none in common.
Scoped(q) ==
    \A i \in 1 .. Size(q) :
       /\ q.ops[i].kind \in {"TableScan", "Insert"} => q.ius[i] = {}
       /\ q.ops[i].kind \in {"Select", "GroupBy", "Result", "Update", "Delete"} =>
             q.ius[i] \subseteq Offered(q, Left(q.ops, i))
       /\ q.ops[i].kind = "Join" =>
             /\ q.ius[i] = UNION {{p[1], p[2]} : p \in ToSet(q.ops[i].pairs)}
             /\ \A p \in ToSet(q.ops[i].pairs) :
                   \/ p[1] \in Offered(q, Left(q.ops, i)) /\ p[2] \in Offered(q, Right(q.ops, i))
                   \/ p[1] \in Offered(q, Right(q.ops, i)) /\ p[2] \in Offered(q, Left(q.ops, i))
             /\ Offered(q, Left(q.ops, i)) \cap Offered(q, Right(q.ops, i)) = {}

\* No two operators create the same IU.
Apart(q) ==
    /\ \A i, j \in 1 .. Size(q) :
          q.ops[i].kind = "TableScan" /\ q.ops[j].kind = "TableScan" /\ i # j => q.produced[i] \cap q.produced[j] = {}
    /\ \A i, j \in 1 .. Size(q) :
          q.ops[i].kind = "GroupBy" /\ q.ops[j].kind = "TableScan" => Aggregated(q.ops[i]) \cap q.produced[j] = {}

\* A statement whose required IUs are computed.
Ready(q, r) ==
    /\ Typed(q) /\ Plan(q.ops) /\ Scoped(q) /\ Apart(q) /\ CachesRight(q) /\ Filled(q, r)
    /\ r \in 1 .. Size(q) /\ q.ops[r].parent = 0 /\ q.ops[r].kind \in Statements

\* An operator that hands on what it is passed names only what it offers.
LEMMA NamedIsOffered ==
    ASSUME NEW q, Typed(q), Plan(q.ops), Scoped(q), NEW i \in 1 .. Size(q), q.ops[i].kind \in Streaming
    PROVE  q.ius[i] \subseteq Offered(q, i)
<1>1. CASE q.ops[i].kind = "TableScan"
  BY <1>1 DEF Scoped
<1>2. CASE q.ops[i].kind = "Select"
  BY <1>2, OfferedParts DEF Scoped
<1>3. CASE q.ops[i].kind = "Join"
  <2>1. Offered(q, i) = Offered(q, Left(q.ops, i)) \cup Offered(q, Right(q.ops, i))
    BY <1>3, OfferedParts
  <2>2. /\ q.ius[i] = UNION {{p[1], p[2]} : p \in ToSet(q.ops[i].pairs)}
        /\ \A p \in ToSet(q.ops[i].pairs) :
              \/ p[1] \in Offered(q, Left(q.ops, i)) /\ p[2] \in Offered(q, Right(q.ops, i))
              \/ p[1] \in Offered(q, Right(q.ops, i)) /\ p[2] \in Offered(q, Left(q.ops, i))
    BY <1>3 DEF Scoped
  <2>3. \A p \in ToSet(q.ops[i].pairs) : p[1] \in Offered(q, i) /\ p[2] \in Offered(q, i)
    BY <2>1, <2>2
  <2> QED
    BY <2>2, <2>3
<1> QED
  BY <1>1, <1>2, <1>3 DEF Streaming

\* How the required IUs of an operator and of its children are related.
LEMMA RequiredParts ==
    ASSUME NEW q, NEW r, Ready(q, r), NEW j \in Tree(q.ops, r)
    PROVE  /\ j \in 1 .. Size(q) /\ j \in 1 .. Len(q.ops)
           /\ q.ius[j] \subseteq q.required[j]
           /\ q.ops[j].kind \notin Streaming => q.required[j] = q.ius[j]
           /\ \A k \in 1 .. arity(q.ops[j]) :
                 LET c == q.ops[j].children[k]
                 IN  /\ c \in Tree(q.ops, r) /\ c \in 1 .. Size(q) /\ c \in 1 .. j - 1 /\ q.ops[c].parent = j
                     /\ q.ops[c].kind \in Streaming =>
                           /\ q.required[j] \cap Offered(q, c) \subseteq q.required[c]
                           /\ q.required[c] \subseteq q.ius[c] \cup q.required[j]
                           /\ arity(q.ops[j]) = 2 => q.required[c] \subseteq q.ius[c] \cup Offered(q, c)
<1>0. /\ Forest(q.ops) /\ r \in 1 .. Len(q.ops) /\ Size(q) = Len(q.ops) /\ Filled(q, r)
      /\ q.ops[r].parent = 0 /\ q.ops[r].kind \in Statements /\ Scoped(q) /\ Plan(q.ops)
      /\ Len(q.ops) \in Nat
  BY DEF Ready, Plan, Size, Forest
<1>1. j \in 1 .. Size(q) /\ j \in 1 .. Len(q.ops)
  BY <1>0, TreeParts
<1>2. q.required[j] = ShouldRequire(q, j)
  BY <1>0 DEF Filled
<1>3. q.ops[j].kind \notin Streaming => q.required[j] = q.ius[j]
  BY <1>0, <1>1, <1>2 DEF ShouldRequire, Scoped
<1>4. q.ius[j] \subseteq q.required[j]
  BY <1>2, <1>3 DEF ShouldRequire
<1>5. ASSUME NEW k \in 1 .. arity(q.ops[j]), NEW c, c = q.ops[j].children[k]
      PROVE  /\ c \in Tree(q.ops, r) /\ c \in 1 .. Size(q) /\ c \in 1 .. j - 1 /\ q.ops[c].parent = j
             /\ q.ops[c].kind \in Streaming =>
                   /\ q.required[j] \cap Offered(q, c) \subseteq q.required[c]
                   /\ q.required[c] \subseteq q.ius[c] \cup q.required[j]
                   /\ arity(q.ops[j]) = 2 => q.required[c] \subseteq q.ius[c] \cup Offered(q, c)
  <2>1. c \in Tree(q.ops, r)
    BY <1>0, <1>5, TreeClosed
  <2>2. c \in 1 .. j - 1 /\ q.ops[c].parent = j
    BY <1>0, <1>1, <1>5 DEF Forest
  <2>3. c \in 1 .. Size(q)
    BY <1>0, <2>1, TreeParts
  <2>4. ASSUME q.ops[c].kind \in Streaming
        PROVE  q.required[c] = q.ius[c] \cup IF arity(q.ops[j]) = 2 THEN q.required[j] \cap Offered(q, c)
                                             ELSE q.required[j]
    <3>1. q.required[c] = ShouldRequire(q, c)
      BY <1>0, <2>1 DEF Filled
    <3>2. j # 0 /\ (HasSibling(q.ops, c) <=> arity(q.ops[j]) = 2)
      BY <1>0, <1>1, <2>2 DEF HasSibling
    <3> QED
      BY <2>2, <2>4, <3>1, <3>2 DEF ShouldRequire
  <2> QED
    BY <2>1, <2>2, <2>3, <2>4
<1> QED
  BY <1>1, <1>3, <1>4, <1>5

\* Nothing is required of an operator that hands on what it is passed but what
\* is below it.
LEMMA RequiredIsOffered ==
    ASSUME NEW q, NEW r, Ready(q, r), NEW i \in Tree(q.ops, r), q.ops[i].kind \in Streaming
    PROVE  q.required[i] \subseteq Offered(q, i)
<1> DEFINE Good == {j \in 1 .. Size(q) :
                       j \in Tree(q.ops, r) /\ q.ops[j].kind \in Streaming => q.required[j] \subseteq Offered(q, j)}
<1>0. /\ Forest(q.ops) /\ r \in 1 .. Len(q.ops) /\ Size(q) = Len(q.ops)
      /\ q.ops[r].kind \in Statements /\ Scoped(q) /\ Plan(q.ops) /\ Typed(q) /\ Size(q) \in Nat
  BY DEF Ready, Plan, Size, Forest
<1>1. ASSUME NEW j \in 1 .. Size(q), \A p \in j + 1 .. Size(q) : p \in Good,
             j \in Tree(q.ops, r), q.ops[j].kind \in Streaming
      PROVE  q.required[j] \subseteq Offered(q, j)
  <2> DEFINE p == q.ops[j].parent
  <2>1. j # r
    BY <1>0, <1>1 DEF Streaming, Statements
  <2>2. p \in Tree(q.ops, r) /\ \E k \in 1 .. arity(q.ops[p]) : q.ops[p].children[k] = j
    <3>1. Plan(q.ops) /\ r \in 1 .. Len(q.ops) /\ j \in Tree(q.ops, r) /\ j # r
      BY <1>0, <1>1, <2>1
    <3> QED
      BY <3>1, BelowRoot
  <2>3. PICK k \in 1 .. arity(q.ops[p]) : q.ops[p].children[k] = j
    BY <2>2
  <2> HIDE DEF p
  <2>4. /\ p \in 1 .. Size(q) /\ q.ops[p].children[k] \in 1 .. p - 1
        /\ q.ops[p].kind \notin Streaming => q.required[p] = q.ius[p]
        /\ q.ops[q.ops[p].children[k]].kind \in Streaming =>
              /\ q.required[q.ops[p].children[k]] \subseteq q.ius[q.ops[p].children[k]] \cup q.required[p]
              /\ arity(q.ops[p]) = 2 =>
                    q.required[q.ops[p].children[k]] \subseteq q.ius[q.ops[p].children[k]] \cup Offered(q, q.ops[p].children[k])
    BY <2>2, RequiredParts
  <2>5. /\ p \in 1 .. Size(q) /\ j \in 1 .. p - 1
        /\ q.ops[p].kind \notin Streaming => q.required[p] = q.ius[p]
        /\ q.required[j] \subseteq q.ius[j] \cup q.required[p]
        /\ arity(q.ops[p]) = 2 => q.required[j] \subseteq q.ius[j] \cup Offered(q, j)
    BY <1>1, <2>3, <2>4
  <2>6. q.ius[j] \subseteq Offered(q, j)
    BY <1>0, <1>1, NamedIsOffered
  <2>7. /\ arity(q.ops[p]) = ArityOf(q.ops[p].kind)
        /\ q.ops[p].kind \in Streaming \cup Statements \cup {"GroupBy"}
    BY <1>0, <2>5 DEF Forest
  <2>8. CASE q.ops[p].kind = "Join"
    BY <2>5, <2>6, <2>7, <2>8 DEF ArityOf
  <2>9. CASE q.ops[p].kind \in {"TableScan", "Insert"}
    <3>1. arity(q.ops[p]) = 0
      BY <2>7, <2>9 DEF ArityOf
    <3> QED
      BY <3>1, <2>3
  <2>10. ASSUME q.ops[p].kind \notin {"TableScan", "Insert", "Join"} PROVE Left(q.ops, p) = j
    <3>1. arity(q.ops[p]) = 1
      BY <2>7, <2>10 DEF ArityOf
    <3>2. k = 1
      BY <3>1
    <3> QED
      BY <2>3, <3>2 DEF Left
  <2>11. CASE q.ops[p].kind = "Select"
    <3>1. p \in Good
      BY <1>1, <2>5
    <3>2. q.required[p] \subseteq Offered(q, p)
      BY <2>2, <2>11, <3>1 DEF Streaming
    <3>3. Offered(q, p) = Offered(q, j)
      <4>1. Offered(q, p) = Offered(q, Left(q.ops, p))
        BY <1>0, <2>5, <2>11, OfferedParts
      <4> QED
        BY <2>10, <2>11, <4>1
    <3> QED
      BY <2>5, <2>6, <3>2, <3>3
  <2>12. CASE q.ops[p].kind \in {"GroupBy", "Result", "Update", "Delete"}
    <3>1. q.required[p] = q.ius[p]
      BY <2>5, <2>12 DEF Streaming
    <3>2. q.ius[p] \subseteq Offered(q, Left(q.ops, p))
      BY <1>0, <2>5, <2>12 DEF Scoped
    <3>3. Left(q.ops, p) = j
      BY <2>10, <2>12
    <3> QED
      BY <2>5, <2>6, <3>1, <3>2, <3>3
  <2> QED
    BY <2>7, <2>8, <2>9, <2>11, <2>12 DEF Streaming, Statements
<1>2. \A j \in 1 .. Size(q) : j \in Good
  <2>1. \A j \in 1 .. Size(q) : (\A p \in j + 1 .. Size(q) : p \in Good) => j \in Good
    BY <1>1
  <2> HIDE DEF Good
  <2> QED
    BY <1>0, <2>1, DownwardInduction
<1> QED
  BY <1>2, RequiredParts

\* Whatever is required is named by some operator.
LEMMA RequiredIsNamed ==
    ASSUME NEW q, NEW r, Ready(q, r), NEW i \in Tree(q.ops, r)
    PROVE  q.required[i] \subseteq UNION {q.ius[j] : j \in Tree(q.ops, r)}
<1> DEFINE named == UNION {q.ius[j] : j \in Tree(q.ops, r)}
<1> DEFINE Good == {j \in 1 .. Size(q) : j \in Tree(q.ops, r) => q.required[j] \subseteq named}
<1>0. /\ Forest(q.ops) /\ r \in 1 .. Len(q.ops) /\ Size(q) = Len(q.ops)
      /\ q.ops[r].kind \in Statements /\ Plan(q.ops) /\ Size(q) \in Nat
  BY DEF Ready, Plan, Size, Forest
<1>1. \A j \in Tree(q.ops, r) : q.ius[j] \subseteq named
  OBVIOUS
<1> HIDE DEF named
<1>2. ASSUME NEW j \in 1 .. Size(q), \A p \in j + 1 .. Size(q) : p \in Good, j \in Tree(q.ops, r)
      PROVE  q.required[j] \subseteq named
  <2>1. CASE q.ops[j].kind \notin Streaming
    <3>1. q.required[j] = q.ius[j]
      BY <1>2, <2>1, RequiredParts
    <3> QED
      BY <1>1, <1>2, <3>1
  <2>2. CASE q.ops[j].kind \in Streaming
    <3> DEFINE p == q.ops[j].parent
    <3>1. j # r
      BY <1>0, <2>2 DEF Streaming, Statements
    <3>2. p \in Tree(q.ops, r) /\ \E k \in 1 .. arity(q.ops[p]) : q.ops[p].children[k] = j
      <4>1. Plan(q.ops) /\ r \in 1 .. Len(q.ops) /\ j \in Tree(q.ops, r) /\ j # r
        BY <1>0, <1>2, <3>1
      <4> QED
        BY <4>1, BelowRoot
    <3>3. PICK k \in 1 .. arity(q.ops[p]) : q.ops[p].children[k] = j
      BY <3>2
    <3> HIDE DEF p
    <3>4. /\ p \in 1 .. Size(q) /\ q.ops[p].children[k] \in 1 .. p - 1
          /\ q.ops[q.ops[p].children[k]].kind \in Streaming =>
                q.required[q.ops[p].children[k]] \subseteq q.ius[q.ops[p].children[k]] \cup q.required[p]
      BY <3>2, RequiredParts
    <3>5. p \in 1 .. Size(q) /\ j \in 1 .. p - 1 /\ q.required[j] \subseteq q.ius[j] \cup q.required[p]
      BY <2>2, <3>3, <3>4
    <3>6. p \in Good
      BY <1>2, <3>5
    <3>7. q.required[p] \subseteq named
      BY <3>2, <3>6
    <3> QED
      BY <1>1, <1>2, <3>5, <3>7
  <2> QED
    BY <2>1, <2>2
<1>3. \A j \in 1 .. Size(q) : j \in Good
  <2>1. \A j \in 1 .. Size(q) : (\A p \in j + 1 .. Size(q) : p \in Good) => j \in Good
    BY <1>2
  <2> HIDE DEF Good
  <2> QED
    BY <1>0, <2>1, DownwardInduction
<1>4. i \in Good
  BY <1>3, RequiredParts
<1> QED
  BY <1>4 DEF named

\* What is required of an operator is required of the scan that has it.
LEMMA RequiredReachesScans ==
    ASSUME NEW q, NEW r, Ready(q, r), NEW i \in Tree(q.ops, r), q.ops[i].kind \in Streaming,
           NEW scan \in Scans(q, i), NEW iu \in q.produced[scan], iu \in q.required[i]
    PROVE  iu \in q.required[scan]
<1> DEFINE P(j) == scan \in Scans(q, j) /\ iu \in q.required[j] => iu \in q.required[scan]
<1> DEFINE Good == {j \in 1 .. Size(q) : j \in Tree(q.ops, r) /\ q.ops[j].kind \in Streaming => P(j)}
<1>0. /\ Forest(q.ops) /\ r \in 1 .. Len(q.ops) /\ Size(q) = Len(q.ops)
      /\ q.ops[r].kind \in Statements /\ Plan(q.ops) /\ Size(q) \in Nat
  BY DEF Ready, Plan, Size, Forest
<1>1. ASSUME NEW j \in 1 .. Size(q), \A c \in 1 .. j - 1 : c \in Good, j \in Tree(q.ops, r),
             q.ops[j].kind \in Streaming, scan \in Scans(q, j), iu \in q.required[j]
      PROVE  iu \in q.required[scan]
  <2>1. arity(q.ops[j]) = ArityOf(q.ops[j].kind) /\ j \in 1 .. Len(q.ops)
    BY <1>0 DEF Forest
  <2>2. CASE q.ops[j].kind = "TableScan"
    <3>1. Tree(q.ops, j) = {j}
      BY <1>0, <2>1, <2>2, TreeParts DEF ArityOf
    <3>2. scan = j
      BY <1>1, <3>1 DEF Scans
    <3> QED
      BY <1>1, <3>2
  <2>3. ASSUME NEW k \in 1 .. arity(q.ops[j]), NEW c, c = q.ops[j].children[k], scan \in Scans(q, c)
        PROVE  iu \in q.required[scan]
    <3>1. q.ops[c].kind \in Streaming
      <4>1. \/ q.ops[q.ops[j].children[k]].kind \in Streaming
            \/ q.ops[j].kind = "Result" /\ q.ops[q.ops[j].children[k]].kind = "GroupBy"
        BY <1>0, <2>1 DEF Plan
      <4>2. q.ops[j].kind # "Result"
        BY <1>1 DEF Streaming
      <4> QED
        BY <2>3, <4>1, <4>2
    <3>2. /\ c \in Tree(q.ops, r) /\ c \in 1 .. Size(q) /\ c \in 1 .. j - 1
          /\ q.required[j] \cap Offered(q, c) \subseteq q.required[c]
      <4>1. LET d == q.ops[j].children[k]
            IN  /\ d \in Tree(q.ops, r) /\ d \in 1 .. Size(q) /\ d \in 1 .. j - 1
                /\ q.ops[d].kind \in Streaming => q.required[j] \cap Offered(q, d) \subseteq q.required[d]
        BY <1>1, RequiredParts
      <4> QED
        BY <2>3, <3>1, <4>1
    <3>3. iu \in Offered(q, c)
      BY <2>3, <3>1 DEF Offered
    <3>4. c \in Good
      BY <1>1, <3>2
    <3> QED
      BY <1>1, <2>3, <3>1, <3>2, <3>3, <3>4
  <2>4. CASE q.ops[j].kind = "Select"
    <3>1. arity(q.ops[j]) = 1
      BY <2>1, <2>4 DEF ArityOf
    <3>2. Tree(q.ops, j) = Tree(q.ops, Left(q.ops, j)) \cup {j}
      BY <1>0, <2>1, <3>1, TreeParts
    <3>3. scan \in Scans(q, Left(q.ops, j))
      BY <1>1, <2>4, <3>2 DEF Scans
    <3> QED
      BY <2>3, <3>1, <3>3 DEF Left
  <2>5. CASE q.ops[j].kind = "Join"
    <3>1. arity(q.ops[j]) = 2
      BY <2>1, <2>5 DEF ArityOf
    <3>2. Tree(q.ops, j) = Tree(q.ops, Left(q.ops, j)) \cup Tree(q.ops, Right(q.ops, j)) \cup {j}
      BY <1>0, <2>1, <3>1, TreeParts
    <3>3. scan \in Scans(q, Left(q.ops, j)) \/ scan \in Scans(q, Right(q.ops, j))
      BY <1>1, <2>5, <3>2 DEF Scans
    <3> QED
      BY <2>3, <3>1, <3>3 DEF Left, Right
  <2> QED
    BY <1>1, <2>2, <2>4, <2>5 DEF Streaming
<1>2. \A j \in 1 .. Size(q) : j \in Good
  <2>1. \A j \in 1 .. Size(q) : (\A c \in 1 .. j - 1 : c \in Good) => j \in Good
    BY <1>1
  <2> HIDE DEF Good
  <2> QED
    BY <1>0, <2>1, UpwardInduction
<1>3. i \in Good
  BY <1>2, RequiredParts
<1> QED
  BY <1>3

\* A scan is required to load the columns some operator names.
LEMMA LoadedIsNamed ==
    ASSUME NEW q, NEW r, Ready(q, r), NEW scan \in Tree(q.ops, r), q.ops[scan].kind = "TableScan"
    PROVE  q.required[scan] = q.produced[scan] \cap UNION {q.ius[j] : j \in Tree(q.ops, r)}
<1>0. /\ Forest(q.ops) /\ r \in 1 .. Len(q.ops) /\ Size(q) = Len(q.ops) /\ scan \in 1 .. Size(q)
      /\ q.ops[r].kind \in Statements /\ Plan(q.ops) /\ Size(q) \in Nat /\ Typed(q) /\ Scoped(q)
  <2>1. r \in 1 .. Len(q.ops) /\ Forest(q.ops)
    BY DEF Ready, Plan, Size
  <2> QED
    BY <2>1, TreeParts DEF Ready, Plan, Size, Forest
<1>1. q.required[scan] \subseteq q.produced[scan]
  <2>1. q.ops[scan].kind \in Streaming
    BY DEF Streaming
  <2>2. q.required[scan] \subseteq Offered(q, scan)
    BY <2>1, RequiredIsOffered
  <2>3. Offered(q, scan) = q.produced[scan]
    BY <1>0, OfferedParts
  <2> QED
    BY <2>2, <2>3
<1>2. q.required[scan] \subseteq UNION {q.ius[j] : j \in Tree(q.ops, r)}
  BY RequiredIsNamed
<1>3. ASSUME NEW j \in Tree(q.ops, r), NEW iu \in q.ius[j], iu \in q.produced[scan]
      PROVE  iu \in q.required[scan]
  <2>1. /\ j \in 1 .. Size(q) /\ j \in 1 .. Len(q.ops) /\ iu \in q.required[j]
        /\ arity(q.ops[j]) = ArityOf(q.ops[j].kind)
        /\ q.ops[j].kind \in Streaming \cup Statements \cup {"GroupBy"}
    <3>1. j \in 1 .. Size(q) /\ j \in 1 .. Len(q.ops) /\ q.ius[j] \subseteq q.required[j]
      BY RequiredParts
    <3> QED
      BY <1>0, <1>3, <3>1 DEF Forest
  <2>2. ASSUME NEW c \in Tree(q.ops, r), c \in 1 .. Size(q), q.ops[c].kind \in Streaming,
               iu \in Offered(q, c), iu \in q.required[c]
        PROVE  iu \in q.required[scan]
    <3>1. PICK s \in Scans(q, c) : iu \in q.produced[s]
      BY <2>2 DEF Offered
    <3>2. s \in 1 .. Size(q) /\ q.ops[s].kind = "TableScan"
      <4>1. Tree(q.ops, c) \subseteq 1 .. Len(q.ops)
        BY <1>0, <2>2, TreeParts
      <4> QED
        BY <1>0, <4>1 DEF Scans
    <3>3. s = scan
      BY <1>0, <1>3, <3>1, <3>2 DEF Ready, Apart
    <3> QED
      BY <1>3, <2>2, <3>3, RequiredReachesScans
  <2>3. CASE q.ops[j].kind \in Streaming
    <3>1. iu \in Offered(q, j)
      BY <1>0, <1>3, <2>1, <2>3, NamedIsOffered
    <3> QED
      BY <2>1, <2>2, <2>3, <3>1
  <2>4. CASE q.ops[j].kind = "Insert"
    BY <1>0, <1>3, <2>1, <2>4 DEF Scoped
  <2>5. CASE q.ops[j].kind \in {"GroupBy", "Result", "Update", "Delete"}
    <3> DEFINE c == q.ops[j].children[1]
    <3>1. iu \in Offered(q, c)
      BY <1>0, <1>3, <2>1, <2>5 DEF Scoped, Left
    <3>2. 1 \in 1 .. arity(q.ops[j])
      BY <2>1, <2>5 DEF ArityOf
    <3>3. /\ c \in Tree(q.ops, r) /\ c \in 1 .. Size(q)
          /\ q.ops[c].kind \in Streaming => q.required[j] \cap Offered(q, c) \subseteq q.required[c]
      BY <3>2, RequiredParts
    <3>4. q.ops[c].kind \in Streaming \/ q.ops[c].kind = "GroupBy"
      BY <1>0, <2>1, <3>2 DEF Plan
    <3> HIDE DEF c
    <3>5. q.ops[c].kind # "GroupBy"
      <4>1. ASSUME q.ops[c].kind = "GroupBy" PROVE FALSE
        <5>1. iu \in Aggregated(q.ops[c])
          BY <1>0, <3>1, <3>3, <4>1, OfferedParts
        <5> QED
          BY <1>0, <1>3, <3>3, <4>1, <5>1 DEF Ready, Apart
      <4> QED
        BY <4>1
    <3> QED
      BY <2>1, <2>2, <3>1, <3>3, <3>4, <3>5
  <2> QED
    BY <2>1, <2>3, <2>4, <2>5 DEF Statements
<1> QED
  BY <1>1, <1>2, <1>3

-----------------------------------------------------------------------------
(* The values the physical operators hand on *)

\* What operator i passes to its parent, and what the two sides of a join do.
PassesOn(q, up, i) ==
    /\ q.ops[i].kind = "TableScan" => up[i] = q.required[i]
    /\ q.ops[i].kind = "Select" => up[i] = up[Left(q.ops, i)]
    /\ q.ops[i].kind = "Join" => up[i] = q.leftRequired[i] \cup q.rightRequired[i]
    /\ q.ops[i].kind = "GroupBy" => up[i] = Aggregated(q.ops[i])

\* The recursion of passed is well founded.
LEMMA PassedUnfolds ==
    ASSUME Forest(query.ops), NEW r \in 1 .. Len(query.ops), Shaped(query.ops, r, physical.nodes)
    PROVE  \A i \in Nodes : PassesOn(query, passed, i)
<1> DEFINE n0 == Len(query.ops)
<1>0. n0 \in Nat /\ Nodes \subseteq 1 .. n0 /\ Nodes = Tree(query.ops, r)
  BY TreeParts DEF Forest, Nodes, Shaped
<1>1. \A j \in Nodes : \A k \in 1 .. arity(query.ops[j]) : input(j, k) = query.ops[j].children[k]
  BY DEF Nodes, Shaped, input
<1>2. ASSUME NEW j \in Nodes, query.ops[j].kind = "Select"
      PROVE  input(j, 1) = Left(query.ops, j) /\ input(j, 1) \in Nodes /\ input(j, 1) \in 1 .. j - 1
  <2>1. arity(query.ops[j]) = 1 /\ j \in 1 .. Len(query.ops)
    BY <1>0, <1>2 DEF Forest, ArityOf
  <2>2. 1 \in 1 .. arity(query.ops[j])
    BY <2>1
  <2>3. input(j, 1) = query.ops[j].children[1]
    BY <1>1, <2>2
  <2>4. query.ops[j].children[1] \in Tree(query.ops, r)
    BY <1>0, <2>2, TreeClosed
  <2>5. query.ops[j].children[1] \in 1 .. j - 1
    BY <2>1, <2>2 DEF Forest
  <2> QED
    BY <1>0, <2>3, <2>4, <2>5 DEF Left
<1> DEFINE Defines(f) == f = [j \in Nodes |-> mapping(f, j)]
<1> DEFINE Partial(n, g) == g = [j \in {i \in Nodes : i <= n} |-> mapping(g, j)]
<1> DEFINE Good == {n \in Nat : n <= n0 => \E g : Partial(n, g)}
<1>3. ASSUME NEW f, NEW g, NEW j \in Nodes, \A c \in Nodes : c <= j - 1 => f[c] = g[c]
      PROVE  mapping(f, j) = mapping(g, j)
  <2>1. query.ops[j].kind = "Select" => f[input(j, 1)] = g[input(j, 1)]
    <3>1. ASSUME query.ops[j].kind = "Select" PROVE f[input(j, 1)] = g[input(j, 1)]
      <4>1. input(j, 1) \in Nodes /\ input(j, 1) \in 1 .. j - 1 /\ j \in Nat
        BY <1>0, <1>2, <3>1
      <4>2. input(j, 1) <= j - 1
        BY <4>1
      <4> QED
        BY <1>3, <4>1, <4>2
    <3> QED
      BY <3>1
  <2>2. CASE query.ops[j].kind = "Select"
    BY <2>1, <2>2 DEF mapping
  <2>3. CASE query.ops[j].kind # "Select"
    BY <2>3 DEF mapping
  <2> QED
    BY <2>2, <2>3
<1>4. 0 \in Good
  <2>1. {i \in Nodes : i <= 0} = {}
    BY <1>0
  <2>2. Partial(0, <<>>)
    BY <2>1
  <2> QED
    BY <2>2
<1>5. ASSUME NEW n \in Nat, n \in Good PROVE n + 1 \in Good
  <2>1. CASE n + 1 <= n0
    <3>1. n <= n0
      BY <1>0, <2>1
    <3>2. PICK g : Partial(n, g)
      BY <1>5, <3>1
    <3> DEFINE upto == {i \in Nodes : i <= n + 1}
    <3> DEFINE h == [j \in upto |-> IF j = n + 1 THEN mapping(g, j) ELSE g[j]]
    <3>3. \A j \in Nodes : j <= n => j \in upto /\ j # n + 1 /\ g[j] = mapping(g, j)
      BY <1>0, <3>2
    <3>4. \A j \in upto : h[j] = IF j = n + 1 THEN mapping(g, j) ELSE g[j]
      OBVIOUS
    <3>5. h = [j \in upto |-> h[j]]
      OBVIOUS
    <3> HIDE DEF h
    <3>6. ASSUME NEW j \in upto PROVE h[j] = mapping(h, j)
      <4>1. j \in Nodes /\ j \in Nat /\ j <= n + 1
        BY <1>0
      <4>2. h[j] = mapping(g, j)
        <5>1. CASE j = n + 1
          BY <3>4, <5>1
        <5>2. CASE j # n + 1
          <6>1. j <= n
            BY <4>1, <5>2
          <6> QED
            BY <3>3, <3>4, <4>1, <5>2, <6>1
        <5> QED
          BY <5>1, <5>2
      <4>3. \A c \in Nodes : c <= j - 1 => h[c] = g[c]
        <5>1. \A c \in Nodes : c <= j - 1 => c <= n
          BY <1>0, <4>1
        <5> QED
          BY <3>3, <3>4, <5>1
      <4> QED
        BY <1>3, <4>1, <4>2, <4>3
    <3>7. Partial(n + 1, h)
      BY <3>5, <3>6
    <3> HIDE DEF Partial
    <3> QED
      BY <3>7
  <2>2. CASE ~ (n + 1 <= n0)
    BY <2>2
  <2> QED
    BY <2>1, <2>2
<1>6. n0 \in Good
  <2> HIDE DEF Good, n0
  <2> QED
    BY <1>0, <1>4, <1>5, NatSetInduction
<1>7. PICK f : Defines(f)
  <2>1. PICK g : Partial(n0, g)
    <3> HIDE DEF n0, Partial
    <3> QED
      BY <1>0, <1>6
  <2>2. {i \in Nodes : i <= n0} = Nodes
    BY <1>0
  <2> QED
    BY <2>1, <2>2
<1> DEFINE up == CHOOSE g : Defines(g)
<1>8. Defines(up)
  <2> HIDE DEF Defines
  <2> QED
    BY <1>7
<1>9. passed = up
  BY Zenon DEF passed
<1> HIDE DEF up
<1>10. \A i \in Nodes : up[i] = mapping(up, i)
  BY <1>8
<1> HIDE DEF Defines
<1> QED
  <2> SUFFICES ASSUME NEW i \in Nodes PROVE PassesOn(query, up, i)
    BY <1>9
  <2>1. up[i] = mapping(up, i)
    BY <1>10
  <2>2. CASE query.ops[i].kind = "Select"
    BY <1>2, <2>1, <2>2 DEF mapping, PassesOn
  <2>3. CASE query.ops[i].kind # "Select"
    BY <2>1, <2>3 DEF mapping, PassesOn
  <2> QED
    BY <2>2, <2>3

\* An operator passes on all that is required of it, and nothing it does not offer.
LEMMA PassedBounds ==
    ASSUME NEW q, NEW r, Ready(q, r), NEW up, \A j \in Tree(q.ops, r) : PassesOn(q, up, j),
           NEW i \in Tree(q.ops, r), q.ops[i].kind \in Streaming
    PROVE  q.required[i] \subseteq up[i] /\ up[i] \subseteq Offered(q, i)
<1> DEFINE Bounded(j) == q.required[j] \subseteq up[j] /\ up[j] \subseteq Offered(q, j)
<1> DEFINE Good == {j \in 1 .. Size(q) : j \in Tree(q.ops, r) /\ q.ops[j].kind \in Streaming => Bounded(j)}
<1>0. /\ Forest(q.ops) /\ Size(q) = Len(q.ops) /\ Plan(q.ops) /\ Size(q) \in Nat /\ Typed(q)
  BY DEF Ready, Plan, Size, Forest
<1>1. ASSUME NEW j \in 1 .. Size(q), \A c \in 1 .. j - 1 : c \in Good, j \in Tree(q.ops, r),
             q.ops[j].kind \in Streaming
      PROVE  Bounded(j)
  <2>1. arity(q.ops[j]) = ArityOf(q.ops[j].kind)
    BY <1>0 DEF Forest
  <2>2. q.required[j] \subseteq Offered(q, j)
    BY <1>1, RequiredIsOffered
  <2>3. PassesOn(q, up, j)
    BY <1>1
  <2>4. CASE q.ops[j].kind = "TableScan"
    <3>1. up[j] = q.required[j]
      BY <2>3, <2>4 DEF PassesOn
    <3> QED
      BY <2>2, <3>1
  <2>5. CASE q.ops[j].kind = "Select"
    <3> DEFINE c == q.ops[j].children[1]
    <3>1. 1 \in 1 .. arity(q.ops[j])
      BY <2>1, <2>5 DEF ArityOf
    <3>2. q.ops[c].kind \in Streaming
      BY <1>0, <2>5, <3>1 DEF Plan
    <3>3. /\ c \in Tree(q.ops, r) /\ c \in 1 .. Size(q) /\ c \in 1 .. j - 1
          /\ q.required[j] \cap Offered(q, c) \subseteq q.required[c]
      BY <1>1, <3>1, <3>2, RequiredParts
    <3>4. up[j] = up[c]
      BY <2>3, <2>5 DEF PassesOn, Left
    <3>5. Offered(q, j) = Offered(q, c)
      BY <1>0, <2>5, OfferedParts DEF Left
    <3> HIDE DEF c
    <3>6. Bounded(c)
      <4>1. c \in Good
        BY <1>1, <3>3
      <4> HIDE DEF Bounded
      <4> QED
        BY <3>2, <3>3, <4>1
    <3> QED
      BY <2>2, <3>3, <3>4, <3>5, <3>6
  <2>6. CASE q.ops[j].kind = "Join"
    <3> DEFINE a == q.ops[j].children[1]
    <3> DEFINE b == q.ops[j].children[2]
    <3>0. arity(q.ops[j]) = 2
      BY <2>1, <2>6 DEF ArityOf
    <3>1. 1 \in 1 .. arity(q.ops[j]) /\ 2 \in 1 .. arity(q.ops[j])
      BY <3>0
    <3>2. q.ops[a].kind \in Streaming /\ q.ops[b].kind \in Streaming
      BY <1>0, <2>6, <3>1 DEF Plan
    <3>3. /\ a \in Tree(q.ops, r) /\ q.required[j] \cap Offered(q, a) \subseteq q.required[a]
          /\ b \in Tree(q.ops, r) /\ q.required[j] \cap Offered(q, b) \subseteq q.required[b]
      BY <1>1, <3>1, <3>2, RequiredParts
    <3>4. up[j] = q.leftRequired[j] \cup q.rightRequired[j]
      BY <2>3, <2>6 DEF PassesOn
    <3>5. /\ q.leftRequired[j] = q.required[j] \cap q.required[a]
          /\ q.rightRequired[j] = q.required[j] \cap q.required[b]
      BY <1>1, <3>0 DEF Ready, Filled, Left, Right
    <3>6. Offered(q, j) = Offered(q, a) \cup Offered(q, b)
      BY <1>0, <2>6, OfferedParts DEF Left, Right
    <3> HIDE DEF a, b
    <3> QED
      BY <2>2, <3>3, <3>4, <3>5, <3>6
  <2> QED
    BY <1>1, <2>4, <2>5, <2>6 DEF Streaming
<1>2. \A j \in 1 .. Size(q) : j \in Good
  <2>1. \A j \in 1 .. Size(q) : (\A c \in 1 .. j - 1 : c \in Good) => j \in Good
    BY <1>1
  <2> HIDE DEF Good
  <2> QED
    BY <1>0, <2>1, UpwardInduction
<1>3. i \in Good
  BY <1>2, RequiredParts
<1> QED
  BY <1>3

\* What an operator requires of a child, the child passes.
LEMMA FoundBelow ==
    ASSUME NEW q, NEW r, Ready(q, r), NEW up, \A j \in Tree(q.ops, r) : PassesOn(q, up, j),
           NEW i \in Tree(q.ops, r), NEW k \in 1 .. arity(q.ops[i]), NEW c, c = q.ops[i].children[k]
    PROVE  q.required[i] \cap Offered(q, c) \subseteq up[c] /\ up[c] \subseteq Offered(q, c)
<1>0. /\ Forest(q.ops) /\ Size(q) = Len(q.ops) /\ Plan(q.ops) /\ Typed(q)
  BY DEF Ready, Plan, Size
<1>1. /\ i \in 1 .. Len(q.ops) /\ c \in Tree(q.ops, r) /\ c \in 1 .. Size(q)
      /\ q.ops[c].kind \in Streaming => q.required[i] \cap Offered(q, c) \subseteq q.required[c]
  <2>1. LET d == q.ops[i].children[k]
        IN  /\ d \in Tree(q.ops, r) /\ d \in 1 .. Size(q)
            /\ q.ops[d].kind \in Streaming => q.required[i] \cap Offered(q, d) \subseteq q.required[d]
    BY RequiredParts
  <2> QED
    BY <2>1, RequiredParts
<1>2. q.ops[c].kind \in Streaming \/ q.ops[c].kind = "GroupBy"
  <2>1. \/ q.ops[q.ops[i].children[k]].kind \in Streaming
        \/ q.ops[i].kind = "Result" /\ q.ops[q.ops[i].children[k]].kind = "GroupBy"
    BY <1>0, <1>1 DEF Plan
  <2> QED
    BY <2>1
<1>3. CASE q.ops[c].kind \in Streaming
  <2>1. q.required[c] \subseteq up[c] /\ up[c] \subseteq Offered(q, c)
    BY <1>1, <1>3, PassedBounds
  <2> QED
    BY <1>1, <1>3, <2>1
<1>4. CASE q.ops[c].kind = "GroupBy"
  <2>1. up[c] = Aggregated(q.ops[c])
    BY <1>1, <1>4 DEF PassesOn
  <2>2. Offered(q, c) = Aggregated(q.ops[c])
    BY <1>0, <1>1, <1>4, OfferedParts, SMTT(30)
  <2> QED
    BY <2>1, <2>2
<1> QED
  BY <1>2, <1>3, <1>4

\* q and s differ in nothing but the IUs the operators name.
Alike(q, s) ==
    /\ s.ops = q.ops /\ s.iu_vec = q.iu_vec
    /\ s.produced = q.produced /\ s.producedUpToDate = q.producedUpToDate
    /\ s.required = q.required /\ s.requiredUpToDate = q.requiredUpToDate
    /\ s.leftRequired = q.leftRequired /\ s.rightRequired = q.rightRequired

\* A lookup of a join fails when a condition has its sides reversed, and never
\* otherwise.
LEMMA JoinLookups ==
    ASSUME NEW s, NEW r, Ready(s, r), Alike(s, query), NEW up, \A j \in Tree(s.ops, r) : PassesOn(s, up, j),
           NEW i \in Tree(s.ops, r), s.ops[i].kind = "Join",
           NEW left, left = Left(s.ops, i), NEW right, right = Right(s.ops, i)
    PROVE  /\ left \in s.producedUpToDate /\ s.produced[left] = Offered(s, left)
           /\ joinMisses(i, up[left], up[right]) # {} <=> \E p \in ToSet(s.ops[i].pairs) : p[1] \notin Offered(s, left)
<1> DEFINE pairs == ToSet(s.ops[i].pairs)
<1> DEFINE stored == s.required[i] \cap s.required[left]
<1> DEFINE added == s.required[i] \cap s.required[right]
<1>0. /\ Forest(s.ops) /\ Size(s) = Len(s.ops) /\ Plan(s.ops) /\ Typed(s) /\ Scoped(s) /\ CachesRight(s)
      /\ Filled(s, r) /\ i \in 1 .. Size(s) /\ s.ius[i] \subseteq s.required[i]
  BY RequiredParts DEF Ready, Plan, Size
<1>1. arity(s.ops[i]) = 2 /\ 1 \in 1 .. arity(s.ops[i]) /\ 2 \in 1 .. arity(s.ops[i])
  <2>1. arity(s.ops[i]) = ArityOf(s.ops[i].kind)
    BY <1>0 DEF Forest
  <2>2. arity(s.ops[i]) = 2
    BY <2>1 DEF ArityOf
  <2> QED
    BY <2>2
<1>2. s.ops[left].kind \in Streaming /\ s.ops[right].kind \in Streaming
  BY <1>0, <1>1 DEF Plan, Left, Right
<1>3. /\ left \in Tree(s.ops, r) /\ left \in 1 .. Size(s) /\ s.ops[left].parent = i
      /\ s.required[i] \cap Offered(s, left) \subseteq s.required[left]
      /\ right \in Tree(s.ops, r)
      /\ s.required[i] \cap Offered(s, right) \subseteq s.required[right]
  BY <1>1, <1>2, RequiredParts DEF Left, Right
<1>4. /\ s.required[left] \subseteq up[left] /\ up[left] \subseteq Offered(s, left)
      /\ s.required[right] \subseteq up[right] /\ up[right] \subseteq Offered(s, right)
  BY <1>2, <1>3, PassedBounds
<1>5. query.leftRequired[i] = stored /\ query.rightRequired[i] = added /\ query.ops = s.ops
  BY <1>0, <1>1 DEF Filled, Alike
<1>6. /\ s.ius[i] = UNION {{p[1], p[2]} : p \in pairs}
      /\ \A p \in pairs : \/ p[1] \in Offered(s, left) /\ p[2] \in Offered(s, right)
                          \/ p[1] \in Offered(s, right) /\ p[2] \in Offered(s, left)
      /\ Offered(s, left) \cap Offered(s, right) = {}
  BY <1>0 DEF Scoped
<1>7. left \in s.producedUpToDate /\ s.produced[left] = Offered(s, left)
  <2>1. HasSibling(s.ops, left)
    <3>1. i # 0
      BY <1>0
    <3> QED
      BY <1>1, <1>3, <3>1 DEF HasSibling
  <2>2. left \in s.producedUpToDate
    BY <1>0, <1>2, <1>3, <2>1 DEF Filled
  <2> QED
    BY <1>0, <1>3, <2>2 DEF CachesRight
<1>8. joinMisses(i, up[left], up[right]) =
        (stored \ up[left]) \cup (added \ up[right])
        \cup {p[1] : p \in {pair \in pairs : pair[1] \notin up[left] \cap stored}}
        \cup {p[2] : p \in {pair \in pairs : pair[2] \notin up[right]}}
  BY <1>5, Zenon DEF joinMisses
<1>9. stored \ up[left] = {} /\ added \ up[right] = {}
  BY <1>4
<1>10. \A p \in pairs : p[1] \in s.required[i] /\ p[2] \in s.required[i]
  <2> HIDE DEF pairs
  <2> QED
    BY <1>0, <1>6
<1> HIDE DEF pairs
<1>11. \A p \in pairs : p[1] \notin up[left] \cap stored <=> p[1] \notin Offered(s, left)
  BY <1>3, <1>4, <1>10
<1>12. \A p \in pairs : p[1] \in Offered(s, left) => p[2] \in up[right]
  BY <1>3, <1>4, <1>6, <1>10
<1> HIDE DEF stored, added
<1>13. ASSUME NEW p \in pairs, p[1] \notin Offered(s, left)
       PROVE  joinMisses(i, up[left], up[right]) # {}
  <2>1. p[1] \in joinMisses(i, up[left], up[right])
    BY <1>8, <1>11, <1>13
  <2> QED
    BY <2>1
<1>14. ASSUME \A p \in pairs : p[1] \in Offered(s, left)
       PROVE  joinMisses(i, up[left], up[right]) = {}
  <2>1. {pair \in pairs : pair[1] \notin up[left] \cap stored} = {}
    BY <1>11, <1>14
  <2>2. {pair \in pairs : pair[2] \notin up[right]} = {}
    BY <1>12, <1>14
  <2> QED
    BY <1>8, <1>9, <2>1, <2>2
<1>15. joinMisses(i, up[left], up[right]) # {} <=> \E p \in pairs : p[1] \notin Offered(s, left)
  BY <1>13, <1>14
<1> QED
  BY <1>7, <1>15 DEF pairs

\* No other operator looks up an IU in vain.
LEMMA OtherLookups ==
    ASSUME NEW s, NEW r, Ready(s, r), Alike(s, query), NodesOf(s, r, physical.nodes),
           \A j \in Tree(s.ops, r) : PassesOn(s, passed, j),
           NEW i \in Tree(s.ops, r), s.ops[i].kind # "Join"
    PROVE  misses(i) = {}
<1>0. /\ Forest(s.ops) /\ Size(s) = Len(s.ops) /\ Scoped(s)
      /\ i \in 1 .. Size(s) /\ s.ius[i] \subseteq s.required[i]
      /\ (s.ops[i].kind \notin Streaming => s.required[i] = s.ius[i])
      /\ query.ops = s.ops /\ query.required = s.required
  BY RequiredParts DEF Ready, Plan, Size, Alike
<1>1. arity(s.ops[i]) = ArityOf(s.ops[i].kind) /\ s.ops[i].kind \in Streaming \cup Statements \cup {"GroupBy"}
  BY <1>0 DEF Forest
<1>2. CASE s.ops[i].kind \in {"TableScan", "Insert"}
  BY <1>0, <1>2 DEF misses
<1>3. CASE s.ops[i].kind \in {"Select", "GroupBy", "Result", "Update", "Delete"}
  <2> DEFINE c == s.ops[i].children[1]
  <2>1. 1 \in 1 .. arity(s.ops[i])
    BY <1>1, <1>3 DEF ArityOf
  <2>2. s.required[i] \cap Offered(s, c) \subseteq passed[c]
    BY <2>1, FoundBelow
  <2>3. s.ius[i] \subseteq Offered(s, c)
    BY <1>0, <1>3 DEF Scoped, Left
  <2>4. s.ius[i] \subseteq passed[c]
    BY <1>0, <2>2, <2>3
  <2>5. input(i, 1) = c /\ physical.nodes[i].ius = s.ius[i]
    BY <2>1 DEF NodesOf, Shaped, input
  <2> HIDE DEF c
  <2>6. CASE s.ops[i].kind \in {"Select", "GroupBy"}
    <3>1. misses(i) = s.ius[i] \ passed[c]
      BY <1>0, <2>5, <2>6 DEF misses
    <3> QED
      BY <2>4, <3>1
  <2>7. CASE s.ops[i].kind \in {"Result", "Delete"}
    <3>1. s.required[i] = s.ius[i]
      BY <1>0, <2>7 DEF Streaming
    <3>2. s.required[i] \subseteq passed[c]
      BY <2>4, <3>1
    <3>3. CASE s.ops[i].kind = "Result"
      <4>1. misses(i) = {iu \in s.required[i] : Streams(query) => ~Tid(iu)} \ passed[c]
        BY <1>0, <2>5, <3>3 DEF misses
      <4> QED
        BY <3>2, <4>1
    <3>4. CASE s.ops[i].kind = "Delete"
      <4>1. misses(i) = {iu \in s.required[i] : Tid(iu)} \ passed[c]
        BY <1>0, <2>5, <3>4 DEF misses
      <4> QED
        BY <3>2, <4>1
    <3> QED
      BY <2>7, <3>3, <3>4
  <2>8. CASE s.ops[i].kind = "Update"
    <3>1. misses(i) = {iu \in s.ius[i] : Tid(iu) \/ iu \notin s.ops[i].pairs[1]} \ passed[c]
      BY <1>0, <2>5, <2>8 DEF misses
    <3> QED
      BY <2>4, <3>1
  <2> QED
    BY <1>3, <2>6, <2>7, <2>8
<1> QED
  BY <1>1, <1>2, <1>3 DEF Streaming, Statements

\* Some lookup of a translated statement fails when a condition is reversed.
LEMMA LookupsOfStatement ==
    ASSUME NEW s, NEW r, Ready(s, r), Alike(s, query), NodesOf(s, r, physical.nodes)
    PROVE  UNION {misses(i) : i \in Nodes} # {} <=> ReversedPair
<1>0. /\ Forest(s.ops) /\ r \in 1 .. Len(s.ops) /\ query.ops = s.ops /\ query.produced = s.produced
      /\ Nodes = Tree(s.ops, r) /\ Shaped(query.ops, r, physical.nodes)
      /\ query.required = s.required /\ query.leftRequired = s.leftRequired
      /\ query.rightRequired = s.rightRequired
  BY DEF Ready, Plan, Size, Alike, NodesOf, Shaped, Nodes
<1>1. \A j \in Tree(s.ops, r) : PassesOn(s, passed, j)
  <2>1. \A j \in Nodes : PassesOn(query, passed, j)
    BY <1>0, PassedUnfolds
  <2> QED
    BY <1>0, <2>1 DEF PassesOn
<1>2. ASSUME NEW i \in Tree(s.ops, r), s.ops[i].kind = "Join"
      PROVE  misses(i) # {} <=> \E p \in ToSet(query.ops[i].pairs) : p[1] \notin query.produced[input(i, 1)]
  <2>1. i \in 1 .. Len(s.ops)
    BY <1>2, RequiredParts
  <2>2. arity(s.ops[i]) = 2
    BY <1>0, <1>2, <2>1 DEF Forest, ArityOf
  <2>3. input(i, 1) = Left(s.ops, i) /\ input(i, 2) = Right(s.ops, i)
    BY <2>2 DEF NodesOf, Shaped, input, Left, Right
  <2>4. misses(i) = joinMisses(i, passed[input(i, 1)], passed[input(i, 2)])
    BY <1>0, <1>2 DEF misses
  <2>5. /\ s.produced[Left(s.ops, i)] = Offered(s, Left(s.ops, i))
        /\ joinMisses(i, passed[Left(s.ops, i)], passed[Right(s.ops, i)]) # {} <=>
              \E p \in ToSet(s.ops[i].pairs) : p[1] \notin Offered(s, Left(s.ops, i))
    BY <1>1, <1>2, JoinLookups
  <2> QED
    BY <1>0, <2>3, <2>4, <2>5
<1>3. \A i \in Tree(s.ops, r) : s.ops[i].kind # "Join" => misses(i) = {}
  BY <1>1, OtherLookups
<1>4. ReversedPair <=> \E i \in Nodes : query.ops[i].kind = "Join" /\ misses(i) # {}
  BY <1>0, <1>2 DEF ReversedPair
<1>5. UNION {misses(i) : i \in Nodes} # {} <=> \E i \in Nodes : misses(i) # {}
  OBVIOUS
<1> QED
  BY <1>0, <1>3, <1>4, <1>5

-----------------------------------------------------------------------------
(* Constructing a tree *)

\* Scans produce columns, groups values.
Created(q) ==
    \A i \in 1 .. Size(q) :
       /\ q.ops[i].kind = "TableScan" =>
             q.produced[i] \subseteq {iu \in 1 .. Len(q.iu_vec) : q.iu_vec[iu].iuType = "ColumnRef"}
       /\ q.ops[i].kind = "GroupBy" =>
             Aggregated(q.ops[i]) \subseteq {iu \in 1 .. Len(q.iu_vec) : q.iu_vec[iu].iuType = "ValueRef"}

\* Only the scans have been asked for anything.
Unasked(q) ==
    /\ Fresh(q)
    /\ q.producedUpToDate = {i \in 1 .. Size(q) : q.ops[i].kind = "TableScan"}
    /\ \A i \in 1 .. Size(q) : q.ops[i].kind # "TableScan" => q.produced[i] = {}

Untouched(q) ==
    /\ Typed(q) /\ Plan(q.ops) /\ ScansFilled(q) /\ Scoped(q) /\ Apart(q) /\ Created(q) /\ Unasked(q)

\* The columns of the scans are the only caches, and right.
LEMMA UntouchedCaches ==
    ASSUME NEW q, Untouched(q)
    PROVE  CachesRight(q)
<1> SUFFICES ASSUME NEW j \in 1 .. Size(q), j \in q.producedUpToDate PROVE q.produced[j] = Offered(q, j)
  BY DEF CachesRight
<1>1. q.ops[j].kind = "TableScan"
  BY DEF Untouched, Unasked
<1> QED
  BY <1>1, OfferedParts DEF Untouched

\* t is q with one more operator, which adopts its children.
Grown(q, t, op, ius, columns) ==
    /\ Typed(t) /\ Size(t) = Size(q) + 1
    /\ \A i \in 1 .. Size(q) :
          /\ t.ops[i] = IF \E k \in 1 .. arity(op) : op.children[k] = i
                        THEN [q.ops[i] EXCEPT !.parent = Size(q) + 1] ELSE q.ops[i]
          /\ t.ius[i] = q.ius[i] /\ t.produced[i] = q.produced[i] /\ t.required[i] = q.required[i]
          /\ t.leftRequired[i] = q.leftRequired[i] /\ t.rightRequired[i] = q.rightRequired[i]
    /\ t.ops[Size(q) + 1] = op
    /\ t.ius[Size(q) + 1] = ius /\ t.produced[Size(q) + 1] = columns /\ t.required[Size(q) + 1] = {}
    /\ t.leftRequired[Size(q) + 1] = {} /\ t.rightRequired[Size(q) + 1] = {}
    /\ t.producedUpToDate = IF op.kind = "TableScan" THEN q.producedUpToDate \cup {Size(q) + 1} ELSE q.producedUpToDate
    /\ t.requiredUpToDate = q.requiredUpToDate
    /\ Len(q.iu_vec) <= Len(t.iu_vec)
    /\ \A k \in 1 .. Len(q.iu_vec) : t.iu_vec[k] = q.iu_vec[k]

\* An operator fits on children that have no parent yet.
FitsOn(q, op) ==
    /\ op.kind \in Streaming \cup Statements \cup {"GroupBy"} /\ op.parent = 0
    /\ arity(op) = ArityOf(op.kind) /\ DOMAIN op.children = 1 .. arity(op)
    /\ \A k \in 1 .. arity(op) :
          /\ op.children[k] \in 1 .. Size(q) /\ q.ops[op.children[k]].parent = 0
          /\ \/ q.ops[op.children[k]].kind \in Streaming
             \/ op.kind = "Result" /\ q.ops[op.children[k]].kind = "GroupBy"
    /\ arity(op) = 2 => op.children[1] # op.children[2]

\* The operators with one more are a forest still.
LEMMA GrownForest ==
    ASSUME NEW q, Typed(q), Plan(q.ops), NEW t, NEW op, NEW ius, NEW columns,
           Grown(q, t, op, ius, columns), FitsOn(q, op)
    PROVE  /\ Plan(t.ops)
           /\ \A i \in 1 .. Size(q) : /\ t.ops[i].kind = q.ops[i].kind
                                      /\ t.ops[i].children = q.ops[i].children
                                      /\ t.ops[i].pairs = q.ops[i].pairs
                                      /\ t.ops[i].aggregations = q.ops[i].aggregations
<1> DEFINE n == Size(q)
<1>0. n \in Nat /\ n = Len(q.ops) /\ Len(t.ops) = n + 1 /\ t.ops[n + 1] = op
  BY DEF Typed, Grown, Size
<1>1. \A i \in 1 .. n : q.ops[i] \in AnyOperator
  <2>1. q.ops \in Seq(AnyOperator)
    BY DEF Typed, QueryType
  <2> QED
    BY <1>0, <2>1, SeqElements
<1>2. \A i \in 1 .. n : /\ t.ops[i].kind = q.ops[i].kind
                        /\ t.ops[i].children = q.ops[i].children
                        /\ t.ops[i].pairs = q.ops[i].pairs
                        /\ t.ops[i].aggregations = q.ops[i].aggregations
                        /\ t.ops[i].parent = IF \E k \in 1 .. arity(op) : op.children[k] = i THEN n + 1
                                             ELSE q.ops[i].parent
  <2> SUFFICES ASSUME NEW i \in 1 .. n
               PROVE  /\ t.ops[i].kind = q.ops[i].kind
                      /\ t.ops[i].children = q.ops[i].children
                      /\ t.ops[i].pairs = q.ops[i].pairs
                      /\ t.ops[i].aggregations = q.ops[i].aggregations
                      /\ t.ops[i].parent = IF \E k \in 1 .. arity(op) : op.children[k] = i THEN n + 1
                                           ELSE q.ops[i].parent
    OBVIOUS
  <2>1. q.ops[i] \in AnyOperator
    BY <1>1
  <2>2. t.ops[i] = IF \E k \in 1 .. arity(op) : op.children[k] = i
                   THEN [q.ops[i] EXCEPT !.parent = n + 1] ELSE q.ops[i]
    BY DEF Grown
  <2> HIDE DEF n
  <2> QED
    BY <2>1, <2>2 DEF AnyOperator
<1>3. \A i \in 1 .. n : arity(t.ops[i]) = arity(q.ops[i])
  BY <1>2 DEF arity
<1>4. DOMAIN t.ops = 1 .. n + 1
  <2>1. t.ops \in Seq(AnyOperator)
    BY DEF Grown, Typed, QueryType
  <2> QED
    BY <1>0, <2>1, SeqElements
<1> HIDE DEF n
<1>5. /\ Forest(q.ops)
      /\ \A i \in 1 .. n : \A k \in 1 .. arity(q.ops[i]) :
            \/ q.ops[q.ops[i].children[k]].kind \in Streaming
            \/ q.ops[i].kind = "Result" /\ q.ops[q.ops[i].children[k]].kind = "GroupBy"
  BY <1>0 DEF Plan
<1>6. \A i \in 1 .. n :
         /\ q.ops[i].kind \in Streaming \cup Statements \cup {"GroupBy"}
         /\ arity(q.ops[i]) = ArityOf(q.ops[i].kind)
         /\ DOMAIN q.ops[i].children = 1 .. arity(q.ops[i])
         /\ \A k \in 1 .. arity(q.ops[i]) : /\ q.ops[i].children[k] \in 1 .. i - 1
                                            /\ q.ops[q.ops[i].children[k]].parent = i
         /\ arity(q.ops[i]) = 2 => q.ops[i].children[1] # q.ops[i].children[2]
         /\ q.ops[i].parent \in 0 .. n
         /\ q.ops[i].parent # 0 => \E k \in 1 .. arity(q.ops[q.ops[i].parent]) : q.ops[q.ops[i].parent].children[k] = i
  BY <1>0, <1>5 DEF Forest
<1>7. /\ op.kind \in Streaming \cup Statements \cup {"GroupBy"} /\ op.parent = 0
      /\ arity(op) = ArityOf(op.kind) /\ DOMAIN op.children = 1 .. arity(op)
      /\ \A k \in 1 .. arity(op) :
            /\ op.children[k] \in 1 .. n /\ q.ops[op.children[k]].parent = 0
            /\ \/ q.ops[op.children[k]].kind \in Streaming
               \/ op.kind = "Result" /\ q.ops[op.children[k]].kind = "GroupBy"
      /\ arity(op) = 2 => op.children[1] # op.children[2]
  BY DEF FitsOn, n
<1>8. ASSUME NEW i \in 1 .. n
      PROVE  /\ t.ops[i].kind \in Streaming \cup Statements \cup {"GroupBy"}
             /\ arity(t.ops[i]) = ArityOf(t.ops[i].kind)
             /\ DOMAIN t.ops[i].children = 1 .. arity(t.ops[i])
             /\ \A k \in 1 .. arity(t.ops[i]) : /\ t.ops[i].children[k] \in 1 .. i - 1
                                                /\ t.ops[t.ops[i].children[k]].parent = i
             /\ arity(t.ops[i]) = 2 => t.ops[i].children[1] # t.ops[i].children[2]
             /\ t.ops[i].parent \in 0 .. n + 1
             /\ t.ops[i].parent # 0 => \E k \in 1 .. arity(t.ops[t.ops[i].parent]) : t.ops[t.ops[i].parent].children[k] = i
             /\ \A k \in 1 .. arity(t.ops[i]) :
                   \/ t.ops[t.ops[i].children[k]].kind \in Streaming
                   \/ t.ops[i].kind = "Result" /\ t.ops[t.ops[i].children[k]].kind = "GroupBy"
  <2>1. /\ t.ops[i].kind \in Streaming \cup Statements \cup {"GroupBy"}
        /\ arity(t.ops[i]) = ArityOf(t.ops[i].kind)
        /\ DOMAIN t.ops[i].children = 1 .. arity(t.ops[i])
        /\ arity(t.ops[i]) = 2 => t.ops[i].children[1] # t.ops[i].children[2]
    BY <1>2, <1>3, <1>6
  <2>2. ASSUME NEW k \in 1 .. arity(t.ops[i])
        PROVE  /\ t.ops[i].children[k] \in 1 .. i - 1
               /\ t.ops[t.ops[i].children[k]].parent = i
               /\ \/ t.ops[t.ops[i].children[k]].kind \in Streaming
                  \/ t.ops[i].kind = "Result" /\ t.ops[t.ops[i].children[k]].kind = "GroupBy"
    <3> DEFINE c == q.ops[i].children[k]
    <3>1. c = t.ops[i].children[k] /\ k \in 1 .. arity(q.ops[i])
      BY <1>2, <1>3
    <3>2. c \in 1 .. i - 1 /\ q.ops[c].parent = i
      BY <1>6, <3>1
    <3>3. q.ops[c].kind \in Streaming \/ (q.ops[i].kind = "Result" /\ q.ops[c].kind = "GroupBy")
      BY <1>5, <3>1
    <3> HIDE DEF c
    <3>4. c \in 1 .. n /\ i # 0
      BY <1>0, <3>2
    <3>5. ~ \E m \in 1 .. arity(op) : op.children[m] = c
      BY <1>7, <3>2, <3>4
    <3>6. t.ops[c].parent = i /\ t.ops[c].kind = q.ops[c].kind
      BY <1>2, <3>2, <3>4, <3>5
    <3>7. t.ops[i].kind = q.ops[i].kind
      BY <1>2
    <3> QED
      BY <3>1, <3>2, <3>3, <3>6, <3>7
  <2>3. t.ops[i].parent \in 0 .. n + 1
    <3>1. t.ops[i].parent = n + 1 \/ t.ops[i].parent = q.ops[i].parent
      BY <1>2
    <3>2. q.ops[i].parent \in 0 .. n
      BY <1>6
    <3> QED
      BY <1>0, <3>1, <3>2
  <2>4. t.ops[i].parent # 0 => \E k \in 1 .. arity(t.ops[t.ops[i].parent]) : t.ops[t.ops[i].parent].children[k] = i
    <3>1. CASE \E k \in 1 .. arity(op) : op.children[k] = i
      <4>1. t.ops[i].parent = n + 1
        BY <1>2, <3>1
      <4> QED
        BY <1>0, <3>1, <4>1
    <3>2. CASE ~ \E k \in 1 .. arity(op) : op.children[k] = i
      <4> DEFINE p == q.ops[i].parent
      <4>1. t.ops[i].parent = p
        BY <1>2, <3>2
      <4>2. p # 0 => \E k \in 1 .. arity(q.ops[p]) : q.ops[p].children[k] = i
        BY <1>6
      <4>3. p # 0 => p \in 1 .. n
        BY <1>0, <1>6
      <4> HIDE DEF p
      <4> QED
        BY <1>2, <1>3, <4>1, <4>2, <4>3
    <3> QED
      BY <3>1, <3>2
  <2> QED
    BY <2>1, <2>2, <2>3, <2>4
<1>9. /\ \A k \in 1 .. arity(op) : /\ op.children[k] \in 1 .. (n + 1) - 1
                                   /\ t.ops[op.children[k]].parent = n + 1
                                   /\ \/ t.ops[op.children[k]].kind \in Streaming
                                      \/ op.kind = "Result" /\ t.ops[op.children[k]].kind = "GroupBy"
  <2> SUFFICES ASSUME NEW k \in 1 .. arity(op)
               PROVE  /\ op.children[k] \in 1 .. (n + 1) - 1
                      /\ t.ops[op.children[k]].parent = n + 1
                      /\ \/ t.ops[op.children[k]].kind \in Streaming
                         \/ op.kind = "Result" /\ t.ops[op.children[k]].kind = "GroupBy"
    OBVIOUS
  <2>1. op.children[k] \in 1 .. n
    BY <1>7
  <2>2. t.ops[op.children[k]].parent = n + 1 /\ t.ops[op.children[k]].kind = q.ops[op.children[k]].kind
    BY <1>2, <2>1
  <2> QED
    BY <1>0, <1>7, <2>1, <2>2
<1>10. ASSUME NEW i \in 1 .. n + 1, i \notin 1 .. n PROVE i = n + 1
  BY <1>0, <1>10
<1>11. Forest(t.ops)
  <2>1. Len(t.ops) \in Nat /\ DOMAIN t.ops = 1 .. Len(t.ops)
    BY <1>0, <1>4
  <2>2. ASSUME NEW i \in 1 .. n + 1
        PROVE  /\ t.ops[i].kind \in Streaming \cup Statements \cup {"GroupBy"}
               /\ arity(t.ops[i]) = ArityOf(t.ops[i].kind)
               /\ DOMAIN t.ops[i].children = 1 .. arity(t.ops[i])
               /\ \A k \in 1 .. arity(t.ops[i]) : /\ t.ops[i].children[k] \in 1 .. i - 1
                                                  /\ t.ops[t.ops[i].children[k]].parent = i
               /\ arity(t.ops[i]) = 2 => t.ops[i].children[1] # t.ops[i].children[2]
               /\ t.ops[i].parent \in 0 .. n + 1
               /\ t.ops[i].parent # 0 => \E k \in 1 .. arity(t.ops[t.ops[i].parent]) : t.ops[t.ops[i].parent].children[k] = i
    <3>1. CASE i \in 1 .. n
      BY <1>8, <3>1
    <3>2. CASE i = n + 1
      <4>1. t.ops[i] = op /\ op.parent = 0 /\ 0 \in 0 .. n + 1
        BY <1>0, <1>7, <3>2
      <4> QED
        BY <1>7, <1>9, <3>2, <4>1
    <3> QED
      BY <1>10, <3>1, <3>2
  <2> QED
    BY <1>0, <2>1, <2>2 DEF Forest
<1>12. Plan(t.ops)
  <2>1. ASSUME NEW i \in 1 .. n + 1, NEW k \in 1 .. arity(t.ops[i])
        PROVE  \/ t.ops[t.ops[i].children[k]].kind \in Streaming
               \/ t.ops[i].kind = "Result" /\ t.ops[t.ops[i].children[k]].kind = "GroupBy"
    <3>1. CASE i \in 1 .. n
      BY <1>8, <2>1, <3>1
    <3>2. CASE i = n + 1
      BY <1>0, <1>9, <2>1, <3>2
    <3> QED
      BY <1>10, <3>1, <3>2
  <2> QED
    BY <1>0, <1>11, <2>1 DEF Plan
<1> QED
  BY <1>2, <1>12 DEF n

\* A new operator is in none of the trees there were.
LEMMA GrownTrees ==
    ASSUME NEW q, Typed(q), Plan(q.ops), NEW t, NEW op, NEW ius, NEW columns,
           Grown(q, t, op, ius, columns), FitsOn(q, op)
    PROVE  \A i \in 1 .. Size(q) : Tree(t.ops, i) = Tree(q.ops, i)
<1> DEFINE n == Size(q)
           S == {i \in 1 .. n : Tree(t.ops, i) = Tree(q.ops, i)}
<1>0. /\ n \in Nat /\ n = Len(q.ops) /\ Forest(q.ops)
      /\ Forest(t.ops) /\ Len(t.ops) = n + 1
      /\ \A i \in 1 .. n : t.ops[i].children = q.ops[i].children
  <2>1. Plan(t.ops) /\ \A i \in 1 .. n : t.ops[i].children = q.ops[i].children
    BY GrownForest
  <2> QED
    BY <2>1 DEF Typed, Grown, Size, Plan
<1> HIDE DEF n
<1>1. ASSUME NEW i \in 1 .. n, \A j \in 1 .. i - 1 : j \in S
      PROVE  i \in S
  <2>1. i \in 1 .. Len(q.ops) /\ i \in 1 .. Len(t.ops)
    BY <1>0
  <2>2. arity(t.ops[i]) = arity(q.ops[i]) /\ Left(t.ops, i) = Left(q.ops, i) /\ Right(t.ops, i) = Right(q.ops, i)
    BY <1>0 DEF arity, Left, Right
  <2>3. /\ arity(q.ops[i]) \in {0, 1, 2}
        /\ arity(q.ops[i]) >= 1 => Left(q.ops, i) \in 1 .. i - 1
        /\ arity(q.ops[i]) = 2 => Right(q.ops, i) \in 1 .. i - 1
    BY <1>0, <2>1, Arities
  <2>4. /\ arity(q.ops[i]) = 0 => Tree(q.ops, i) = {i}
        /\ arity(q.ops[i]) = 1 => Tree(q.ops, i) = Tree(q.ops, Left(q.ops, i)) \cup {i}
        /\ arity(q.ops[i]) = 2 =>
              Tree(q.ops, i) = Tree(q.ops, Left(q.ops, i)) \cup Tree(q.ops, Right(q.ops, i)) \cup {i}
    BY <1>0, <2>1, TreeParts
  <2>5. /\ arity(t.ops[i]) = 0 => Tree(t.ops, i) = {i}
        /\ arity(t.ops[i]) = 1 => Tree(t.ops, i) = Tree(t.ops, Left(t.ops, i)) \cup {i}
        /\ arity(t.ops[i]) = 2 =>
              Tree(t.ops, i) = Tree(t.ops, Left(t.ops, i)) \cup Tree(t.ops, Right(t.ops, i)) \cup {i}
    BY <1>0, <2>1, TreeParts
  <2>6. \A j \in 1 .. i - 1 : Tree(t.ops, j) = Tree(q.ops, j)
    BY <1>1
  <2>7. /\ arity(q.ops[i]) >= 1 => Tree(t.ops, Left(q.ops, i)) = Tree(q.ops, Left(q.ops, i))
        /\ arity(q.ops[i]) = 2 => Tree(t.ops, Right(q.ops, i)) = Tree(q.ops, Right(q.ops, i))
    BY <2>3, <2>6
  <2>8. Tree(t.ops, i) = Tree(q.ops, i)
    BY <2>2, <2>3, <2>4, <2>5, <2>7
  <2> QED
    BY <2>8
<1> HIDE DEF S
<1>2. \A i \in 1 .. n : i \in S
  BY <1>0, <1>1, UpwardInduction
<1> QED
  BY <1>2 DEF S, n

\* The older operators offer what they did; the new one is over them.
LEMMA GrownOffers ==
    ASSUME NEW q, Typed(q), Plan(q.ops), NEW t, NEW op, NEW ius, NEW columns,
           Grown(q, t, op, ius, columns), FitsOn(q, op)
    PROVE  \A i \in 1 .. Size(q) : Offered(t, i) = Offered(q, i)
<1> SUFFICES ASSUME NEW i \in 1 .. Size(q) PROVE Offered(t, i) = Offered(q, i)
  OBVIOUS
<1>1. /\ Forest(q.ops) /\ Tree(t.ops, i) = Tree(q.ops, i)
      /\ \A j \in 1 .. Size(q) : /\ t.ops[j].kind = q.ops[j].kind
                                 /\ t.ops[j].aggregations = q.ops[j].aggregations
                                 /\ t.produced[j] = q.produced[j]
  <2>1. \A j \in 1 .. Size(q) : /\ t.ops[j].kind = q.ops[j].kind
                                /\ t.ops[j].aggregations = q.ops[j].aggregations
    BY GrownForest
  <2>2. Tree(t.ops, i) = Tree(q.ops, i)
    BY GrownTrees
  <2> QED
    BY <2>1, <2>2 DEF Grown, Plan
<1>2. Tree(q.ops, i) \subseteq 1 .. Size(q)
  BY <1>1, TreeParts DEF Size
<1>3. Scans(t, i) = Scans(q, i) /\ Scans(q, i) \subseteq 1 .. Size(q)
  BY <1>1, <1>2 DEF Scans
<1>4. UNION {t.produced[j] : j \in Scans(t, i)} = UNION {q.produced[j] : j \in Scans(q, i)}
  BY <1>1, <1>3
<1>5. Aggregated(t.ops[i]) = Aggregated(q.ops[i])
  BY <1>1 DEF Aggregated
<1> QED
  BY <1>1, <1>4, <1>5 DEF Offered

\* Two trees have no scan in common, and offer nothing in common.
LEMMA TreesApart ==
    ASSUME NEW q, Typed(q), Plan(q.ops), Apart(q),
           NEW a \in 1 .. Size(q), NEW b \in 1 .. Size(q), a # b,
           q.ops[a].parent = 0, q.ops[b].parent = 0,
           q.ops[a].kind \in Streaming, q.ops[b].kind \in Streaming
    PROVE  Offered(q, a) \cap Offered(q, b) = {}
<1> SUFFICES ASSUME NEW iu \in Offered(q, a), iu \in Offered(q, b) PROVE FALSE
  OBVIOUS
<1>1. PICK i \in Scans(q, a) : iu \in q.produced[i]
  BY DEF Offered
<1>2. PICK j \in Scans(q, b) : iu \in q.produced[j]
  BY DEF Offered
<1>3. Forest(q.ops) /\ a \in 1 .. Len(q.ops) /\ b \in 1 .. Len(q.ops)
  BY DEF Plan, Size
<1>4. /\ i \in Tree(q.ops, a) /\ q.ops[i].kind = "TableScan" /\ j \in Tree(q.ops, b) /\ q.ops[j].kind = "TableScan"
      /\ i \in 1 .. Size(q) /\ j \in 1 .. Size(q)
  BY <1>3, TreeParts DEF Scans, Size
<1>5. i = j
  BY <1>1, <1>2, <1>4 DEF Apart
<1>6. getRoot(q.ops, i) = a /\ getRoot(q.ops, i) = b
  BY <1>3, <1>4, <1>5, RootOfTree
<1> QED
  BY <1>6

\* The new operator creates new IUs, and names IUs its children offer.
Names(q, t, op, ius, columns) ==
    /\ op.kind = "TableScan" =>
          /\ columns # {}
          /\ columns \subseteq {iu \in Len(q.iu_vec) + 1 .. Len(t.iu_vec) : t.iu_vec[iu].iuType = "ColumnRef"}
    /\ op.kind # "TableScan" => columns = {}
    /\ op.kind = "GroupBy" =>
          Aggregated(op) \subseteq {iu \in Len(q.iu_vec) + 1 .. Len(t.iu_vec) : t.iu_vec[iu].iuType = "ValueRef"}
    /\ op.kind \in {"TableScan", "Insert"} => ius = {}
    /\ op.kind \in {"Select", "GroupBy", "Result", "Update", "Delete"} => ius \subseteq Offered(q, op.children[1])
    /\ op.kind = "Join" =>
          /\ ius = UNION {{p[1], p[2]} : p \in ToSet(op.pairs)}
          /\ \A p \in ToSet(op.pairs) :
                \/ p[1] \in Offered(q, op.children[1]) /\ p[2] \in Offered(q, op.children[2])
                \/ p[1] \in Offered(q, op.children[2]) /\ p[2] \in Offered(q, op.children[1])

\* All operators, the new one among them, name what is below them.
LEMMA GrownScoped ==
    ASSUME NEW q, Untouched(q), NEW t, NEW op, NEW ius, NEW columns,
           Grown(q, t, op, ius, columns), FitsOn(q, op), Names(q, t, op, ius, columns)
    PROVE  Scoped(t)
<1> DEFINE n == Size(q)
<1>0. /\ Typed(q) /\ Plan(q.ops) /\ Scoped(q) /\ Apart(q) /\ Forest(q.ops)
      /\ n \in Nat /\ n = Len(q.ops) /\ Size(t) = n + 1
      /\ t.ops[n + 1] = op /\ t.ius[n + 1] = ius
  BY DEF Untouched, Plan, Typed, Grown, Size
<1>1. /\ \A i \in 1 .. n : /\ t.ops[i].kind = q.ops[i].kind
                           /\ t.ops[i].children = q.ops[i].children
                           /\ t.ops[i].pairs = q.ops[i].pairs
                           /\ t.ius[i] = q.ius[i]
      /\ \A i \in 1 .. n : Offered(t, i) = Offered(q, i)
  <2>1. \A i \in 1 .. n : /\ t.ops[i].kind = q.ops[i].kind
                          /\ t.ops[i].children = q.ops[i].children
                          /\ t.ops[i].pairs = q.ops[i].pairs
    BY <1>0, GrownForest
  <2>2. \A i \in 1 .. n : Offered(t, i) = Offered(q, i)
    BY <1>0, GrownOffers
  <2> QED
    BY <2>1, <2>2 DEF Grown
<1> HIDE DEF n
<1>2. ASSUME NEW i \in 1 .. n
      PROVE  /\ Left(t.ops, i) = Left(q.ops, i) /\ Right(t.ops, i) = Right(q.ops, i)
             /\ arity(q.ops[i]) >= 1 => Offered(t, Left(t.ops, i)) = Offered(q, Left(q.ops, i))
             /\ arity(q.ops[i]) = 2 => Offered(t, Right(t.ops, i)) = Offered(q, Right(q.ops, i))
  <2>1. Left(t.ops, i) = Left(q.ops, i) /\ Right(t.ops, i) = Right(q.ops, i)
    BY <1>1 DEF Left, Right
  <2>2. /\ arity(q.ops[i]) >= 1 => Left(q.ops, i) \in 1 .. n
        /\ arity(q.ops[i]) = 2 => Right(q.ops, i) \in 1 .. n
    BY <1>0, Arities
  <2> QED
    BY <1>1, <2>1, <2>2
<1>3. ASSUME NEW i \in 1 .. n
      PROVE  /\ t.ops[i].kind \in {"TableScan", "Insert"} => t.ius[i] = {}
             /\ t.ops[i].kind \in {"Select", "GroupBy", "Result", "Update", "Delete"} =>
                   t.ius[i] \subseteq Offered(t, Left(t.ops, i))
             /\ t.ops[i].kind = "Join" =>
                   /\ t.ius[i] = UNION {{p[1], p[2]} : p \in ToSet(t.ops[i].pairs)}
                   /\ \A p \in ToSet(t.ops[i].pairs) :
                         \/ p[1] \in Offered(t, Left(t.ops, i)) /\ p[2] \in Offered(t, Right(t.ops, i))
                         \/ p[1] \in Offered(t, Right(t.ops, i)) /\ p[2] \in Offered(t, Left(t.ops, i))
                   /\ Offered(t, Left(t.ops, i)) \cap Offered(t, Right(t.ops, i)) = {}
  <2>1. /\ q.ops[i].kind \in {"TableScan", "Insert"} => q.ius[i] = {}
        /\ q.ops[i].kind \in {"Select", "GroupBy", "Result", "Update", "Delete"} =>
              q.ius[i] \subseteq Offered(q, Left(q.ops, i))
        /\ q.ops[i].kind = "Join" =>
              /\ q.ius[i] = UNION {{p[1], p[2]} : p \in ToSet(q.ops[i].pairs)}
              /\ \A p \in ToSet(q.ops[i].pairs) :
                    \/ p[1] \in Offered(q, Left(q.ops, i)) /\ p[2] \in Offered(q, Right(q.ops, i))
                    \/ p[1] \in Offered(q, Right(q.ops, i)) /\ p[2] \in Offered(q, Left(q.ops, i))
              /\ Offered(q, Left(q.ops, i)) \cap Offered(q, Right(q.ops, i)) = {}
    BY <1>0 DEF Scoped, n
  <2>2. arity(q.ops[i]) = ArityOf(q.ops[i].kind)
    BY <1>0 DEF Forest
  <2>3. t.ops[i].kind = q.ops[i].kind /\ t.ops[i].pairs = q.ops[i].pairs /\ t.ius[i] = q.ius[i]
    BY <1>1
  <2>4. q.ops[i].kind \in {"Select", "GroupBy", "Result", "Update", "Delete", "Join"} =>
           Offered(t, Left(t.ops, i)) = Offered(q, Left(q.ops, i))
    BY <1>2, <2>2 DEF ArityOf
  <2>5. q.ops[i].kind = "Join" => Offered(t, Right(t.ops, i)) = Offered(q, Right(q.ops, i))
    BY <1>2, <2>2 DEF ArityOf
  <2>6. t.ops[i].kind \in {"TableScan", "Insert"} => t.ius[i] = {}
    BY <2>1, <2>3
  <2>7. t.ops[i].kind \in {"Select", "GroupBy", "Result", "Update", "Delete"} =>
           t.ius[i] \subseteq Offered(t, Left(t.ops, i))
    BY <2>1, <2>3, <2>4
  <2>8. ASSUME t.ops[i].kind = "Join"
        PROVE  /\ t.ius[i] = UNION {{p[1], p[2]} : p \in ToSet(t.ops[i].pairs)}
               /\ \A p \in ToSet(t.ops[i].pairs) :
                     \/ p[1] \in Offered(t, Left(t.ops, i)) /\ p[2] \in Offered(t, Right(t.ops, i))
                     \/ p[1] \in Offered(t, Right(t.ops, i)) /\ p[2] \in Offered(t, Left(t.ops, i))
               /\ Offered(t, Left(t.ops, i)) \cap Offered(t, Right(t.ops, i)) = {}
    BY <2>1, <2>3, <2>4, <2>5, <2>8
  <2> QED
    BY <2>6, <2>7, <2>8
<1>4. /\ op.kind \in Streaming \cup Statements \cup {"GroupBy"}
      /\ arity(op) = ArityOf(op.kind)
      /\ \A k \in 1 .. arity(op) :
            /\ op.children[k] \in 1 .. n /\ q.ops[op.children[k]].parent = 0
            /\ \/ q.ops[op.children[k]].kind \in Streaming
               \/ op.kind = "Result" /\ q.ops[op.children[k]].kind = "GroupBy"
      /\ arity(op) = 2 => op.children[1] # op.children[2]
  BY DEF FitsOn, n
<1>5. \A k \in 1 .. arity(op) : Offered(t, op.children[k]) = Offered(q, op.children[k])
  BY <1>1, <1>4
<1>6. Left(t.ops, n + 1) = op.children[1] /\ Right(t.ops, n + 1) = op.children[2]
  BY <1>0 DEF Left, Right
<1>7. /\ op.kind \in {"TableScan", "Insert"} => ius = {}
      /\ op.kind \in {"Select", "GroupBy", "Result", "Update", "Delete"} => ius \subseteq Offered(t, op.children[1])
      /\ op.kind = "Join" =>
            /\ ius = UNION {{p[1], p[2]} : p \in ToSet(op.pairs)}
            /\ \A p \in ToSet(op.pairs) :
                  \/ p[1] \in Offered(t, op.children[1]) /\ p[2] \in Offered(t, op.children[2])
                  \/ p[1] \in Offered(t, op.children[2]) /\ p[2] \in Offered(t, op.children[1])
            /\ Offered(t, op.children[1]) \cap Offered(t, op.children[2]) = {}
  <2>1. CASE op.kind \in {"TableScan", "Insert"}
    BY <2>1 DEF Names
  <2>2. CASE op.kind \in {"Select", "GroupBy", "Result", "Update", "Delete"}
    <3>1. arity(op) = 1
      BY <1>4, <2>2 DEF ArityOf
    <3> QED
      BY <1>5, <2>2, <3>1 DEF Names
  <2>3. CASE op.kind = "Join"
    <3>1. arity(op) = 2
      BY <1>4, <2>3 DEF ArityOf
    <3> DEFINE a == op.children[1]  b == op.children[2]
    <3>2. /\ a \in 1 .. n /\ b \in 1 .. n /\ a # b /\ q.ops[a].parent = 0 /\ q.ops[b].parent = 0
          /\ q.ops[a].kind \in Streaming /\ q.ops[b].kind \in Streaming
      BY <1>4, <2>3, <3>1
    <3>3. Offered(t, a) = Offered(q, a) /\ Offered(t, b) = Offered(q, b)
      BY <1>1, <3>2
    <3>4. /\ ius = UNION {{p[1], p[2]} : p \in ToSet(op.pairs)}
          /\ \A p \in ToSet(op.pairs) :
                \/ p[1] \in Offered(q, a) /\ p[2] \in Offered(q, b)
                \/ p[1] \in Offered(q, b) /\ p[2] \in Offered(q, a)
      BY <2>3 DEF Names
    <3> HIDE DEF a, b
    <3>5. Offered(q, a) \cap Offered(q, b) = {}
      BY <1>0, <3>2, TreesApart DEF n
    <3>6. /\ ius = UNION {{p[1], p[2]} : p \in ToSet(op.pairs)}
          /\ \A p \in ToSet(op.pairs) :
                \/ p[1] \in Offered(t, a) /\ p[2] \in Offered(t, b)
                \/ p[1] \in Offered(t, b) /\ p[2] \in Offered(t, a)
          /\ Offered(t, a) \cap Offered(t, b) = {}
      BY <3>3, <3>4, <3>5
    <3> QED
      BY <2>3, <3>6 DEF a, b
  <2> QED
    BY <1>4, <2>1, <2>2, <2>3 DEF Streaming, Statements
<1>8. ASSUME NEW i \in 1 .. n + 1, i \notin 1 .. n PROVE i = n + 1
  BY <1>0, <1>8
<1>9. ASSUME NEW i \in 1 .. n + 1
      PROVE  /\ t.ops[i].kind \in {"TableScan", "Insert"} => t.ius[i] = {}
             /\ t.ops[i].kind \in {"Select", "GroupBy", "Result", "Update", "Delete"} =>
                   t.ius[i] \subseteq Offered(t, Left(t.ops, i))
             /\ t.ops[i].kind = "Join" =>
                   /\ t.ius[i] = UNION {{p[1], p[2]} : p \in ToSet(t.ops[i].pairs)}
                   /\ \A p \in ToSet(t.ops[i].pairs) :
                         \/ p[1] \in Offered(t, Left(t.ops, i)) /\ p[2] \in Offered(t, Right(t.ops, i))
                         \/ p[1] \in Offered(t, Right(t.ops, i)) /\ p[2] \in Offered(t, Left(t.ops, i))
                   /\ Offered(t, Left(t.ops, i)) \cap Offered(t, Right(t.ops, i)) = {}
  <2>1. CASE i \in 1 .. n
    BY <1>3, <2>1
  <2>2. CASE i \notin 1 .. n
    <3>1. t.ops[i] = op /\ t.ius[i] = ius /\ Left(t.ops, i) = op.children[1] /\ Right(t.ops, i) = op.children[2]
      BY <1>0, <1>6, <1>8, <2>2
    <3> QED
      BY <1>7, <3>1
  <2> QED
    BY <2>1, <2>2
<1> QED
  BY <1>0, <1>9 DEF Scoped

\* An operator added to a tree that nothing was asked of leaves it like that.
LEMMA GrownUntouched ==
    ASSUME NEW q, Untouched(q), NEW t, NEW op, NEW ius, NEW columns,
           Grown(q, t, op, ius, columns), FitsOn(q, op), Names(q, t, op, ius, columns)
    PROVE  Untouched(t)
<1> DEFINE n == Size(q)
<1>0. /\ Typed(q) /\ Plan(q.ops) /\ n \in Nat /\ n = Len(q.ops) /\ Size(t) = n + 1 /\ Typed(t)
      /\ t.ops[n + 1] = op /\ t.ius[n + 1] = ius /\ t.produced[n + 1] = columns /\ t.required[n + 1] = {}
      /\ t.leftRequired[n + 1] = {} /\ t.rightRequired[n + 1] = {}
      /\ t.producedUpToDate = IF op.kind = "TableScan" THEN q.producedUpToDate \cup {n + 1} ELSE q.producedUpToDate
      /\ t.requiredUpToDate = q.requiredUpToDate
      /\ Len(q.iu_vec) <= Len(t.iu_vec)
      /\ \A k \in 1 .. Len(q.iu_vec) : t.iu_vec[k] = q.iu_vec[k]
  BY DEF Untouched, Plan, Typed, Grown, Size
<1>1. \A i \in 1 .. n : /\ t.ops[i].kind = q.ops[i].kind
                        /\ Aggregated(t.ops[i]) = Aggregated(q.ops[i])
                        /\ t.produced[i] = q.produced[i] /\ t.required[i] = q.required[i]
                        /\ t.leftRequired[i] = q.leftRequired[i] /\ t.rightRequired[i] = q.rightRequired[i]
  <2>1. \A i \in 1 .. n : t.ops[i].kind = q.ops[i].kind /\ t.ops[i].aggregations = q.ops[i].aggregations
    BY <1>0, GrownForest
  <2>2. \A i \in 1 .. n : Aggregated(t.ops[i]) = Aggregated(q.ops[i])
    BY <2>1 DEF Aggregated
  <2>3. \A i \in 1 .. n : /\ t.produced[i] = q.produced[i] /\ t.required[i] = q.required[i]
                          /\ t.leftRequired[i] = q.leftRequired[i] /\ t.rightRequired[i] = q.rightRequired[i]
    BY DEF Grown
  <2> QED
    BY <2>1, <2>2, <2>3
<1>2. Plan(t.ops)
  BY <1>0, GrownForest
<1>3. Scoped(t)
  BY GrownScoped
<1>4. Len(q.iu_vec) \in Nat /\ Len(t.iu_vec) \in Nat
  <2>1. q.iu_vec \in Seq(AnyIU) /\ t.iu_vec \in Seq(AnyIU)
    BY <1>0 DEF Typed, QueryType
  <2> QED
    BY <2>1, SeqElements
<1>5. /\ ScansFilled(q) /\ Apart(q) /\ Created(q) /\ Unasked(q) /\ Fresh(q)
  BY DEF Untouched, Unasked
<1>6. /\ op.kind = "TableScan" =>
            /\ columns # {}
            /\ columns \subseteq {iu \in Len(q.iu_vec) + 1 .. Len(t.iu_vec) : t.iu_vec[iu].iuType = "ColumnRef"}
      /\ op.kind # "TableScan" => columns = {}
      /\ op.kind = "GroupBy" =>
            Aggregated(op) \subseteq {iu \in Len(q.iu_vec) + 1 .. Len(t.iu_vec) : t.iu_vec[iu].iuType = "ValueRef"}
  BY DEF Names
<1>7. \A i \in 1 .. n : /\ q.ops[i].kind = "TableScan" => q.produced[i] # {}
                        /\ q.ops[i].kind = "TableScan" =>
                              q.produced[i] \subseteq {iu \in 1 .. Len(q.iu_vec) : q.iu_vec[iu].iuType = "ColumnRef"}
                        /\ q.ops[i].kind = "GroupBy" =>
                              Aggregated(q.ops[i]) \subseteq {iu \in 1 .. Len(q.iu_vec) : q.iu_vec[iu].iuType = "ValueRef"}
                        /\ q.ops[i].kind # "TableScan" => q.produced[i] = {}
                        /\ q.required[i] = {} /\ q.leftRequired[i] = {} /\ q.rightRequired[i] = {}
  BY <1>5 DEF ScansFilled, Created, Unasked, Fresh
<1>8. /\ q.requiredUpToDate = {}
      /\ q.producedUpToDate = {i \in 1 .. n : q.ops[i].kind = "TableScan"}
      /\ \A i, j \in 1 .. n :
            q.ops[i].kind = "TableScan" /\ q.ops[j].kind = "TableScan" /\ i # j => q.produced[i] \cap q.produced[j] = {}
      /\ \A i, j \in 1 .. n :
            q.ops[i].kind = "GroupBy" /\ q.ops[j].kind = "TableScan" => Aggregated(q.ops[i]) \cap q.produced[j] = {}
  BY <1>5 DEF Unasked, Fresh, Apart
<1> HIDE DEF n
<1>9. ASSUME NEW i \in 1 .. n + 1, i \notin 1 .. n PROVE i = n + 1
  BY <1>0, <1>9
<1>10. ScansFilled(t)
  <2>1. ASSUME NEW i \in 1 .. n + 1, t.ops[i].kind = "TableScan" PROVE t.produced[i] # {}
    <3>1. CASE i \in 1 .. n
      BY <1>1, <1>7, <2>1, <3>1
    <3>2. CASE i \notin 1 .. n
      BY <1>0, <1>6, <1>9, <2>1, <3>2
    <3> QED
      BY <3>1, <3>2
  <2> QED
    BY <1>0, <2>1 DEF ScansFilled
<1>11. Created(t)
  <2>1. ASSUME NEW i \in 1 .. n + 1
        PROVE  /\ t.ops[i].kind = "TableScan" =>
                     t.produced[i] \subseteq {iu \in 1 .. Len(t.iu_vec) : t.iu_vec[iu].iuType = "ColumnRef"}
               /\ t.ops[i].kind = "GroupBy" =>
                     Aggregated(t.ops[i]) \subseteq {iu \in 1 .. Len(t.iu_vec) : t.iu_vec[iu].iuType = "ValueRef"}
    <3>1. CASE i \in 1 .. n
      <4>1. \A iu \in 1 .. Len(q.iu_vec) : iu \in 1 .. Len(t.iu_vec) /\ t.iu_vec[iu] = q.iu_vec[iu]
        BY <1>0, <1>4
      <4>2. /\ t.ops[i].kind = q.ops[i].kind /\ Aggregated(t.ops[i]) = Aggregated(q.ops[i])
            /\ t.produced[i] = q.produced[i]
        BY <1>1, <3>1
      <4>3. t.ops[i].kind = "TableScan" =>
               t.produced[i] \subseteq {iu \in 1 .. Len(t.iu_vec) : t.iu_vec[iu].iuType = "ColumnRef"}
        <5> SUFFICES ASSUME t.ops[i].kind = "TableScan", NEW iu \in t.produced[i]
                     PROVE  iu \in 1 .. Len(t.iu_vec) /\ t.iu_vec[iu].iuType = "ColumnRef"
          OBVIOUS
        <5>1. q.ops[i].kind = "TableScan" /\ iu \in q.produced[i]
          BY <4>2
        <5>2. iu \in 1 .. Len(q.iu_vec) /\ q.iu_vec[iu].iuType = "ColumnRef"
          BY <1>7, <3>1, <5>1
        <5> QED
          BY <4>1, <5>2
      <4>4. t.ops[i].kind = "GroupBy" =>
               Aggregated(t.ops[i]) \subseteq {iu \in 1 .. Len(t.iu_vec) : t.iu_vec[iu].iuType = "ValueRef"}
        <5> SUFFICES ASSUME t.ops[i].kind = "GroupBy", NEW iu \in Aggregated(t.ops[i])
                     PROVE  iu \in 1 .. Len(t.iu_vec) /\ t.iu_vec[iu].iuType = "ValueRef"
          OBVIOUS
        <5>1. q.ops[i].kind = "GroupBy" /\ iu \in Aggregated(q.ops[i])
          BY <4>2
        <5>2. iu \in 1 .. Len(q.iu_vec) /\ q.iu_vec[iu].iuType = "ValueRef"
          BY <1>7, <3>1, <5>1
        <5> QED
          BY <4>1, <5>2
      <4> QED
        BY <4>3, <4>4
    <3>2. CASE i \notin 1 .. n
      <4>1. \A iu \in Len(q.iu_vec) + 1 .. Len(t.iu_vec) : iu \in 1 .. Len(t.iu_vec)
        BY <1>0, <1>4
      <4>2. t.ops[i] = op /\ t.produced[i] = columns
        BY <1>0, <1>9, <3>2
      <4> QED
        BY <1>6, <4>1, <4>2
    <3> QED
      BY <3>1, <3>2
  <2> QED
    BY <1>0, <2>1 DEF Created
<1>12. \A iu : ~(iu \in Len(q.iu_vec) + 1 .. Len(t.iu_vec) /\ iu \in 1 .. Len(q.iu_vec))
  BY <1>4
<1>13. Apart(t)
  <2>1. op.kind = "TableScan" => \A i \in 1 .. n : q.ops[i].kind = "TableScan" => columns \cap q.produced[i] = {}
    BY <1>6, <1>7, <1>12
  <2>2. op.kind = "GroupBy" => \A i \in 1 .. n : q.ops[i].kind = "TableScan" => Aggregated(op) \cap q.produced[i] = {}
    BY <1>6, <1>7, <1>12
  <2>3. op.kind = "TableScan" => \A i \in 1 .. n : q.ops[i].kind = "GroupBy" => Aggregated(q.ops[i]) \cap columns = {}
    BY <1>6, <1>7, <1>12
  <2>4. ASSUME NEW i \in 1 .. n + 1, NEW j \in 1 .. n + 1,
               t.ops[i].kind = "TableScan", t.ops[j].kind = "TableScan", i # j
        PROVE  t.produced[i] \cap t.produced[j] = {}
    <3>1. CASE i \in 1 .. n /\ j \in 1 .. n
      BY <1>1, <1>8, <2>4, <3>1
    <3>2. CASE i \in 1 .. n /\ j \notin 1 .. n
      <4>1. t.ops[j] = op /\ t.produced[j] = columns
        BY <1>0, <1>9, <3>2
      <4>2. t.produced[i] = q.produced[i] /\ q.ops[i].kind = "TableScan"
        BY <1>1, <2>4, <3>2
      <4> QED
        BY <2>1, <2>4, <3>2, <4>1, <4>2
    <3>3. CASE i \notin 1 .. n /\ j \in 1 .. n
      <4>1. t.ops[i] = op /\ t.produced[i] = columns
        BY <1>0, <1>9, <3>3
      <4>2. t.produced[j] = q.produced[j] /\ q.ops[j].kind = "TableScan"
        BY <1>1, <2>4, <3>3
      <4> QED
        BY <2>1, <2>4, <3>3, <4>1, <4>2
    <3>4. CASE i \notin 1 .. n /\ j \notin 1 .. n
      BY <1>9, <2>4, <3>4
    <3> QED
      BY <3>1, <3>2, <3>3, <3>4
  <2>5. ASSUME NEW i \in 1 .. n + 1, NEW j \in 1 .. n + 1,
               t.ops[i].kind = "GroupBy", t.ops[j].kind = "TableScan"
        PROVE  Aggregated(t.ops[i]) \cap t.produced[j] = {}
    <3>1. CASE i \in 1 .. n /\ j \in 1 .. n
      <4>1. /\ q.ops[i].kind = "GroupBy" /\ q.ops[j].kind = "TableScan"
            /\ Aggregated(t.ops[i]) = Aggregated(q.ops[i]) /\ t.produced[j] = q.produced[j]
        BY <1>1, <2>5, <3>1
      <4> QED
        BY <1>8, <3>1, <4>1
    <3>2. CASE i \in 1 .. n /\ j \notin 1 .. n
      <4>1. t.ops[j] = op /\ t.produced[j] = columns
        BY <1>0, <1>9, <3>2
      <4>2. Aggregated(t.ops[i]) = Aggregated(q.ops[i]) /\ q.ops[i].kind = "GroupBy"
        BY <1>1, <2>5, <3>2
      <4> QED
        BY <2>3, <2>5, <3>2, <4>1, <4>2
    <3>3. CASE i \notin 1 .. n /\ j \in 1 .. n
      <4>1. t.ops[i] = op
        BY <1>0, <1>9, <3>3
      <4>2. t.produced[j] = q.produced[j] /\ q.ops[j].kind = "TableScan"
        BY <1>1, <2>5, <3>3
      <4> QED
        BY <2>2, <2>5, <3>3, <4>1, <4>2
    <3>4. CASE i \notin 1 .. n /\ j \notin 1 .. n
      <4>1. i = j
        BY <1>9, <3>4
      <4> QED
        BY <2>5, <4>1
    <3> QED
      BY <3>1, <3>2, <3>3, <3>4
  <2> QED
    BY <1>0, <2>4, <2>5 DEF Apart
<1>14. Fresh(t)
  <2>1. ASSUME NEW i \in 1 .. n + 1
        PROVE  t.required[i] = {} /\ t.leftRequired[i] = {} /\ t.rightRequired[i] = {}
    BY <1>0, <1>1, <1>7, <1>9
  <2> QED
    BY <1>0, <1>8, <2>1 DEF Fresh
<1>15. Unasked(t)
  <2>1. t.producedUpToDate = {i \in 1 .. n + 1 : t.ops[i].kind = "TableScan"}
    <3>1. 1 .. n + 1 = (1 .. n) \cup {n + 1} /\ n + 1 \notin 1 .. n
      BY <1>0
    <3>2. {i \in 1 .. n : t.ops[i].kind = "TableScan"} = q.producedUpToDate
      BY <1>1, <1>8
    <3>3. {i \in 1 .. n + 1 : t.ops[i].kind = "TableScan"} =
             IF op.kind = "TableScan" THEN {i \in 1 .. n : t.ops[i].kind = "TableScan"} \cup {n + 1}
             ELSE {i \in 1 .. n : t.ops[i].kind = "TableScan"}
      BY <1>0, <3>1
    <3> QED
      BY <1>0, <3>2, <3>3
  <2>2. ASSUME NEW i \in 1 .. n + 1, t.ops[i].kind # "TableScan" PROVE t.produced[i] = {}
    <3>1. CASE i \in 1 .. n
      BY <1>1, <1>7, <2>2, <3>1
    <3>2. CASE i \notin 1 .. n
      <4>1. t.ops[i] = op /\ t.produced[i] = columns
        BY <1>0, <1>9, <3>2
      <4> QED
        BY <1>6, <2>2, <4>1
    <3> QED
      BY <3>1, <3>2
  <2> QED
    BY <1>0, <1>14, <2>1, <2>2 DEF Unasked
<1> QED
  BY <1>0, <1>2, <1>3, <1>10, <1>11, <1>13, <1>15 DEF Untouched

-----------------------------------------------------------------------------
(* The constructors *)

\* g is f, a function on the first n numbers, with one more value.
Appended(g, f, e, n, S) ==
    /\ g \in [1 .. n + 1 -> S]
    /\ \A i \in 1 .. n : g[i] = f[i]
    /\ g[n + 1] = e

\* Appending to a function on 1 .. n.
LEMMA AppendFunction ==
    ASSUME NEW n, NEW S, NEW f, NEW e, n \in Nat, f \in [1 .. n -> S], e \in S
    PROVE  Appended(Append(f, e), f, e, n, S)
<1>1. f \in Seq(S) /\ Len(f) = n
  BY FunctionIsSequence
<1>2. /\ Append(f, e) \in Seq(S) /\ Len(Append(f, e)) = n + 1
      /\ \A i \in 1 .. n : Append(f, e)[i] = f[i]
      /\ Append(f, e)[n + 1] = e
  BY <1>1, SeqAppend
<1> DEFINE g == Append(f, e)
<1>3. g \in Seq(S) /\ Len(g) = n + 1
  BY <1>2
<1> HIDE DEF g
<1>4. g \in [1 .. n + 1 -> S]
  BY <1>3
<1> QED
  BY <1>2, <1>4 DEF g, Appended

\* What the constructors of the operators do: t is q with operator op added.
Built(q, t, op, ius) ==
    /\ Typed(t) /\ Size(t) = Size(q) + 1
    /\ t.iu_vec = q.iu_vec
    /\ t.producedUpToDate = q.producedUpToDate /\ t.requiredUpToDate = q.requiredUpToDate
    /\ t.ops[Size(q) + 1] = op /\ t.ius[Size(q) + 1] = ius
    /\ t.produced[Size(q) + 1] = {} /\ t.required[Size(q) + 1] = {}
    /\ t.leftRequired[Size(q) + 1] = {} /\ t.rightRequired[Size(q) + 1] = {}
    /\ \A i \in 1 .. Size(q) :
          /\ t.ops[i] = IF \E k \in 1 .. arity(op) : op.children[k] = i
                        THEN [q.ops[i] EXCEPT !.parent = Size(q) + 1] ELSE q.ops[i]
          /\ t.ius[i] = q.ius[i] /\ t.produced[i] = q.produced[i] /\ t.required[i] = q.required[i]
          /\ t.leftRequired[i] = q.leftRequired[i] /\ t.rightRequired[i] = q.rightRequired[i]

\* What construct assigns.
LEMMA ConstructFields ==
    ASSUME NEW q, NEW op, NEW ius, NEW t, Typed(q), op \in AnyOperator, ius \in IUSets,
           t = construct(q, op, ius)
    PROVE  Built(q, t, op, ius)
<1> DEFINE n == Size(q)
           adopt(i) == IF i \in ToSet(op.children) THEN [q.ops[i] EXCEPT !.parent = n + 1] ELSE q.ops[i]
           adopted == [i \in DOMAIN q.ops |-> adopt(i)]
<1>1. /\ n \in Nat /\ q \in QueryType(n) /\ n = Len(q.ops)
      /\ q.ops \in Seq(AnyOperator) /\ DOMAIN q.ops = 1 .. n
      /\ \A i \in 1 .. n : q.ops[i] \in AnyOperator
  <2>1. n \in Nat /\ q \in QueryType(n) /\ n = Len(q.ops)
    BY DEF Typed, Size
  <2>2. q.ops \in Seq(AnyOperator)
    BY <2>1 DEF QueryType
  <2> QED
    BY <2>1, <2>2, SeqElements
<1>2. t = [q EXCEPT !.ops = Append(adopted, op), !.ius = Append(@, ius),
                    !.produced = Append(@, {}), !.required = Append(@, {}),
                    !.leftRequired = Append(@, {}), !.rightRequired = Append(@, {})]
  BY DEF construct, n, Size
<1>3. \A i : i \in ToSet(op.children) <=> \E k \in 1 .. arity(op) : op.children[k] = i
  <2>1. op.children \in Seq(Nat)
    BY DEF AnyOperator
  <2>2. DOMAIN op.children = 1 .. arity(op)
    BY <2>1, SeqElements DEF arity
  <2> QED
    BY <2>2 DEF ToSet
<1>4. \A i \in 1 .. n : adopt(i) \in AnyOperator
  <2> SUFFICES ASSUME NEW i \in 1 .. n PROVE adopt(i) \in AnyOperator
    OBVIOUS
  <2>1. q.ops[i] \in AnyOperator /\ n + 1 \in Nat
    BY <1>1
  <2> HIDE DEF n
  <2>2. [q.ops[i] EXCEPT !.parent = n + 1] \in AnyOperator
    BY <2>1 DEF AnyOperator
  <2> QED
    BY <2>1, <2>2
<1>5. adopted \in [1 .. n -> AnyOperator] /\ \A i \in 1 .. n : adopted[i] = adopt(i)
  BY <1>1, <1>4
<1>6. \A i \in 1 .. n : adopted[i] = IF \E k \in 1 .. arity(op) : op.children[k] = i
                                     THEN [q.ops[i] EXCEPT !.parent = n + 1] ELSE q.ops[i]
  BY <1>3, <1>5
<1> HIDE DEF adopted
<1>7. /\ Append(adopted, op) \in [1 .. n + 1 -> AnyOperator]
      /\ \A i \in 1 .. n : Append(adopted, op)[i] = adopted[i]
      /\ Append(adopted, op)[n + 1] = op
  <2>1. n \in Nat /\ adopted \in [1 .. n -> AnyOperator] /\ op \in AnyOperator
    BY <1>1, <1>5
  <2> HIDE DEF n
  <2>2. Appended(Append(adopted, op), adopted, op, n, AnyOperator)
    BY <2>1, AppendFunction, Zenon
  <2> QED
    BY <2>2 DEF Appended
<1>8. /\ q.ius \in [1 .. n -> IUSets] /\ q.produced \in [1 .. n -> IUSets] /\ q.required \in [1 .. n -> IUSets]
      /\ q.leftRequired \in [1 .. n -> IUSets] /\ q.rightRequired \in [1 .. n -> IUSets]
      /\ q.producedUpToDate \in SUBSET (1 .. n) /\ q.requiredUpToDate \in SUBSET (1 .. n)
      /\ q.iu_vec \in Seq(AnyIU)
  BY <1>1 DEF QueryType
<1>9. {} \in IUSets
  BY DEF IUSets
<1>10. /\ t.ops = Append(adopted, op) /\ t.ius = Append(q.ius, ius)
       /\ t.produced = Append(q.produced, {}) /\ t.required = Append(q.required, {})
       /\ t.leftRequired = Append(q.leftRequired, {}) /\ t.rightRequired = Append(q.rightRequired, {})
       /\ t.iu_vec = q.iu_vec
       /\ t.producedUpToDate = q.producedUpToDate /\ t.requiredUpToDate = q.requiredUpToDate
       /\ t = [ops |-> t.ops, iu_vec |-> t.iu_vec, ius |-> t.ius, produced |-> t.produced,
               producedUpToDate |-> t.producedUpToDate, required |-> t.required,
               requiredUpToDate |-> t.requiredUpToDate,
               leftRequired |-> t.leftRequired, rightRequired |-> t.rightRequired]
  BY <1>1, <1>2 DEF QueryType
<1> HIDE DEF n
<1>11. /\ t.ius \in [1 .. n + 1 -> IUSets] /\ \A i \in 1 .. n : t.ius[i] = q.ius[i]
       /\ t.ius[n + 1] = ius
  <2>1. n \in Nat /\ q.ius \in [1 .. n -> IUSets] /\ ius \in IUSets
    BY <1>1, <1>8, <1>9
  <2>2. Appended(Append(q.ius, ius), q.ius, ius, n, IUSets)
    BY <2>1, AppendFunction, Zenon
  <2> QED
    BY <1>10, <2>2 DEF Appended
<1>12. /\ t.produced \in [1 .. n + 1 -> IUSets] /\ \A i \in 1 .. n : t.produced[i] = q.produced[i]
       /\ t.produced[n + 1] = {}
  <2>1. n \in Nat /\ q.produced \in [1 .. n -> IUSets] /\ {} \in IUSets
    BY <1>1, <1>8, <1>9
  <2>2. Appended(Append(q.produced, {}), q.produced, {}, n, IUSets)
    BY <2>1, AppendFunction, Zenon
  <2> QED
    BY <1>10, <2>2 DEF Appended
<1>13. /\ t.required \in [1 .. n + 1 -> IUSets] /\ \A i \in 1 .. n : t.required[i] = q.required[i]
       /\ t.required[n + 1] = {}
  <2>1. n \in Nat /\ q.required \in [1 .. n -> IUSets] /\ {} \in IUSets
    BY <1>1, <1>8, <1>9
  <2>2. Appended(Append(q.required, {}), q.required, {}, n, IUSets)
    BY <2>1, AppendFunction, Zenon
  <2> QED
    BY <1>10, <2>2 DEF Appended
<1>14. /\ t.leftRequired \in [1 .. n + 1 -> IUSets] /\ \A i \in 1 .. n : t.leftRequired[i] = q.leftRequired[i]
       /\ t.leftRequired[n + 1] = {}
  <2>1. n \in Nat /\ q.leftRequired \in [1 .. n -> IUSets] /\ {} \in IUSets
    BY <1>1, <1>8, <1>9
  <2>2. Appended(Append(q.leftRequired, {}), q.leftRequired, {}, n, IUSets)
    BY <2>1, AppendFunction, Zenon
  <2> QED
    BY <1>10, <2>2 DEF Appended
<1>15. /\ t.rightRequired \in [1 .. n + 1 -> IUSets] /\ \A i \in 1 .. n : t.rightRequired[i] = q.rightRequired[i]
       /\ t.rightRequired[n + 1] = {}
  <2>1. n \in Nat /\ q.rightRequired \in [1 .. n -> IUSets] /\ {} \in IUSets
    BY <1>1, <1>8, <1>9
  <2>2. Appended(Append(q.rightRequired, {}), q.rightRequired, {}, n, IUSets)
    BY <2>1, AppendFunction, Zenon
  <2> QED
    BY <1>10, <2>2 DEF Appended
<1>16. t.ops \in Seq(AnyOperator) /\ Len(t.ops) = n + 1
  <2>1. n + 1 \in Nat /\ t.ops \in [1 .. n + 1 -> AnyOperator]
    BY <1>1, <1>7, <1>10
  <2> QED
    BY <2>1, FunctionIsSequence, Zenon
<1>17. t.producedUpToDate \in SUBSET (1 .. n + 1) /\ t.requiredUpToDate \in SUBSET (1 .. n + 1)
  <2>1. \A x \in 1 .. n : x \in 1 .. n + 1
    BY <1>1
  <2> QED
    BY <1>8, <1>10, <2>1
<1>18. t.iu_vec \in Seq(AnyIU)
  BY <1>8, <1>10
<1>19. t \in QueryType(n + 1)
  BY <1>10, <1>11, <1>12, <1>13, <1>14, <1>15, <1>16, <1>17, <1>18 DEF QueryType
<1>20. Typed(t) /\ Size(t) = n + 1
  BY <1>1, <1>16, <1>19 DEF Typed, Size
<1>21. /\ t.ops[n + 1] = op
       /\ \A i \in 1 .. n : t.ops[i] = IF \E k \in 1 .. arity(op) : op.children[k] = i
                                       THEN [q.ops[i] EXCEPT !.parent = n + 1] ELSE q.ops[i]
  BY <1>6, <1>7, <1>10
<1> QED
  BY <1>10, <1>11, <1>12, <1>13, <1>14, <1>15, <1>20, <1>21 DEF n, Built

-----------------------------------------------------------------------------
(* The inductive invariant *)

\* Until the statement's operator is added nothing else happens.
UnderConstruction ==
    root = 0 => /\ physical = NotTranslated /\ verified = {}
                /\ \A i \in 1 .. Size(query) : query.ops[i].kind \notin Statements

RootPlaced ==
    root # 0 => /\ root \in 1 .. Size(query)
                /\ query.ops[root].parent = 0 /\ query.ops[root].kind \in Statements

\* The verification fills the caches of the whole statement.
BeforeTranslation ==
    physical = NotTranslated =>
        /\ verified = {} => Untouched(query)
        /\ verified # {} => root # 0 /\ Ready(query, root) /\ ScansFilled(query)

\* The translated tree with the IUs that were moved out of its root put back.
Translation == Restored(query, root, physical.nodes[root].ius)

AfterTranslation ==
    Translated =>
        /\ root # 0 /\ Typed(query) /\ Plan(query.ops)
        /\ physical.nodes[root].ius \in IUSets
        /\ NodesOf(Translation, root, physical.nodes)
        /\ query.ops[root].kind # "Insert" => Ready(Translation, root)

AlgebraInv ==
    /\ UnderConstruction /\ RootPlaced /\ BeforeTranslation /\ AfterTranslation
    /\ ran => Translated
    /\ EveryLookupSucceeds
    /\ VerifierAcceptsUnaryPlans

-----------------------------------------------------------------------------
(* The construction *)

\* f is q with more IUs created.
Extends(q, f) ==
    /\ Typed(f)
    /\ f.ops = q.ops /\ f.ius = q.ius /\ f.produced = q.produced /\ f.producedUpToDate = q.producedUpToDate
    /\ f.required = q.required /\ f.requiredUpToDate = q.requiredUpToDate
    /\ f.leftRequired = q.leftRequired /\ f.rightRequired = q.rightRequired
    /\ Len(q.iu_vec) <= Len(f.iu_vec)
    /\ \A k \in 1 .. Len(q.iu_vec) : f.iu_vec[k] = q.iu_vec[k]

\* No IU need be created.
LEMMA ExtendsItself ==
    ASSUME NEW q, Typed(q)
    PROVE  Extends(q, q)
<1>1. q.iu_vec \in Seq(AnyIU)
  BY DEF Typed, QueryType
<1>2. Len(q.iu_vec) \in Nat
  BY <1>1, SeqElements
<1>3. Len(q.iu_vec) <= Len(q.iu_vec)
  BY <1>2
<1> QED
  BY <1>3 DEF Extends

\* t is q with an operator of this kind added.
Added(q, t, kind) ==
    /\ Untouched(t) /\ Size(t) = Size(q) + 1
    /\ t.ops[Size(q) + 1].kind = kind /\ t.ops[Size(q) + 1].parent = 0
    /\ \A i \in 1 .. Size(q) : t.ops[i].kind = q.ops[i].kind

\* An operator other than a scan is added to a tree that nothing was asked of.
LEMMA ConstructUntouched ==
    ASSUME NEW q, NEW f, NEW op, NEW ius, NEW t,
           Untouched(q), Extends(q, f), op \in AnyOperator, op.kind # "TableScan", FitsOn(q, op),
           ius \in IUSets, Names(q, f, op, ius, {}), t = construct(f, op, ius)
    PROVE  Added(q, t, op.kind)
<1>1. /\ Typed(q) /\ Plan(q.ops) /\ Typed(f) /\ Size(f) = Size(q)
      /\ f.ops = q.ops /\ f.ius = q.ius /\ f.produced = q.produced /\ f.producedUpToDate = q.producedUpToDate
      /\ f.required = q.required /\ f.requiredUpToDate = q.requiredUpToDate
      /\ f.leftRequired = q.leftRequired /\ f.rightRequired = q.rightRequired
      /\ Len(q.iu_vec) <= Len(f.iu_vec)
      /\ \A k \in 1 .. Len(q.iu_vec) : f.iu_vec[k] = q.iu_vec[k]
  BY DEF Untouched, Extends, Size
<1>2. Built(f, t, op, ius)
  BY <1>1, ConstructFields, Zenon
<1>3. Grown(q, t, op, ius, {})
  BY <1>1, <1>2 DEF Grown, Built
<1>4. Names(q, t, op, ius, {})
  BY <1>2 DEF Names, Built
<1>5. Untouched(t)
  BY <1>3, <1>4, GrownUntouched
<1>6. \A i \in 1 .. Size(q) : t.ops[i].kind = q.ops[i].kind
  BY <1>1, <1>3, GrownForest
<1>7. op.parent = 0
  BY DEF FitsOn
<1> QED
  BY <1>1, <1>2, <1>5, <1>6, <1>7 DEF Built, Added

\* What is offered are IUs.
LEMMA OfferedTyped ==
    ASSUME NEW q, Typed(q), Plan(q.ops), NEW i \in 1 .. Size(q)
    PROVE  Offered(q, i) \in IUSets
<1>1. q.ops \in Seq(AnyOperator) /\ q.produced \in [1 .. Size(q) -> IUSets] /\ Forest(q.ops) /\ Size(q) = Len(q.ops)
  BY DEF Typed, QueryType, Plan, Size
<1>2. q.ops[i] \in AnyOperator
  BY <1>1, SeqElements
<1>3. Aggregated(q.ops[i]) \in IUSets
  BY <1>2, AggregatedIUs
<1>4. Scans(q, i) \subseteq 1 .. Size(q)
  BY <1>1, TreeParts DEF Scans
<1>5. UNION {q.produced[j] : j \in Scans(q, i)} \in IUSets
  BY <1>1, <1>4 DEF IUSets
<1> QED
  BY <1>3, <1>5 DEF Offered, IUSets

\* What an analyser can name above an operator is what the operator offers.
LEMMA ScopeIsOffered ==
    ASSUME Untouched(query), NEW i \in 1 .. Size(query), query.ops[i].kind \in Streaming \cup {"GroupBy"}
    PROVE  Scope(i) = Offered(query, i) /\ Columns(i) \subseteq Offered(query, i)
<1>1. /\ Forest(query.ops) /\ Size(query) = Len(query.ops)
      /\ \A j \in 1 .. Size(query) : query.ops[j].kind # "TableScan" => query.produced[j] = {}
  BY DEF Untouched, Plan, Unasked, Size
<1>2. Tree(query.ops, i) \subseteq 1 .. Size(query)
  BY <1>1, TreeParts
<1>3. UNION {query.produced[j] : j \in Tree(query.ops, i)} = UNION {query.produced[j] : j \in Scans(query, i)}
  BY <1>1, <1>2 DEF Scans
<1>4. Scope(i) = Offered(query, i)
  BY <1>3 DEF Scope, Offered, Tree, Streaming
<1> QED
  BY <1>4 DEF Columns

\* Sequences of no, one or two elements.
LEMMA ShortSequences ==
    /\ \A T : <<>> \in Seq(T)
    /\ Len(<<>>) = 0 /\ DOMAIN <<>> = 1 .. 0 /\ \A k \in 1 .. 0 : FALSE
    /\ \A T : \A a \in T : <<a>> \in Seq(T)
    /\ \A a : Len(<<a>>) = 1 /\ DOMAIN <<a>> = 1 .. 1 /\ <<a>>[1] = a
    /\ \A T : \A a, b \in T : <<a, b>> \in Seq(T)
    /\ \A a, b : Len(<<a, b>>) = 2 /\ DOMAIN <<a, b>> = 1 .. 2 /\ <<a, b>>[1] = a /\ <<a, b>>[2] = b
    /\ \A k \in 1 .. 2 : k = 1 \/ k = 2
OBVIOUS

\* The parts of a new operator.
Made(op, kind, children, pairs, aggregations) ==
    /\ op \in AnyOperator
    /\ op.kind = kind /\ op.children = children /\ op.parent = 0 /\ op.pairs = pairs
    /\ op.aggregations = aggregations /\ arity(op) = Len(children)

\* A new operator is an operator.
LEMMA OperatorFields ==
    ASSUME NEW kind, NEW children, NEW table, NEW pairs, NEW aggregations,
           kind \in Streaming \cup Statements \cup {"GroupBy"}, children \in Seq(Nat), table \in Tables \cup {""},
           pairs \in Seq((Nat \X Nat) \cup IUSets), aggregations \in Seq([required : IUSets, produced : Nat])
    PROVE  Made(Operator(kind, children, table, pairs, aggregations), kind, children, pairs, aggregations)
  BY DEF Operator, AnyOperator, arity, Made

\* The operators that are not parts of another one yet, under construction.
LEMMA DanglingParts ==
    ASSUME Untouched(query), \A i \in 1 .. Size(query) : query.ops[i].kind \notin Statements,
           NEW child \in Dangling
    PROVE  /\ child \in 1 .. Size(query) /\ child \in Nat /\ query.ops[child].parent = 0
           /\ query.ops[child].kind \in Streaming \cup {"GroupBy"} /\ query.ops[child].kind \in Kinds
           /\ Scope(child) = Offered(query, child) /\ Columns(child) \subseteq Offered(query, child)
           /\ Offered(query, child) \in IUSets
<1>1. Forest(query.ops) /\ Size(query) = Len(query.ops) /\ Typed(query) /\ Plan(query.ops) /\ Size(query) \in Nat
  BY DEF Untouched, Plan, Size, Typed
<1>2. DOMAIN query.ops = 1 .. Size(query)
  BY <1>1 DEF Forest
<1>3. child \in 1 .. Size(query) /\ query.ops[child].parent = 0 /\ query.ops[child].kind \in Kinds
  BY <1>2 DEF Dangling, Ops, Kinds
<1>4. query.ops[child].kind \in Streaming \cup {"GroupBy"}
  BY <1>1, <1>3 DEF Forest
<1> QED
  BY <1>1, <1>3, <1>4, ScopeIsOffered, OfferedTyped

\* An operator with one child fits on an operator without a parent.
LEMMA FitsOnOne ==
    ASSUME NEW q, NEW op, NEW child, child \in 1 .. Size(q), q.ops[child].parent = 0,
           op.kind \in {"Select", "GroupBy", "Result", "Update", "Delete"}, op.parent = 0,
           op.children = <<child>>, arity(op) = 1,
           \/ q.ops[child].kind \in Streaming
           \/ op.kind = "Result" /\ q.ops[child].kind = "GroupBy"
    PROVE  FitsOn(q, op)
<1>1. DOMAIN op.children = 1 .. 1 /\ op.children[1] = child
  OBVIOUS
<1>2. \A k \in 1 .. 1 : k = 1
  OBVIOUS
<1>3. arity(op) = ArityOf(op.kind) /\ op.kind \in Streaming \cup Statements \cup {"GroupBy"}
  BY DEF ArityOf, Streaming, Statements
<1> QED
  BY <1>1, <1>2, <1>3 DEF FitsOn

Unstated == \A i \in 1 .. Size(query) : query.ops[i].kind \notin Statements

\* A selection or a statement over one operator.
LEMMA AddedOne ==
    ASSUME Untouched(query), Unstated, NEW child \in Dangling,
           NEW kind \in {"Select", "Result", "Update", "Delete"},
           kind = "Result" \/ query.ops[child].kind \in Streaming,
           NEW pairs \in Seq((Nat \X Nat) \cup IUSets),
           NEW ius, ius \subseteq Scope(child),
           NEW t, t = construct(query, Operator(kind, <<child>>, "", pairs, <<>>), ius)
    PROVE  Added(query, t, kind)
<1> DEFINE op == Operator(kind, <<child>>, "", pairs, <<>>)
<1>1. /\ child \in 1 .. Size(query) /\ child \in Nat /\ query.ops[child].parent = 0
      /\ query.ops[child].kind \in Streaming \cup {"GroupBy"}
      /\ Scope(child) = Offered(query, child)
      /\ Offered(query, child) \in IUSets
  BY DanglingParts DEF Unstated
<1>2. Made(op, kind, <<child>>, pairs, <<>>)
  <2>1. kind \in Streaming \cup Statements \cup {"GroupBy"} /\ "" \in Tables \cup {""}
    BY DEF Streaming, Statements
  <2>2. <<child>> \in Seq(Nat) /\ <<>> \in Seq([required : IUSets, produced : Nat])
    BY <1>1, ShortSequences, Zenon
  <2> QED
    BY <2>1, <2>2, OperatorFields, Zenon
<1>3. /\ op \in AnyOperator /\ op.kind = kind /\ op.children = <<child>> /\ op.parent = 0
      /\ arity(op) = 1 /\ op.children[1] = child
  BY <1>2, ShortSequences, Zenon DEF Made
<1>4. t = construct(query, op, ius)
  OBVIOUS
<1> HIDE DEF op
<1>5. FitsOn(query, op)
  BY <1>1, <1>3, FitsOnOne
<1>6. ius \in IUSets /\ ius \subseteq Offered(query, child)
  BY <1>1 DEF IUSets
<1>7. Names(query, query, op, ius, {})
  BY <1>3, <1>6 DEF Names
<1>8. op.kind # "TableScan" /\ Typed(query)
  BY <1>3 DEF Untouched
<1>9. Extends(query, query)
  BY <1>8, ExtendsItself
<1>10. Added(query, t, op.kind)
  BY <1>3, <1>4, <1>5, <1>6, <1>7, <1>8, <1>9, ConstructUntouched, Zenon
<1> QED
  BY <1>3, <1>10

\* An Insert, which has nothing below it.
LEMMA AddedInsert ==
    ASSUME Untouched(query), NEW table \in Tables,
           NEW t, t = construct(query, Operator("Insert", <<>>, table, <<>>, <<>>), {})
    PROVE  Added(query, t, "Insert")
<1> DEFINE op == Operator("Insert", <<>>, table, <<>>, <<>>)
<1>1. Made(op, "Insert", <<>>, <<>>, <<>>)
  <2>1. "Insert" \in Streaming \cup Statements \cup {"GroupBy"} /\ table \in Tables \cup {""}
    BY DEF Streaming, Statements
  <2>2. /\ <<>> \in Seq(Nat) /\ <<>> \in Seq((Nat \X Nat) \cup IUSets)
        /\ <<>> \in Seq([required : IUSets, produced : Nat])
    BY ShortSequences, Zenon
  <2> QED
    BY <2>1, <2>2, OperatorFields, Zenon
<1>2. /\ op \in AnyOperator /\ op.kind = "Insert" /\ op.parent = 0
      /\ arity(op) = 0 /\ DOMAIN op.children = 1 .. 0
  BY <1>1, ShortSequences, Zenon DEF Made
<1>3. t = construct(query, op, {})
  OBVIOUS
<1> HIDE DEF op
<1>4. FitsOn(query, op)
  <2>1. ArityOf("Insert") = 0 /\ "Insert" \in Statements
    BY DEF ArityOf, Statements
  <2>2. \A k \in 1 .. 0 : FALSE
    BY ShortSequences
  <2> QED
    BY <1>2, <2>1, <2>2 DEF FitsOn
<1>5. {} \in IUSets
  BY DEF IUSets
<1>6. Names(query, query, op, {}, {})
  BY <1>2 DEF Names
<1>7. op.kind # "TableScan" /\ Typed(query)
  BY <1>2 DEF Untouched
<1>8. Extends(query, query)
  BY <1>7, ExtendsItself
<1>9. Added(query, t, op.kind)
  BY <1>2, <1>3, <1>4, <1>5, <1>6, <1>7, <1>8, ConstructUntouched, Zenon
<1> QED
  BY <1>2, <1>9

\* Sequences of bounded length are sequences.
LEMMA SeqOfIsSeq ==
    ASSUME NEW S, NEW n, NEW s, n \in Nat, s \in SeqOf(S, n)
    PROVE  s \in Seq(S)
<1>1. PICK m \in 0 .. n : s \in [1 .. m -> S]
  BY DEF SeqOf
<1> QED
  BY <1>1

\* A join of two productions, each condition with an IU of either.
LEMMA AddedJoin ==
    ASSUME Untouched(query), Unstated, NEW left \in Dangling, NEW right \in Dangling, left # right,
           query.ops[left].kind \in Streaming, query.ops[right].kind \in Streaming,
           NEW pairs \in PairLists(left, right),
           NEW t, t = construct(query, Operator("Join", <<left, right>>, "", pairs, <<>>),
                                UNION {{p[1], p[2]} : p \in ToSet(pairs)})
    PROVE  Added(query, t, "Join")
<1> DEFINE op == Operator("Join", <<left, right>>, "", pairs, <<>>)
           ius == UNION {{p[1], p[2]} : p \in ToSet(pairs)}
           a == Offered(query, left)
           b == Offered(query, right)
           conditions == (Columns(left) \X Columns(right)) \cup (Columns(right) \X Columns(left))
<1>1. /\ left \in 1 .. Size(query) /\ left \in Nat /\ query.ops[left].parent = 0
      /\ right \in 1 .. Size(query) /\ right \in Nat /\ query.ops[right].parent = 0
      /\ Columns(left) \subseteq a /\ Columns(right) \subseteq b /\ a \in IUSets /\ b \in IUSets
  BY DanglingParts DEF Unstated
<1>2. pairs \in Seq(conditions)
  <2>1. pairs \in SeqOf(conditions, MaxPairs)
    BY DEF PairLists
  <2>2. MaxPairs \in {MaxColumnIUs, MaxSelects, MaxPairs, MaxSelection}
    OBVIOUS
  <2>3. MaxPairs \in Nat
    BY <2>2, AlgebraAssumption, Zenon
  <2> HIDE DEF conditions
  <2> QED
    BY <2>1, <2>3, SeqOfIsSeq, Zenon
<1>3. \A p \in conditions : /\ \/ p[1] \in a /\ p[2] \in b
                               \/ p[1] \in b /\ p[2] \in a
                            /\ p \in Nat \X Nat
  BY <1>1 DEF IUSets
<1> HIDE DEF conditions, a, b
<1>4. \A p \in ToSet(pairs) : /\ \/ p[1] \in a /\ p[2] \in b
                                 \/ p[1] \in b /\ p[2] \in a
                              /\ p \in Nat \X Nat
  <2>1. \A k \in DOMAIN pairs : pairs[k] \in conditions
    BY <1>2, SeqElements
  <2> QED
    BY <1>3, <2>1 DEF ToSet
<1>5. pairs \in Seq((Nat \X Nat) \cup IUSets)
  <2>1. conditions \subseteq (Nat \X Nat) \cup IUSets
    BY <1>3
  <2> QED
    BY <1>2, <2>1, SeqWiden
<1>6. ius \in IUSets
  BY <1>4 DEF IUSets
<1>7. Made(op, "Join", <<left, right>>, pairs, <<>>)
  <2>1. "Join" \in Streaming \cup Statements \cup {"GroupBy"} /\ "" \in Tables \cup {""}
    BY DEF Streaming, Statements
  <2>2. <<left, right>> \in Seq(Nat) /\ <<>> \in Seq([required : IUSets, produced : Nat])
    BY <1>1, ShortSequences, Zenon
  <2> QED
    BY <1>5, <2>1, <2>2, OperatorFields, Zenon
<1>8. /\ op \in AnyOperator /\ op.kind = "Join" /\ op.parent = 0 /\ op.pairs = pairs
      /\ arity(op) = 2 /\ DOMAIN op.children = 1 .. 2 /\ op.children[1] = left /\ op.children[2] = right
  <2>1. /\ op \in AnyOperator /\ op.kind = "Join" /\ op.parent = 0 /\ op.pairs = pairs
        /\ op.children = <<left, right>> /\ arity(op) = Len(<<left, right>>)
    BY <1>7 DEF Made
  <2>2. /\ Len(<<left, right>>) = 2 /\ DOMAIN <<left, right>> = 1 .. 2
        /\ <<left, right>>[1] = left /\ <<left, right>>[2] = right
    BY ShortSequences, Zenon
  <2> HIDE DEF op
  <2> QED
    BY <2>1, <2>2, Zenon
<1>9. t = construct(query, op, ius)
  OBVIOUS
<1> HIDE DEF op
<1>10. FitsOn(query, op)
  <2>1. ArityOf("Join") = 2 /\ "Join" \in Streaming
    BY DEF ArityOf, Streaming
  <2>2. \A k \in 1 .. 2 : k = 1 \/ k = 2
    BY ShortSequences
  <2> QED
    BY <1>1, <1>8, <2>1, <2>2 DEF FitsOn
<1>11. Names(query, query, op, ius, {})
  BY <1>4, <1>8 DEF Names, a, b
<1> HIDE DEF ius
<1>12. op.kind # "TableScan" /\ Typed(query)
  BY <1>8 DEF Untouched
<1>13. Extends(query, query)
  BY <1>12, ExtendsItself
<1>14. Added(query, t, op.kind)
  BY <1>6, <1>8, <1>9, <1>10, <1>11, <1>12, <1>13, ConstructUntouched, Zenon
<1> QED
  BY <1>8, <1>14

Joined(c, s, t, T) ==
    /\ c \in Seq(T) /\ Len(s) \in Nat /\ Len(t) \in Nat /\ Len(c) = Len(s) + Len(t)
    /\ \A k \in 1 .. Len(s) : c[k] = s[k]
    /\ \A k \in 1 .. Len(t) : c[Len(s) + k] = t[k]

\* One sequence after the other.
LEMMA ConcatJoined ==
    ASSUME NEW T, NEW s, NEW t, s \in Seq(T), t \in Seq(T)
    PROVE  Joined(s \o t, s, t, T)
BY ConcatBoth DEF Joined

\* f is q after IUFactory created m IUs.
Lengthened(q, f, m, more) ==
    /\ Extends(q, f)
    /\ Len(q.iu_vec) \in Nat /\ Len(f.iu_vec) = Len(q.iu_vec) + m
    /\ \A k \in 1 .. m : f.iu_vec[Len(q.iu_vec) + k] = more[k]

\* IUFactory numbers the IUs in the order they are created.
LEMMA MoreIUs ==
    ASSUME NEW q, NEW m, NEW more, NEW f, Typed(q), m \in Nat, more \in [1 .. m -> AnyIU],
           f = [q EXCEPT !.iu_vec = @ \o more]
    PROVE  Lengthened(q, f, m, more)
<1>1. more \in Seq(AnyIU) /\ Len(more) = m
  BY FunctionIsSequence, Zenon
<1>2. Size(q) \in Nat /\ q \in QueryType(Size(q)) /\ q.iu_vec \in Seq(AnyIU)
  BY DEF Typed, QueryType
<1>3. /\ f.iu_vec = q.iu_vec \o more
      /\ f.ops = q.ops /\ f.ius = q.ius /\ f.produced = q.produced /\ f.producedUpToDate = q.producedUpToDate
      /\ f.required = q.required /\ f.requiredUpToDate = q.requiredUpToDate
      /\ f.leftRequired = q.leftRequired /\ f.rightRequired = q.rightRequired
  BY <1>2 DEF QueryType
<1>4. /\ q.iu_vec \o more \in Seq(AnyIU)
      /\ Len(q.iu_vec) \in Nat
      /\ Len(q.iu_vec \o more) = Len(q.iu_vec) + m
      /\ \A k \in 1 .. Len(q.iu_vec) : (q.iu_vec \o more)[k] = q.iu_vec[k]
      /\ \A k \in 1 .. m : (q.iu_vec \o more)[Len(q.iu_vec) + k] = more[k]
  <2>1. /\ q.iu_vec \o more \in Seq(AnyIU)
        /\ Len(q.iu_vec) \in Nat
        /\ Len(q.iu_vec \o more) = Len(q.iu_vec) + Len(more)
        /\ \A k \in 1 .. Len(q.iu_vec) : (q.iu_vec \o more)[k] = q.iu_vec[k]
        /\ \A k \in 1 .. Len(more) : (q.iu_vec \o more)[Len(q.iu_vec) + k] = more[k]
    <3>1. Joined(q.iu_vec \o more, q.iu_vec, more, AnyIU)
      BY <1>1, <1>2, ConcatJoined, Zenon
    <3> QED
      BY <3>1 DEF Joined
  <2> QED
    BY <1>1, <2>1, Zenon
<1>5. f \in QueryType(Size(q)) /\ Size(f) = Size(q)
  BY <1>2, <1>3, <1>4 DEF QueryType, Size
<1>6. Typed(f)
  BY <1>2, <1>5 DEF Typed
<1>7. Len(q.iu_vec) <= Len(f.iu_vec)
  BY <1>3, <1>4
<1>8. Extends(q, f)
  BY <1>3, <1>4, <1>6, <1>7 DEF Extends
<1> QED
  BY <1>3, <1>4, <1>8 DEF Lengthened

\* A list of aggregators, which refer to IUs of the scope.
LEMMA FunctionListParts ==
    ASSUME NEW scope, NEW functions, functions \in FunctionLists(scope)
    PROVE  /\ functions \in Seq([required : SUBSET scope])
           /\ Len(functions) \in Nat /\ DOMAIN functions = 1 .. Len(functions)
<1>1. \A iu \in scope : Function({iu}) \in [required : SUBSET scope]
  BY DEF Function
<1>2. Function({}) \in [required : SUBSET scope] /\ Function(scope) \in [required : SUBSET scope]
  BY DEF Function
<1>3. functions \in Seq([required : SUBSET scope])
  <2>1. CASE functions \in {<<Function({iu}), Function({})>> : iu \in scope}
    <3>1. PICK iu \in scope : functions = <<Function({iu}), Function({})>>
      BY <2>1
    <3> QED
      BY <1>1, <1>2, <3>1, ShortSequences, Zenon
  <2>2. CASE functions \in {<<Function(scope)>>}
    <3>1. functions = <<Function(scope)>>
      BY <2>2
    <3> QED
      BY <1>2, <3>1, ShortSequences, Zenon
  <2> QED
    BY <2>1, <2>2 DEF FunctionLists
<1> QED
  BY <1>3, SeqElements

\* The k-th of m numbers after n.
LEMMA InBlock ==
    ASSUME NEW n \in Nat, NEW m \in Nat, NEW k \in 1 .. m
    PROVE  n + k \in n + 1 .. n + m
OBVIOUS

\* m aggregations, which produce the IUs after the first ones.
Numbered(aggregations, m, first) ==
    /\ aggregations \in [1 .. m -> [required : IUSets, produced : Nat]]
    /\ \A k \in 1 .. m : aggregations[k].produced = first + k
    /\ DOMAIN aggregations = 1 .. m

\* The aggregators of a GroupBy, which create one IU each.
LEMMA AggregationParts ==
    ASSUME NEW scope, NEW m, NEW functions, NEW first, NEW aggregations,
           scope \in IUSets, m \in Nat, first \in Nat, \A k \in 1 .. m : functions[k].required \subseteq scope,
           aggregations = [k \in 1 .. m |-> [required |-> functions[k].required, produced |-> first + k]]
    PROVE  Numbered(aggregations, m, first)
<1>1. \A k \in 1 .. m : functions[k].required \in IUSets
  BY DEF IUSets
<1>2. \A k \in 1 .. m : first + k \in Nat
  OBVIOUS
<1>3. \A k \in 1 .. m : aggregations[k] = [required |-> functions[k].required, produced |-> first + k]
  OBVIOUS
<1> QED
  BY <1>1, <1>2, <1>3 DEF Numbered

\* A GroupBy whose aggregators were asked for the IUs they produce.
LEMMA AddedGroupBy ==
    ASSUME Untouched(query), Unstated, NEW child \in Dangling, query.ops[child].kind # "GroupBy",
           NEW functions \in FunctionLists(Columns(child)),
           NEW f, f = [query EXCEPT !.iu_vec = @ \o [k \in DOMAIN functions |-> [iuType |-> "ValueRef"]]],
           NEW aggregations,
           aggregations = [k \in DOMAIN functions |-> [required |-> functions[k].required,
                                                       produced |-> Len(query.iu_vec) + k]],
           NEW t, t = construct(f, Operator("GroupBy", <<child>>, "", <<>>, aggregations),
                                UNION {g.required : g \in ToSet(functions)})
    PROVE  Added(query, t, "GroupBy")
<1> DEFINE op == Operator("GroupBy", <<child>>, "", <<>>, aggregations)
           ius == UNION {g.required : g \in ToSet(functions)}
           m == Len(functions)
           L == Len(query.iu_vec)
           more == [k \in 1 .. m |-> [iuType |-> "ValueRef"]]
           scope == Columns(child)
<1>1. /\ child \in 1 .. Size(query) /\ child \in Nat /\ query.ops[child].parent = 0
      /\ query.ops[child].kind \in Streaming
      /\ scope \subseteq Offered(query, child) /\ Offered(query, child) \in IUSets
  BY DanglingParts DEF Unstated
<1>2. /\ functions \in Seq([required : SUBSET scope])
      /\ m \in Nat /\ DOMAIN functions = 1 .. m
  BY FunctionListParts
<1>3. \A k \in 1 .. m : functions[k].required \subseteq scope
  <2> HIDE DEF scope
  <2>1. \A k \in 1 .. m : functions[k] \in [required : SUBSET scope]
    BY <1>2, SeqElements
  <2> QED
    BY <2>1
<1>4. /\ more \in [1 .. m -> AnyIU] /\ f = [query EXCEPT !.iu_vec = @ \o more]
      /\ \A k \in 1 .. m : more[k].iuType = "ValueRef"
  BY <1>2 DEF AnyIU
<1>5. /\ aggregations = [k \in 1 .. m |-> [required |-> functions[k].required, produced |-> L + k]]
      /\ op = Operator("GroupBy", <<child>>, "", <<>>, aggregations)
      /\ t = construct(f, op, ius)
  BY <1>2
<1>6. ius \subseteq scope
  BY <1>2, <1>3 DEF ToSet
<1> HIDE DEF m, more, scope, ius, op
<1>7. Typed(query)
  BY DEF Untouched
<1>8. /\ Extends(query, f) /\ Len(f.iu_vec) = L + m /\ L \in Nat
      /\ \A k \in 1 .. m : f.iu_vec[L + k] = more[k]
  <2>1. Lengthened(query, f, m, more)
    BY <1>2, <1>4, <1>7, MoreIUs, Zenon
  <2> QED
    BY <2>1 DEF Lengthened, L
<1> HIDE DEF L
<1>9. /\ aggregations \in [1 .. m -> [required : IUSets, produced : Nat]]
      /\ \A k \in 1 .. m : aggregations[k].produced = L + k
      /\ DOMAIN aggregations = 1 .. m
  <2>1. scope \in IUSets
    BY <1>1 DEF IUSets
  <2>2. Numbered(aggregations, m, L)
    BY <1>2, <1>3, <1>5, <1>8, <2>1, AggregationParts, Zenon
  <2> QED
    BY <2>2 DEF Numbered
<1>10. aggregations \in Seq([required : IUSets, produced : Nat])
  BY <1>2, <1>9, FunctionIsSequence, Zenon
<1>11. Made(op, "GroupBy", <<child>>, <<>>, aggregations)
  <2>1. "GroupBy" \in Streaming \cup Statements \cup {"GroupBy"} /\ "" \in Tables \cup {""}
    OBVIOUS
  <2>2. <<child>> \in Seq(Nat) /\ <<>> \in Seq((Nat \X Nat) \cup IUSets)
    BY <1>1, ShortSequences, Zenon
  <2> QED
    BY <1>5, <1>10, <2>1, <2>2, OperatorFields, Zenon
<1>12. /\ op \in AnyOperator /\ op.kind = "GroupBy" /\ op.children = <<child>> /\ op.parent = 0
       /\ op.aggregations = aggregations /\ arity(op) = 1 /\ op.children[1] = child
  BY <1>11, ShortSequences, Zenon DEF Made
<1>13. FitsOn(query, op)
  BY <1>1, <1>12, FitsOnOne
<1>14. Aggregated(op) \subseteq {iu \in L + 1 .. L + m : f.iu_vec[iu].iuType = "ValueRef"}
  <2> SUFFICES ASSUME NEW iu \in Aggregated(op)
               PROVE  iu \in L + 1 .. L + m /\ f.iu_vec[iu].iuType = "ValueRef"
    OBVIOUS
  <2>1. PICK k \in 1 .. m : iu = aggregations[k].produced
    BY <1>9, <1>12, ZenonT(60) DEF Aggregated
  <2>2. iu = L + k /\ f.iu_vec[iu] = more[k] /\ more[k].iuType = "ValueRef"
    BY <1>4, <1>8, <1>9, <2>1
  <2>3. iu \in L + 1 .. L + m
    BY <1>2, <1>8, <2>2, InBlock, Zenon
  <2> QED
    BY <2>2, <2>3
<1>15. ius \in IUSets /\ ius \subseteq Offered(query, child)
  BY <1>1, <1>6 DEF IUSets
<1>16. Names(query, f, op, ius, {})
  BY <1>8, <1>12, <1>14, <1>15 DEF Names, L
<1>17. op.kind # "TableScan"
  BY <1>12
<1>18. Added(query, t, op.kind)
  BY <1>5, <1>8, <1>12, <1>13, <1>15, <1>16, <1>17, ConstructUntouched, Zenon
<1> QED
  BY <1>12, <1>18

\* t is q after the columns of scan i were created.
Columned(q, t, i) ==
    /\ Typed(t) /\ Size(t) = Size(q)
    /\ t.ops = q.ops /\ t.ius = q.ius /\ t.producedUpToDate = q.producedUpToDate
    /\ t.required = q.required /\ t.requiredUpToDate = q.requiredUpToDate
    /\ t.leftRequired = q.leftRequired /\ t.rightRequired = q.rightRequired
    /\ \A j \in 1 .. Size(q) : j # i => t.produced[j] = q.produced[j]
    /\ t.produced[i] # {}
    /\ t.produced[i] \subseteq {iu \in Len(q.iu_vec) + 1 .. Len(t.iu_vec) : t.iu_vec[iu].iuType = "ColumnRef"}
    /\ Len(q.iu_vec) <= Len(t.iu_vec)
    /\ \A k \in 1 .. Len(q.iu_vec) : t.iu_vec[k] = q.iu_vec[k]

\* The columns of a table, with the tid.
LEMMA ColumnNames ==
    ASSUME NEW names, names \in Seq(STRING)
    PROVE  /\ names \o <<"tid">> \in Seq(STRING \cup {"tid"})
           /\ Len(names \o <<"tid">>) \in Nat \ {0}
<1>1. names \in Seq(STRING \cup {"tid"})
  BY SeqWiden
<1>2. /\ names \o <<"tid">> \in Seq(STRING \cup {"tid"})
      /\ Len(names) \in Nat
      /\ Len(names \o <<"tid">>) = Len(names) + 1
  BY <1>1, ConcatLast
<1> QED
  BY <1>2

\* A scan creates one IU for every column of its table.
LEMMA CreateColumns ==
    ASSUME NEW q, NEW i, Typed(q), i \in 1 .. Size(q), q.ops[i].table \in Tables
    PROVE  Columned(q, createColumnIUs(q, i), i)
<1> DEFINE t == createColumnIUs(q, i)
           names == columnNames(q.ops[i].table) \o <<"tid">>
           m == Len(names)
           L == Len(q.iu_vec)
           more == [k \in 1 .. m |-> [iuType |-> "ColumnRef", scanUID |-> i, column |-> names[k]]]
           cols == {L + k : k \in 1 .. m}
           f == [q EXCEPT !.iu_vec = @ \o more]
<1>1. names \in Seq(STRING \cup {"tid"}) /\ m \in Nat \ {0}
  <2>1. columnNames(q.ops[i].table) \in Seq(STRING)
    BY AlgebraAssumption, Zenon
  <2> QED
    BY <2>1, ColumnNames, Zenon
<1>2. DOMAIN names = 1 .. m /\ \A k \in 1 .. m : names[k] \in STRING \cup {"tid"}
  <2> HIDE DEF names
  <2> QED
    BY <1>1, SeqElements
<1>3. t = [q EXCEPT !.iu_vec = @ \o more, !.produced[i] = cols]
  BY <1>2 DEF createColumnIUs
<1> HIDE DEF t, names
<1>4. i \in Nat /\ Size(q) \in Nat /\ q \in QueryType(Size(q)) /\ m \in Nat
  BY <1>1 DEF Typed
<1>5. more \in [1 .. m -> AnyIU] /\ \A k \in 1 .. m : more[k].iuType = "ColumnRef"
  BY <1>2, <1>4 DEF AnyIU
<1> HIDE DEF m, more
<1>6. Lengthened(q, f, m, more)
  BY <1>4, <1>5, MoreIUs, Zenon
<1>7. f.iu_vec = q.iu_vec \o more
  BY <1>4 DEF QueryType
<1> HIDE DEF f
<1>8. /\ L \in Nat /\ Len(f.iu_vec) = L + m
      /\ \A k \in 1 .. m : f.iu_vec[L + k] = more[k]
      /\ Typed(f) /\ f.ops = q.ops
      /\ Len(q.iu_vec) <= Len(f.iu_vec)
      /\ \A k \in 1 .. Len(q.iu_vec) : f.iu_vec[k] = q.iu_vec[k]
  BY <1>6 DEF Lengthened, Extends
<1>9. f.iu_vec \in Seq(AnyIU)
  BY <1>8 DEF Typed, QueryType
<1>10. cols \in IUSets /\ cols # {}
  <2>1. \A k \in 1 .. m : L + k \in Nat
    BY <1>4, <1>8
  <2>2. L + 1 \in cols
    BY <1>1 DEF m
  <2> QED
    BY <2>1, <2>2 DEF IUSets
<1>11. ASSUME NEW iu \in cols PROVE iu \in L + 1 .. L + m /\ f.iu_vec[iu].iuType = "ColumnRef"
  <2>1. PICK k \in 1 .. m : iu = L + k
    OBVIOUS
  <2> HIDE DEF cols, L
  <2>2. iu \in L + 1 .. L + m
    BY <1>4, <1>8, <2>1, InBlock, Zenon
  <2> QED
    BY <1>5, <1>8, <2>1, <2>2
<1> HIDE DEF cols
<1>12. /\ t.iu_vec = f.iu_vec
       /\ t.ops = q.ops /\ t.ius = q.ius /\ t.producedUpToDate = q.producedUpToDate
       /\ t.required = q.required /\ t.requiredUpToDate = q.requiredUpToDate
       /\ t.leftRequired = q.leftRequired /\ t.rightRequired = q.rightRequired
       /\ t.produced = [q.produced EXCEPT ![i] = cols]
       /\ t = [ops |-> t.ops, iu_vec |-> t.iu_vec, ius |-> t.ius, produced |-> t.produced,
               producedUpToDate |-> t.producedUpToDate, required |-> t.required,
               requiredUpToDate |-> t.requiredUpToDate,
               leftRequired |-> t.leftRequired, rightRequired |-> t.rightRequired]
  BY <1>3, <1>4, <1>7 DEF QueryType
<1>13. q.produced \in [1 .. Size(q) -> IUSets]
  BY <1>4 DEF QueryType
<1>14. /\ t.produced \in [1 .. Size(q) -> IUSets]
       /\ t.produced[i] = cols
       /\ \A j \in 1 .. Size(q) : j # i => t.produced[j] = q.produced[j]
  BY <1>10, <1>12, <1>13
<1>15. t \in QueryType(Size(q)) /\ Size(t) = Size(q)
  BY <1>4, <1>9, <1>12, <1>14 DEF QueryType, Size
<1>16. Typed(t)
  BY <1>4, <1>15 DEF Typed
<1>17. t.produced[i] \subseteq {iu \in Len(q.iu_vec) + 1 .. Len(t.iu_vec) : t.iu_vec[iu].iuType = "ColumnRef"}
  BY <1>8, <1>11, <1>12, <1>14
<1>18. Columned(q, t, i)
  BY <1>8, <1>10, <1>12, <1>14, <1>15, <1>16, <1>17 DEF Columned
<1> QED
  BY <1>18 DEF t

\* Asking an operator that is alone in its tree visits that operator.
LEMMA UpdateAlone ==
    ASSUME NEW q, NEW i, Forest(q.ops), i \in 1 .. Len(q.ops), q.ops[i].parent = 0, arity(q.ops[i]) = 0
    PROVE  updateProducedSets(q, i) = visitProduced(q, i)
<1> DEFINE calls == postOrder(q.ops, getRoot(q.ops, i))
<1>1. i \in Tree(q.ops, i)
  BY TreeParts
<1>2. getRoot(q.ops, i) = i
  BY <1>1, RootOfTree
<1>3. calls = <<i>>
  BY <1>2, PostOrderUnfolds
<1>4. Len(calls) = 1 /\ calls[1] = i
  BY <1>3, ShortSequences, Zenon
<1>5. Len(calls) \in Nat
  BY <1>4
<1>6. calls = postOrder(q.ops, getRoot(q.ops, i))
  OBVIOUS
<1> HIDE DEF calls
<1>7. PICK after : /\ after[0] = q
                   /\ \A n \in 1 .. Len(calls) : after[n] = visitProduced(after[n - 1], calls[n])
                   /\ updateProducedSets(q, i) = after[Len(calls)]
  <2>1. PICK after : ProducedStates(q, i, calls, after)
    BY <1>5, <1>6, ProducedRun, Zenon
  <2> QED
    BY <2>1, Zenon DEF ProducedStates
<1>8. after[1] = visitProduced(after[1 - 1], calls[1]) /\ 1 - 1 = 0
  BY <1>4, <1>7
<1> QED
  BY <1>4, <1>7, <1>8

\* Marking an operator as up to date keeps the type.
LEMMA MarkedTyped ==
    ASSUME NEW q, NEW n, NEW i, q \in QueryType(n), i \in 1 .. n
    PROVE  [q EXCEPT !.producedUpToDate = @ \cup {i}] \in QueryType(n)
BY DEF QueryType

\* A scan, which is asked for its columns at once.
LEMMA AddedScan ==
    ASSUME Untouched(query), NEW table \in Tables,
           NEW t, t = getProduced(construct(query, Operator("TableScan", <<>>, table, <<>>, <<>>), {}), Len(query.ops) + 1)
    PROVE  Added(query, t, "TableScan")
<1> DEFINE op == Operator("TableScan", <<>>, table, <<>>, <<>>)
           s == construct(query, op, {})
           n == Size(query)
           c == createColumnIUs(s, n + 1)
           known == [s EXCEPT !.producedUpToDate = @ \cup {n + 1}]
<1>1. Made(op, "TableScan", <<>>, <<>>, <<>>)
  <2>1. "TableScan" \in Streaming \cup Statements \cup {"GroupBy"} /\ table \in Tables \cup {""}
    BY DEF Streaming
  <2>2. /\ <<>> \in Seq(Nat) /\ <<>> \in Seq((Nat \X Nat) \cup IUSets)
        /\ <<>> \in Seq([required : IUSets, produced : Nat])
    BY ShortSequences, Zenon
  <2> QED
    BY <2>1, <2>2, OperatorFields, Zenon
<1>2. op.table = table
  BY DEF Operator
<1>3. t = getProduced(s, n + 1)
  BY DEF Size
<1>4. s = construct(query, op, {}) /\ c = createColumnIUs(s, n + 1)
      /\ known = [s EXCEPT !.producedUpToDate = @ \cup {n + 1}]
  OBVIOUS
<1> HIDE DEF op, s, c, known
<1>5. /\ op \in AnyOperator /\ op.kind = "TableScan" /\ op.parent = 0
      /\ arity(op) = 0 /\ DOMAIN op.children = 1 .. 0
  BY <1>1, ShortSequences, Zenon DEF Made
<1>6. {} \in IUSets
  BY DEF IUSets
<1>7. Typed(query) /\ Plan(query.ops) /\ n \in Nat /\ query \in QueryType(n)
  BY DEF Untouched, Typed
<1>8. Built(query, s, op, {})
  BY <1>4, <1>5, <1>6, <1>7, ConstructFields, Zenon
<1> HIDE DEF n
<1>9. /\ Typed(s) /\ Size(s) = n + 1 /\ s.iu_vec = query.iu_vec
      /\ s.producedUpToDate = query.producedUpToDate /\ s.requiredUpToDate = query.requiredUpToDate
      /\ s.ops[n + 1] = op /\ s.ius[n + 1] = {}
      /\ s.produced[n + 1] = {} /\ s.required[n + 1] = {}
      /\ s.leftRequired[n + 1] = {} /\ s.rightRequired[n + 1] = {}
      /\ \A i \in 1 .. n :
            /\ s.ops[i] = IF \E k \in 1 .. arity(op) : op.children[k] = i
                          THEN [query.ops[i] EXCEPT !.parent = n + 1] ELSE query.ops[i]
            /\ s.ius[i] = query.ius[i] /\ s.produced[i] = query.produced[i] /\ s.required[i] = query.required[i]
            /\ s.leftRequired[i] = query.leftRequired[i] /\ s.rightRequired[i] = query.rightRequired[i]
  BY <1>8 DEF Built, n
<1>10. s \in QueryType(n + 1) /\ n + 1 \in 1 .. n + 1 /\ n + 1 \notin s.producedUpToDate
  <2>1. query.producedUpToDate \subseteq 1 .. n
    BY <1>7 DEF QueryType
  <2> QED
    BY <1>7, <1>9, <2>1 DEF Typed
<1>11. /\ known.ops = s.ops /\ known.ius = s.ius /\ known.iu_vec = s.iu_vec
       /\ known.produced = s.produced /\ known.producedUpToDate = s.producedUpToDate \cup {n + 1}
       /\ known.required = s.required /\ known.requiredUpToDate = s.requiredUpToDate
       /\ known.leftRequired = s.leftRequired /\ known.rightRequired = s.rightRequired
       /\ Typed(known) /\ Size(known) = n + 1
  <2>1. /\ known.ops = s.ops /\ known.ius = s.ius /\ known.iu_vec = s.iu_vec
        /\ known.produced = s.produced /\ known.producedUpToDate = s.producedUpToDate \cup {n + 1}
        /\ known.required = s.required /\ known.requiredUpToDate = s.requiredUpToDate
        /\ known.leftRequired = s.leftRequired /\ known.rightRequired = s.rightRequired
    BY <1>4, <1>10 DEF QueryType
  <2>2. known \in QueryType(n + 1)
    BY <1>4, <1>10 DEF QueryType
  <2>3. Size(known) = n + 1
    BY <1>9, <2>1 DEF Size
  <2> QED
    BY <1>7, <2>1, <2>2, <2>3 DEF Typed
<1>12. FitsOn(query, op)
  <2>1. ArityOf("TableScan") = 0 /\ "TableScan" \in Streaming
    BY DEF ArityOf, Streaming
  <2>2. \A k \in 1 .. 0 : FALSE
    BY ShortSequences
  <2> QED
    BY <1>5, <2>1, <2>2 DEF FitsOn
<1>13. Len(query.iu_vec) \in Nat
  <2>1. query.iu_vec \in Seq(AnyIU)
    BY <1>7 DEF QueryType
  <2> QED
    BY <2>1, SeqElements
<1>14. Grown(query, known, op, {}, {})
  <2>1. Len(query.iu_vec) <= Len(query.iu_vec)
    BY <1>13
  <2> QED
    BY <1>5, <1>9, <1>11, <2>1 DEF Grown, n
<1>15. Forest(s.ops) /\ Len(s.ops) = n + 1
  <2>1. Plan(known.ops)
    BY <1>7, <1>12, <1>14, GrownForest
  <2> QED
    BY <1>9, <1>11, <2>1 DEF Plan, Size
<1>16. updateProducedSets(s, n + 1) = visitProduced(s, n + 1)
  <2>1. n + 1 \in 1 .. Len(s.ops) /\ s.ops[n + 1].parent = 0 /\ arity(s.ops[n + 1]) = 0
    BY <1>5, <1>9, <1>10, <1>15
  <2> QED
    BY <1>15, <2>1, UpdateAlone, Zenon
<1>17. t = [c EXCEPT !.producedUpToDate = @ \cup {n + 1}]
  <2>1. computeProduced(s, n + 1) = c
    BY <1>4, <1>5, <1>9 DEF computeProduced, TableScanComputeProduced
  <2>2. t = updateProducedSets(s, n + 1)
    BY <1>3, <1>10 DEF getProduced
  <2> QED
    BY <1>16, <2>1, <2>2 DEF visitProduced
<1>18. Columned(s, c, n + 1)
  <2>1. n + 1 \in 1 .. Size(s) /\ s.ops[n + 1].table \in Tables
    BY <1>2, <1>9, <1>10
  <2> QED
    BY <1>4, <1>9, <2>1, CreateColumns, Zenon
<1>19. /\ Typed(c) /\ Size(c) = n + 1
       /\ c.ops = s.ops /\ c.ius = s.ius /\ c.producedUpToDate = s.producedUpToDate
       /\ c.required = s.required /\ c.requiredUpToDate = s.requiredUpToDate
       /\ c.leftRequired = s.leftRequired /\ c.rightRequired = s.rightRequired
       /\ \A j \in 1 .. n + 1 : j # n + 1 => c.produced[j] = s.produced[j]
       /\ c.produced[n + 1] # {}
       /\ c.produced[n + 1] \subseteq {iu \in Len(s.iu_vec) + 1 .. Len(c.iu_vec) : c.iu_vec[iu].iuType = "ColumnRef"}
       /\ Len(s.iu_vec) <= Len(c.iu_vec)
       /\ \A k \in 1 .. Len(s.iu_vec) : c.iu_vec[k] = s.iu_vec[k]
  BY <1>9, <1>18 DEF Columned
<1>20. c \in QueryType(n + 1)
  BY <1>19 DEF Typed
<1>21. /\ t.ops = c.ops /\ t.ius = c.ius /\ t.iu_vec = c.iu_vec
       /\ t.produced = c.produced /\ t.producedUpToDate = c.producedUpToDate \cup {n + 1}
       /\ t.required = c.required /\ t.requiredUpToDate = c.requiredUpToDate
       /\ t.leftRequired = c.leftRequired /\ t.rightRequired = c.rightRequired
       /\ t \in QueryType(n + 1)
  <2>1. /\ t.ops = c.ops /\ t.ius = c.ius /\ t.iu_vec = c.iu_vec
        /\ t.produced = c.produced /\ t.producedUpToDate = c.producedUpToDate \cup {n + 1}
        /\ t.required = c.required /\ t.requiredUpToDate = c.requiredUpToDate
        /\ t.leftRequired = c.leftRequired /\ t.rightRequired = c.rightRequired
    BY <1>17, <1>20 DEF QueryType
  <2>2. t \in QueryType(n + 1)
    <3>1. n + 1 \in 1 .. n + 1
      BY <1>10
    <3>2. [c EXCEPT !.producedUpToDate = @ \cup {n + 1}] \in QueryType(n + 1)
      BY <1>20, <3>1, MarkedTyped, Zenon
    <3> QED
      BY <1>17, <3>2, Zenon
  <2> QED
    BY <2>1, <2>2
<1>22. Typed(t) /\ Size(t) = n + 1
  BY <1>7, <1>19, <1>21 DEF Typed, Size
<1>23. Grown(query, t, op, {}, c.produced[n + 1])
  <2>1. \A i \in 1 .. n : i \in 1 .. n + 1 /\ i # n + 1
    BY <1>7
  <2>2. \A i \in 1 .. n : t.produced[i] = query.produced[i]
    <3> SUFFICES ASSUME NEW i \in 1 .. n PROVE t.produced[i] = query.produced[i]
      OBVIOUS
    <3>1. c.produced[i] = s.produced[i]
      BY <1>19, <2>1
    <3>2. s.produced[i] = query.produced[i]
      BY <1>9
    <3> QED
      BY <1>21, <3>1, <3>2
  <2> QED
    BY <1>5, <1>9, <1>19, <1>21, <1>22, <2>2 DEF Grown, n
<1>24. Names(query, t, op, {}, c.produced[n + 1])
  BY <1>5, <1>9, <1>19, <1>21 DEF Names
<1>25. Untouched(t)
  BY <1>12, <1>23, <1>24, GrownUntouched
<1>26. \A i \in 1 .. n : t.ops[i].kind = query.ops[i].kind
  BY <1>7, <1>12, <1>23, GrownForest DEF n
<1> QED
  BY <1>5, <1>9, <1>19, <1>21, <1>22, <1>25, <1>26 DEF Added, n

-----------------------------------------------------------------------------
(* Verification and translation *)

\* Operators name what is below them after caches were filled, too ...
LEMMA ScopedKept ==
    ASSUME NEW q, NEW s, Typed(q), Plan(q.ops), ScansFilled(q), Scoped(q), Keeps(q, s)
    PROVE  Scoped(s)
<1>1. /\ s.ops = q.ops /\ s.ius = q.ius /\ Size(s) = Size(q) /\ Forest(q.ops) /\ Size(q) = Len(q.ops)
      /\ \A j \in 1 .. Size(q) : Offered(s, j) = Offered(q, j)
  BY KeptFacts DEF Keeps, Plan, Size
<1>2. ASSUME NEW i \in 1 .. Size(q)
      PROVE  /\ arity(q.ops[i]) >= 1 => Offered(s, Left(q.ops, i)) = Offered(q, Left(q.ops, i))
             /\ arity(q.ops[i]) = 2 => Offered(s, Right(q.ops, i)) = Offered(q, Right(q.ops, i))
             /\ arity(q.ops[i]) = ArityOf(q.ops[i].kind)
  <2>1. /\ arity(q.ops[i]) >= 1 => Left(q.ops, i) \in 1 .. Size(q)
        /\ arity(q.ops[i]) = 2 => Right(q.ops, i) \in 1 .. Size(q)
    BY <1>1, Arities
  <2> QED
    BY <1>1, <2>1 DEF Forest
<1>3. ASSUME NEW i \in 1 .. Size(q)
      PROVE  /\ q.ops[i].kind \in {"Select", "GroupBy", "Result", "Update", "Delete", "Join"} =>
                   Offered(s, Left(q.ops, i)) = Offered(q, Left(q.ops, i))
             /\ q.ops[i].kind = "Join" => Offered(s, Right(q.ops, i)) = Offered(q, Right(q.ops, i))
  BY <1>2 DEF ArityOf
<1>4. ASSUME NEW i \in 1 .. Size(q)
      PROVE  /\ q.ops[i].kind \in {"TableScan", "Insert"} => q.ius[i] = {}
             /\ q.ops[i].kind \in {"Select", "GroupBy", "Result", "Update", "Delete"} =>
                   q.ius[i] \subseteq Offered(s, Left(q.ops, i))
             /\ q.ops[i].kind = "Join" =>
                   /\ q.ius[i] = UNION {{p[1], p[2]} : p \in ToSet(q.ops[i].pairs)}
                   /\ \A p \in ToSet(q.ops[i].pairs) :
                         \/ p[1] \in Offered(s, Left(q.ops, i)) /\ p[2] \in Offered(s, Right(q.ops, i))
                         \/ p[1] \in Offered(s, Right(q.ops, i)) /\ p[2] \in Offered(s, Left(q.ops, i))
                   /\ Offered(s, Left(q.ops, i)) \cap Offered(s, Right(q.ops, i)) = {}
  <2>1. /\ q.ops[i].kind \in {"TableScan", "Insert"} => q.ius[i] = {}
        /\ q.ops[i].kind \in {"Select", "GroupBy", "Result", "Update", "Delete"} =>
              q.ius[i] \subseteq Offered(q, Left(q.ops, i))
        /\ q.ops[i].kind = "Join" =>
              /\ q.ius[i] = UNION {{p[1], p[2]} : p \in ToSet(q.ops[i].pairs)}
              /\ \A p \in ToSet(q.ops[i].pairs) :
                    \/ p[1] \in Offered(q, Left(q.ops, i)) /\ p[2] \in Offered(q, Right(q.ops, i))
                    \/ p[1] \in Offered(q, Right(q.ops, i)) /\ p[2] \in Offered(q, Left(q.ops, i))
              /\ Offered(q, Left(q.ops, i)) \cap Offered(q, Right(q.ops, i)) = {}
    BY DEF Scoped
  <2>2. CASE q.ops[i].kind \in {"TableScan", "Insert"}
    BY <2>1, <2>2
  <2>3. CASE q.ops[i].kind \in {"Select", "GroupBy", "Result", "Update", "Delete"}
    BY <1>3, <2>1, <2>3
  <2>4. CASE q.ops[i].kind = "Join"
    BY <1>3, <2>1, <2>4
  <2> QED
    BY <2>2, <2>3, <2>4
<1> QED
  BY <1>1, <1>4 DEF Scoped

\* ... and create different IUs.
LEMMA ApartKept ==
    ASSUME NEW q, NEW s, Apart(q), Keeps(q, s)
    PROVE  Apart(s)
<1>1. s.ops = q.ops /\ Size(s) = Size(q)
      /\ \A j \in 1 .. Size(q) : q.ops[j].kind = "TableScan" => s.produced[j] = q.produced[j]
  BY DEF Keeps, Size
<1> QED
  BY <1>1 DEF Apart

\* The required IUs stay as they are when more operators know what they produce.
LEMMA FilledKept ==
    ASSUME NEW q, NEW s, NEW r, Typed(q), Plan(q.ops), ScansFilled(q), Keeps(q, s), OnlyProduced(q, s),
           r \in 1 .. Size(q), Filled(q, r)
    PROVE  Filled(s, r)
<1>1. /\ s.ops = q.ops /\ s.ius = q.ius /\ s.required = q.required /\ s.requiredUpToDate = q.requiredUpToDate
      /\ s.leftRequired = q.leftRequired /\ s.rightRequired = q.rightRequired
      /\ q.producedUpToDate \subseteq s.producedUpToDate
      /\ \A j \in 1 .. Size(q) : Offered(s, j) = Offered(q, j)
  BY KeptFacts DEF Keeps, OnlyProduced
<1>2. Tree(q.ops, r) \subseteq 1 .. Size(q)
  BY TreeParts DEF Plan, Size
<1>3. \A j \in Tree(q.ops, r) : ShouldRequire(s, j) = ShouldRequire(q, j)
  BY <1>1, <1>2 DEF ShouldRequire
<1> QED
  BY <1>1, <1>3 DEF Filled

\* A statement whose caches were filled in the order of its calls is ready.
LEMMA ReadyKept ==
    ASSUME NEW q, NEW s, NEW r, Untouched(q), Keeps(q, s), Filled(s, r),
           r \in 1 .. Size(q), q.ops[r].parent = 0, q.ops[r].kind \in Statements
    PROVE  Ready(s, r) /\ ScansFilled(s)
<1>1. Typed(q) /\ Plan(q.ops) /\ ScansFilled(q) /\ Scoped(q) /\ Apart(q)
  BY DEF Untouched
<1>2. Plan(s.ops) /\ ScansFilled(s) /\ CachesRight(s) /\ Size(s) = Size(q) /\ Typed(s) /\ s.ops = q.ops
  BY <1>1, KeptFacts DEF Keeps
<1> QED
  BY <1>1, <1>2, ScopedKept, ApartKept DEF Ready

\* Without a join no operator has a sibling.
LEMMA NoSiblings ==
    ASSUME NEW ops, Forest(ops), NEW r \in 1 .. Len(ops), ops[r].parent = 0,
           \A i \in Tree(ops, r) : ops[i].kind # "Join", NEW j \in Tree(ops, r)
    PROVE  ~HasSibling(ops, j)
<1> SUFFICES ASSUME HasSibling(ops, j) PROVE FALSE
  OBVIOUS
<1> DEFINE p == ops[j].parent
<1>1. p # 0 /\ arity(ops[p]) = 2
  BY DEF HasSibling
<1>2. p \in Tree(ops, r) /\ p \in 1 .. Len(ops)
  BY <1>1, TreeParts, TreeClosed
<1> HIDE DEF p
<1>3. arity(ops[p]) = ArityOf(ops[p].kind)
  BY <1>2 DEF Forest
<1>4. ArityOf(ops[p].kind) \in {0, 1}
  BY <1>2 DEF ArityOf
<1> QED
  BY <1>1, <1>3, <1>4

\* In a tree without a join an operator requires what its child produces.
LEMMA UnaryTests ==
    ASSUME NEW q, NEW r, Ready(q, r), \A i \in Tree(q.ops, r) : q.ops[i].kind # "Join",
           \A d \in Tree(q.ops, r) : d # r => d \in q.producedUpToDate,
           NEW i \in Tree(q.ops, r), NEW k \in DOMAIN q.ops[i].children
    PROVE  test(q, i, q.ops[i].children[k])
<1> DEFINE d == q.ops[i].children[k]
<1>1. Typed(q) /\ Plan(q.ops) /\ Scoped(q) /\ CachesRight(q) /\ Forest(q.ops) /\ r \in 1 .. Len(q.ops)
      /\ Size(q) = Len(q.ops) /\ r \in Nat
  BY DEF Ready, Plan, Size, Forest
<1>2. /\ i \in 1 .. Size(q) /\ i <= r /\ i \in Nat /\ arity(q.ops[i]) = ArityOf(q.ops[i].kind)
      /\ DOMAIN q.ops[i].children = 1 .. arity(q.ops[i])
      /\ q.ops[i].kind \in Streaming \cup Statements \cup {"GroupBy"}
  <2>1. i \in 1 .. r /\ i \in 1 .. Len(q.ops)
    BY <1>1, TreeParts
  <2> QED
    BY <1>1, <2>1 DEF Forest
<1>3. /\ arity(q.ops[i]) \in {0, 1}
      /\ q.ops[i].kind \in {"Select", "GroupBy", "Result", "Update", "Delete", "TableScan", "Insert"}
      /\ q.ops[i].kind \in Streaming => q.ops[i].kind \in {"Select", "TableScan"}
      /\ arity(q.ops[i]) = 1 => q.ops[i].kind \notin {"TableScan", "Insert"}
  BY <1>2 DEF ArityOf, Streaming, Statements
<1>4. k \in 1 .. arity(q.ops[i]) /\ k = 1 /\ arity(q.ops[i]) = 1
  BY <1>2, <1>3
<1>5. d = Left(q.ops, i)
  BY <1>4 DEF Left
<1>6. d \in Tree(q.ops, r) /\ d \in 1 .. Size(q) /\ d \in 1 .. i - 1
  BY <1>4, RequiredParts
<1> HIDE DEF d
<1>7. d # r
  BY <1>1, <1>2, <1>6
<1>8. q.produced[d] = Offered(q, d)
  BY <1>1, <1>6, <1>7 DEF CachesRight
<1>9. q.required[i] \subseteq Offered(q, d)
  <2>1. CASE q.ops[i].kind = "Select"
    <3>1. Offered(q, i) = Offered(q, d)
      BY <1>1, <1>2, <1>5, <2>1, OfferedParts
    <3>2. q.required[i] \subseteq Offered(q, i)
      BY <2>1, RequiredIsOffered DEF Streaming
    <3> QED
      BY <3>1, <3>2
  <2>2. CASE q.ops[i].kind # "Select"
    <3>1. q.ops[i].kind \notin Streaming /\ q.ops[i].kind \in {"Select", "GroupBy", "Result", "Update", "Delete"}
      BY <1>3, <1>4, <2>2
    <3>2. q.required[i] = q.ius[i]
      BY <3>1, RequiredParts
    <3>3. q.ius[i] \subseteq Offered(q, Left(q.ops, i))
      BY <1>1, <1>2, <3>1 DEF Scoped
    <3> QED
      BY <1>5, <3>2, <3>3
  <2> QED
    BY <2>1, <2>2
<1>10. test(q, i, d)
  BY <1>8, <1>9 DEF test
<1> QED
  BY <1>10 DEF d

\* A Result whose child is asked for its IUs after the required ones.
LEMMA VerificationFills ==
    ASSUME NEW first, NEW r, Untouched(first), r \in 1 .. Size(first), first.ops[r].parent = 0,
           first.ops[r].kind = "Result",
           NEW c, c = first.ops[r].children[1],
           NEW mid, mid = getRequired(first, r), NEW q, q = getProduced(mid, c)
    PROVE  /\ Keeps(first, q) /\ Ready(q, r) /\ ScansFilled(q)
           /\ (\A i \in Tree(first.ops, r) : first.ops[i].kind # "Join") =>
                 \A d \in Tree(first.ops, r) : d # r => d \in q.producedUpToDate
<1>1. /\ Typed(first) /\ Plan(first.ops) /\ ScansFilled(first) /\ Fresh(first) /\ CachesRight(first)
      /\ Forest(first.ops) /\ r \in 1 .. Len(first.ops) /\ Size(first) = Len(first.ops)
      /\ first.producedUpToDate = {i \in 1 .. Size(first) : first.ops[i].kind = "TableScan"}
  BY UntouchedCaches DEF Untouched, Unasked, Plan, Size
<1>2. r \in Tree(first.ops, r) /\ Tree(first.ops, r) \subseteq 1 .. Size(first)
  BY <1>1, TreeParts
<1>3. c \in Tree(first.ops, r) /\ arity(first.ops[r]) = 1
  <2>1. arity(first.ops[r]) = 1
    BY <1>1 DEF Forest, ArityOf
  <2> QED
    BY <1>1, <1>2, <2>1, TreeClosed
<1>4. /\ Keeps(first, mid) /\ Filled(mid, r)
      /\ (\A j \in Tree(first.ops, r) : ~HasSibling(first.ops, j)) =>
            mid.producedUpToDate = first.producedUpToDate
  BY <1>1, <1>2, GetRequired
<1>5. /\ Plan(mid.ops) /\ ScansFilled(mid) /\ CachesRight(mid) /\ Size(mid) = Size(first) /\ Typed(mid)
      /\ mid.ops = first.ops
  BY <1>1, <1>4, KeptFacts DEF Keeps
<1>6. /\ Keeps(mid, q) /\ OnlyProduced(mid, q) /\ c \in q.producedUpToDate
      /\ c \notin mid.producedUpToDate => Tree(first.ops, r) \subseteq q.producedUpToDate
  <2>1. r \in 1 .. Size(mid) /\ mid.ops[r].parent = 0 /\ c \in Tree(mid.ops, r)
    BY <1>3, <1>5
  <2> QED
    BY <1>5, <2>1, GetProduced
<1>7. Keeps(first, q)
  BY <1>4, <1>6, KeepsTrans
<1>8. Filled(q, r)
  BY <1>4, <1>5, <1>6, FilledKept
<1>9. Ready(q, r) /\ ScansFilled(q)
  BY <1>7, <1>8, ReadyKept DEF Statements
<1>10. ASSUME \A i \in Tree(first.ops, r) : first.ops[i].kind # "Join",
              NEW d \in Tree(first.ops, r), d # r
       PROVE  d \in q.producedUpToDate
  <2>1. CASE c \notin mid.producedUpToDate
    BY <1>6, <2>1
  <2>2. CASE c \in mid.producedUpToDate
    <3>1. \A j \in Tree(first.ops, r) : ~HasSibling(first.ops, j)
      BY <1>1, <1>10, NoSiblings
    <3>2. first.ops[c].kind = "TableScan" /\ c \in 1 .. Len(first.ops)
      BY <1>1, <1>4, <2>2, <3>1
    <3>3. arity(first.ops[c]) = 0
      BY <1>1, <3>2 DEF Forest, ArityOf
    <3>4. Tree(first.ops, c) = {c}
      BY <1>1, <3>2, <3>3, TreeParts
    <3>5. Tree(first.ops, r) = Tree(first.ops, c) \cup {r}
      BY <1>1, <1>3, TreeParts DEF Left
    <3> QED
      BY <1>6, <1>10, <3>4, <3>5
  <2> QED
    BY <2>1, <2>2
<1> QED
  BY <1>7, <1>9, <1>10

\* The verification of a Result: the caches are filled, and nothing is required
\* of an operator with one child but what the child produces.
LEMMA Verification ==
    ASSUME NEW first, NEW r, Untouched(first), r \in 1 .. Size(first), first.ops[r].parent = 0,
           first.ops[r].kind = "Result",
           NEW q, q = getProduced(getRequired(first, r), first.ops[r].children[1])
    PROVE  /\ Keeps(first, q) /\ Ready(q, r) /\ ScansFilled(q)
           /\ (\A i \in Tree(first.ops, r) : first.ops[i].kind # "Join") =>
                 \A i \in Tree(first.ops, r) : \A k \in DOMAIN q.ops[i].children : test(q, i, q.ops[i].children[k])
<1> DEFINE mid == getRequired(first, r)
           c == first.ops[r].children[1]
<1>1. q = getProduced(mid, c)
  OBVIOUS
<1>2. /\ Keeps(first, q) /\ Ready(q, r) /\ ScansFilled(q)
      /\ (\A i \in Tree(first.ops, r) : first.ops[i].kind # "Join") =>
            \A d \in Tree(first.ops, r) : d # r => d \in q.producedUpToDate
  BY <1>1, VerificationFills, Zenon
<1>3. q.ops = first.ops
  BY <1>2 DEF Keeps
<1> HIDE DEF mid, c
<1>4. ASSUME \A i \in Tree(first.ops, r) : first.ops[i].kind # "Join",
             NEW i \in Tree(first.ops, r), NEW k \in DOMAIN q.ops[i].children
      PROVE  test(q, i, q.ops[i].children[k])
  BY <1>2, <1>3, <1>4, UnaryTests
<1> QED
  BY <1>2, <1>4, Zenon

-----------------------------------------------------------------------------
(* The inductive invariant holds *)

\* A query without operators.
LEMMA InitInv == AlgebraInit => AlgebraInv
<1> SUFFICES ASSUME AlgebraInit PROVE AlgebraInv
  OBVIOUS
<1>1. /\ query.ops = <<>> /\ query.iu_vec = <<>> /\ query.ius = <<>>
      /\ query.produced = <<>> /\ query.producedUpToDate = {}
      /\ query.required = <<>> /\ query.requiredUpToDate = {}
      /\ query.leftRequired = <<>> /\ query.rightRequired = <<>>
      /\ root = 0 /\ physical = NotTranslated /\ ran = FALSE /\ verified = {}
  BY DEF AlgebraInit
<1>2. Size(query) = 0 /\ \A i \in 1 .. 0 : FALSE
  BY <1>1 DEF Size
<1>3. Untouched(query)
  <2>1. Typed(query)
    <3>1. \A T : <<>> \in [1 .. 0 -> T]
      OBVIOUS
    <3>2. <<>> \in Seq(AnyOperator) /\ <<>> \in Seq(AnyIU)
      BY ShortSequences
    <3>3. query \in QueryType(0)
      BY <1>1, <3>1, <3>2 DEF AlgebraInit, QueryType
    <3> QED
      BY <1>2, <3>3 DEF Typed
  <2>2. Plan(query.ops)
    BY <1>1, <1>2 DEF Plan, Forest
  <2>3. ScansFilled(query) /\ Scoped(query) /\ Apart(query) /\ Created(query)
    BY <1>2 DEF ScansFilled, Scoped, Apart, Created
  <2>4. Unasked(query)
    BY <1>1, <1>2 DEF Unasked, Fresh
  <2> QED
    BY <2>1, <2>2, <2>3, <2>4 DEF Untouched
<1>4. ~Translated
  BY <1>1 DEF Translated
<1> QED
  BY <1>1, <1>2, <1>3, <1>4 DEF AlgebraInv, UnderConstruction, RootPlaced, BeforeTranslation, AfterTranslation,
     EveryLookupSucceeds, VerifierAcceptsUnaryPlans

\* An operator is added while the tree is under construction.
LEMMA AddedKeepsInv ==
    ASSUME AlgebraInv, Building, NEW kind, Added(query, query', kind),
           \/ root' = root /\ kind \notin Statements
           \/ root' = Size(query) + 1 /\ kind \in Statements
    PROVE  AlgebraInv'
<1>1. /\ root = 0 /\ physical = NotTranslated /\ verified = {} /\ physical' = NotTranslated /\ verified' = {}
      /\ ran' = ran /\ Untouched(query) /\ \A i \in 1 .. Size(query) : query.ops[i].kind \notin Statements
  BY DEF AlgebraInv, UnderConstruction, BeforeTranslation, Building
<1>2. ~Translated /\ ~Translated'
  BY <1>1 DEF Translated
<1>3. ~ran /\ ~ran'
  BY <1>1, <1>2 DEF AlgebraInv
<1>4. /\ Untouched(query') /\ Size(query') = Size(query) + 1 /\ Size(query) \in Nat
      /\ query'.ops[Size(query) + 1].kind = kind /\ query'.ops[Size(query) + 1].parent = 0
      /\ \A i \in 1 .. Size(query) : query'.ops[i].kind = query.ops[i].kind
  BY <1>1 DEF Added, Untouched, Typed
<1>5. UnderConstruction'
  <2> SUFFICES ASSUME root' = 0, NEW i \in 1 .. Size(query') PROVE query'.ops[i].kind \notin Statements
    BY <1>1 DEF UnderConstruction
  <2>1. kind \notin Statements
    BY <1>1, <1>4
  <2>2. i \in 1 .. Size(query) \/ i = Size(query) + 1
    BY <1>4
  <2> QED
    BY <1>1, <1>4, <2>1, <2>2
<1>6. RootPlaced'
  BY <1>1, <1>4 DEF RootPlaced
<1> QED
  BY <1>1, <1>2, <1>3, <1>4, <1>5, <1>6 DEF AlgebraInv, BeforeTranslation, AfterTranslation,
     EveryLookupSucceeds, VerifierAcceptsUnaryPlans

\* Every operation of an analyser adds one operator.
LEMMA ConstructionKeepsInv ==
    ASSUME AlgebraInv, root = 0, Construction
    PROVE  AlgebraInv'
<1>1. /\ Untouched(query) /\ Unstated
      /\ Size(query) \in Nat /\ Ops = 1 .. Size(query) /\ Len(query.ops) + 1 = Size(query) + 1
  BY DEF AlgebraInv, UnderConstruction, BeforeTranslation, Unstated, Untouched, Typed, Plan, Forest, Size, Ops
<1>2. ASSUME NEW child \in Dangling
      PROVE  /\ child \in 1 .. Size(query) /\ query.ops[child].kind \in Streaming \cup {"GroupBy"}
             /\ query.ops[child].kind \in Kinds /\ Scope(child) \subseteq Scope(child)
             /\ Columns(child) \subseteq Scope(child)
  BY <1>1, DanglingParts DEF Unstated, Columns
<1>3. \A A, b : <<A>> \in Seq({A}) /\ <<>> \in Seq(b)
  OBVIOUS
<1>4. ASSUME NEW table \in Tables, newTableScan(table) PROVE AlgebraInv'
  <2>1. Building /\ root' = root
        /\ query' = getProduced(construct(query, Operator("TableScan", <<>>, table, <<>>, <<>>), {}), Len(query.ops) + 1)
    BY <1>4 DEF newTableScan
  <2>2. Added(query, query', "TableScan")
    BY <1>1, <2>1, AddedScan DEF Size
  <2>3. "TableScan" \notin Statements
    BY DEF Statements
  <2> QED
    BY <2>1, <2>2, <2>3, AddedKeepsInv
<1>5. ASSUME NEW table \in Tables, newInsert(table) PROVE AlgebraInv'
  <2>1. Building /\ root' = Size(query) + 1
        /\ query' = construct(query, Operator("Insert", <<>>, table, <<>>, <<>>), {})
    BY <1>5 DEF newInsert, newRoot, Size
  <2>2. Added(query, query', "Insert")
    BY <1>1, <2>1, AddedInsert
  <2>3. "Insert" \in Statements
    BY DEF Statements
  <2> QED
    BY <2>1, <2>2, <2>3, AddedKeepsInv
<1>6. ASSUME NEW child \in Dangling, NEW iu \in Columns(child), newSelect(child, iu) PROVE AlgebraInv'
  <2>0. Building /\ root' = root /\ Kinds \subseteq {"TableScan", "Select"}
    BY <1>6, Zenon DEF newSelect
  <2>1. query' = construct(query, Operator("Select", <<child>>, "", <<>>, <<>>), {iu})
    BY <1>6, Zenon DEF newSelect
  <2>2. query.ops[child].kind \in Streaming /\ {iu} \subseteq Scope(child)
    BY <1>2, <2>0 DEF Streaming
  <2>3. Added(query, query', "Select")
    BY <1>1, <1>3, <2>1, <2>2, AddedOne, Zenon
  <2>4. "Select" \notin Statements
    BY DEF Statements
  <2> QED
    BY <2>0, <2>3, <2>4, AddedKeepsInv
<1>7. ASSUME NEW child \in Dangling, NEW functions \in FunctionLists(Columns(child)), newGroupBy(child, functions)
      PROVE  AlgebraInv'
  <2> DEFINE f == [query EXCEPT !.iu_vec = @ \o [k \in DOMAIN functions |-> [iuType |-> "ValueRef"]]]
             aggregations == [k \in DOMAIN functions |-> [required |-> functions[k].required,
                                                          produced |-> Len(query.iu_vec) + k]]
  <2>0. Building /\ root' = root /\ query.ops[child].kind # "GroupBy"
    BY <1>7, Zenon DEF newGroupBy
  <2>1. query' = construct(f, Operator("GroupBy", <<child>>, "", <<>>, aggregations),
                            UNION {g.required : g \in ToSet(functions)})
    BY <1>7, Zenon DEF newGroupBy
  <2>2. Added(query, query', "GroupBy")
    BY <1>1, <2>0, <2>1, AddedGroupBy, Zenon
  <2>3. "GroupBy" \notin Statements
    BY DEF Statements
  <2> HIDE DEF f, aggregations
  <2> QED
    BY <2>0, <2>2, <2>3, AddedKeepsInv
<1>8. ASSUME NEW child \in Dangling, NEW selection \in Selections(child), newResult(child, selection)
      PROVE  AlgebraInv'
  <2>0. Building /\ root' = Size(query) + 1
    BY <1>8, Zenon DEF newResult, newRoot, Size
  <2>1. query' = construct(query, Operator("Result", <<child>>, "", <<>>, <<>>), selection)
    BY <1>8, Zenon DEF newResult, newRoot, Size
  <2>2. selection \subseteq Scope(child)
    BY <1>2 DEF Selections
  <2>3. Added(query, query', "Result")
    BY <1>1, <1>3, <2>1, <2>2, AddedOne, Zenon
  <2>4. "Result" \in Statements
    BY DEF Statements
  <2> QED
    BY <2>0, <2>3, <2>4, AddedKeepsInv
<1>9. ASSUME NEW child \in Dangling, NEW updated \in SUBSET Columns(child), newUpdate(child, updated)
      PROVE  AlgebraInv'
  <2>0. Building /\ root' = Size(query) + 1 /\ SingleTable(child)
    BY <1>9, Zenon DEF newUpdate, newRoot, Size
  <2>1. query' = construct(query, Operator("Update", <<child>>, "", <<updated>>, <<>>), Scope(child))
    BY <1>9, Zenon DEF newUpdate, newRoot, Size
  <2>2. query.ops[child].kind \in Streaming
    BY <2>0 DEF SingleTable, Streaming
  <2>3. <<updated>> \in Seq((Nat \X Nat) \cup IUSets)
    <3>1. Scope(child) \in IUSets
      BY <1>1, DanglingParts DEF Unstated
    <3>2. updated \in (Nat \X Nat) \cup IUSets
      BY <1>2, <3>1 DEF IUSets
    <3> QED
      BY <3>2, ShortSequences, Zenon
  <2>4. Added(query, query', "Update")
    BY <1>1, <1>2, <2>1, <2>2, <2>3, AddedOne, Zenon
  <2>5. "Update" \in Statements
    BY DEF Statements
  <2> QED
    BY <2>0, <2>4, <2>5, AddedKeepsInv
<1>10. ASSUME NEW child \in Dangling, NEW tid \in Scope(child) \ Columns(child), newDelete(child, tid)
       PROVE  AlgebraInv'
  <2>0. Building /\ root' = Size(query) + 1 /\ SingleTable(child)
    BY <1>10, Zenon DEF newDelete, newRoot, Size
  <2>1. query' = construct(query, Operator("Delete", <<child>>, "", <<>>, <<>>), {tid})
    BY <1>10, Zenon DEF newDelete, newRoot, Size
  <2>2. query.ops[child].kind \in Streaming /\ {tid} \subseteq Scope(child)
    BY <2>0 DEF SingleTable, Streaming
  <2>3. Added(query, query', "Delete")
    BY <1>1, <1>3, <2>1, <2>2, AddedOne, Zenon
  <2>4. "Delete" \in Statements
    BY DEF Statements
  <2> QED
    BY <2>0, <2>3, <2>4, AddedKeepsInv
<1>11. ASSUME NEW child \in Dangling, NEW right \in Dangling \ {child}, NEW pairs \in PairLists(child, right),
              newJoin(child, right, pairs)
       PROVE  AlgebraInv'
  <2>0. Building /\ root' = root /\ "GroupBy" \notin Kinds
    BY <1>11, Zenon DEF newJoin
  <2>1. query' = construct(query, Operator("Join", <<child, right>>, "", pairs, <<>>),
                            UNION {{p[1], p[2]} : p \in ToSet(pairs)})
    BY <1>11, Zenon DEF newJoin
  <2>2. child # right /\ right \in Dangling
    OBVIOUS
  <2>3. query.ops[child].kind \in Streaming /\ query.ops[right].kind \in Streaming
    BY <1>2, <2>0, <2>2
  <2>4. Added(query, query', "Join")
    BY <1>1, <2>1, <2>2, <2>3, AddedJoin, Zenon
  <2>5. "Join" \notin Statements
    BY DEF Statements
  <2> QED
    BY <2>0, <2>4, <2>5, AddedKeepsInv
<1> QED
  BY <1>4, <1>5, <1>6, <1>7, <1>8, <1>9, <1>10, <1>11, Zenon DEF Construction

\* The verification fills caches and changes nothing else.
LEMMA VerifyKeepsInv ==
    ASSUME AlgebraInv, verifyDependencies
    PROVE  AlgebraInv'
<1>1. /\ root # 0 /\ query.ops[root].kind = "Result" /\ physical = NotTranslated /\ verified = {}
      /\ root' = root /\ physical' = physical /\ ran' = ran
      /\ query' = getProduced(getRequired(query, root), query.ops[root].children[1])
      /\ verified' = {\A i \in Tree(query'.ops, root) :
                         \A k \in DOMAIN query'.ops[i].children : test(query', i, query'.ops[i].children[k])}
  BY SMTT(30) DEF verifyDependencies, Tree
<1>2. Untouched(query) /\ root \in 1 .. Size(query) /\ query.ops[root].parent = 0
  BY <1>1, SMTT(30) DEF AlgebraInv, BeforeTranslation, RootPlaced
<1>3. /\ Keeps(query, query') /\ Ready(query', root) /\ ScansFilled(query')
      /\ (\A i \in Tree(query.ops, root) : query.ops[i].kind # "Join") =>
            \A i \in Tree(query.ops, root) :
               \A k \in DOMAIN query'.ops[i].children : test(query', i, query'.ops[i].children[k])
  BY <1>1, <1>2, Verification
<1>4. query'.ops = query.ops /\ Size(query') = Size(query)
  BY <1>3 DEF Keeps, Size
<1>5. ~Translated /\ ~Translated' /\ ~ran /\ ~ran'
  BY <1>1 DEF AlgebraInv, Translated
<1>6. VerifierAcceptsUnaryPlans'
  <2> SUFFICES ASSUME FALSE \in verified'
               PROVE  \E i \in Tree(query.ops, root) : query.ops[i].kind = "Join"
    BY <1>1, <1>4 DEF VerifierAcceptsUnaryPlans, Tree
  <2> QED
    BY <1>1, <1>3, <1>4
<1>7. verified' # {}
  <2>1. \A x : {x} # {}
    BY Zenon
  <2> QED
    BY <1>1, <2>1, Zenon
<1>8. BeforeTranslation'
  BY <1>1, <1>3, <1>7, ZenonT(60) DEF BeforeTranslation
<1>9. UnderConstruction' /\ RootPlaced'
  BY <1>1, <1>2, <1>4 DEF UnderConstruction, RootPlaced, AlgebraInv
<1> QED
  BY <1>5, <1>6, <1>8, <1>9 DEF AlgebraInv, AfterTranslation, EveryLookupSucceeds

\* The operators are not touched when IUs are put back.
LEMMA RestoredOps ==
    ASSUME NEW q, Typed(q), NEW r, NEW ius
    PROVE  Restored(q, r, ius).ops = q.ops
<1>1. q \in QueryType(Size(q))
  BY DEF Typed
<1> QED
  BY <1>1 DEF QueryType, Restored

\* A physical tree is neither of the two values that stand for none.
LEMMA PhysicalTrees ==
    /\ NotTranslated # AssertFailed
    /\ \A r, nodes : LET tree == [root |-> r, nodes |-> nodes]
                     IN  tree.nodes = nodes /\ (r # 0 => tree # NotTranslated /\ tree # AssertFailed)
<1>1. NotTranslated # AssertFailed
  <2>1. "assert" \in DOMAIN AssertFailed
    BY DEF AssertFailed
  <2>2. "assert" \notin DOMAIN NotTranslated
    BY DEF NotTranslated
  <2> QED
    BY <2>1, <2>2
<1>2. ASSUME NEW r, NEW nodes, r # 0
      PROVE  [root |-> r, nodes |-> nodes] # NotTranslated /\ [root |-> r, nodes |-> nodes] # AssertFailed
  <2>1. [root |-> r, nodes |-> nodes].root = r /\ NotTranslated.root = 0 /\ AssertFailed.root = 0
    BY DEF NotTranslated, AssertFailed
  <2> QED
    BY <1>2, <2>1
<1> QED
  BY <1>1, <1>2

\* Putting IUs back changes nothing else.
LEMMA RestoredAlike ==
    ASSUME NEW q, Typed(q), NEW r \in 1 .. Size(q), NEW ius \in IUSets
    PROVE  Alike(Restored(q, r, ius), q)
<1> DEFINE s == Restored(q, r, ius)
<1>1. /\ s.ops = q.ops /\ s.iu_vec = q.iu_vec
      /\ s.produced = q.produced /\ s.producedUpToDate = q.producedUpToDate
      /\ s.required = q.required /\ s.requiredUpToDate = q.requiredUpToDate
      /\ s.leftRequired = q.leftRequired /\ s.rightRequired = q.rightRequired
  BY RestoredFields, ZenonT(60)
<1> HIDE DEF s
<1>2. Alike(s, q)
  BY <1>1 DEF Alike
<1> QED
  BY <1>2 DEF s

\* What the translation leaves behind.
LEMMA Traversed ==
    ASSUME NEW q, NEW r, Typed(q), Plan(q.ops), ScansFilled(q), Scoped(q), Apart(q), CachesRight(q),
           r \in 1 .. Size(q), q.ops[r].parent = 0, q.ops[r].kind \in Statements, Fresh(q) \/ Filled(q, r),
           NEW t, t = traverse(q, r), NEW s, s = Restored(t.q, r, q.ius[r])
    PROVE  /\ Typed(t.q) /\ t.q.ops = q.ops /\ Last(t.stack) = r
           /\ t.nodes[r].ius = q.ius[r] /\ q.ius[r] \in IUSets
           /\ NodesOf(s, r, t.nodes)
           /\ q.ops[r].kind # "Insert" => Ready(s, r)
<1>1. /\ Typed(t.q) /\ Keeps(q, s) /\ (q.ops[r].kind # "Insert" => Filled(s, r))
      /\ NodesOf(q, r, t.nodes) /\ Last(t.stack) = r
  BY Traverse
<1>2. /\ s.ops = q.ops /\ s.ius = q.ius /\ Size(s) = Size(q) /\ Typed(s) /\ Plan(s.ops) /\ CachesRight(s)
  BY <1>1, KeptFacts DEF Keeps
<1>3. t.q.ops = q.ops
  <2>1. s.ops = t.q.ops
    BY <1>1, RestoredOps, ZenonT(60)
  <2> QED
    BY <1>2, <2>1
<1>4. Scoped(s) /\ Apart(s)
  BY <1>1, ScopedKept, ApartKept
<1>5. r \in Tree(q.ops, r)
  BY TreeParts DEF Plan, Size
<1>6. t.nodes[r].ius = q.ius[r] /\ NodesOf(s, r, t.nodes)
  BY <1>1, <1>2, <1>5 DEF NodesOf
<1>7. q.ius[r] \in IUSets
  BY DEF Typed, QueryType
<1> QED
  BY <1>1, <1>2, <1>3, <1>4, <1>6, <1>7 DEF Ready

\* The translation of a statement, verified or not.
LEMMA TranslateKeepsInv ==
    ASSUME AlgebraInv, translateToPhysicalTree
    PROVE  AlgebraInv'
<1> DEFINE t == traverse(query, root)
           s == Restored(t.q, root, query.ius[root])
<1>1. /\ root # 0 /\ physical = NotTranslated /\ query' = t.q
      /\ root' = root /\ ran' = ran /\ verified' = verified
      /\ \/ physical' = AssertFailed
         \/ physical' = [root |-> Last(t.stack), nodes |-> t.nodes]
  BY DEF translateToPhysicalTree
<1>2. root \in 1 .. Size(query) /\ query.ops[root].parent = 0 /\ query.ops[root].kind \in Statements
  BY <1>1 DEF AlgebraInv, RootPlaced
<1>3. /\ Typed(query) /\ Plan(query.ops) /\ ScansFilled(query) /\ Scoped(query) /\ Apart(query)
      /\ CachesRight(query) /\ (Fresh(query) \/ Filled(query, root))
  <2>1. CASE verified = {}
    <3>1. Untouched(query)
      BY <1>1, <2>1 DEF AlgebraInv, BeforeTranslation
    <3> QED
      BY <3>1, UntouchedCaches DEF Untouched, Unasked
  <2>2. CASE verified # {}
    <3>1. Ready(query, root) /\ ScansFilled(query)
      BY <1>1, <2>2 DEF AlgebraInv, BeforeTranslation
    <3> QED
      BY <3>1 DEF Ready
  <2> QED
    BY <2>1, <2>2
<1> HIDE DEF t
<1>4. /\ Typed(t.q) /\ t.q.ops = query.ops /\ Last(t.stack) = root
      /\ t.nodes[root].ius = query.ius[root] /\ query.ius[root] \in IUSets
      /\ NodesOf(s, root, t.nodes)
      /\ query.ops[root].kind # "Insert" => Ready(s, root)
  BY <1>2, <1>3, Traversed DEF t
<1>5. ~Translated /\ ~ran /\ ~ran'
  BY <1>1 DEF AlgebraInv, Translated
<1>6. physical' # NotTranslated
  BY <1>1, <1>4, PhysicalTrees
<1>7. AfterTranslation'
  <2> SUFFICES ASSUME Translated' PROVE AfterTranslation'
    BY DEF AfterTranslation
  <2>1. physical' = [root |-> Last(t.stack), nodes |-> t.nodes]
    BY <1>1 DEF Translated
  <2>2. physical'.nodes = t.nodes
    BY <2>1
  <2>3. Translation' = s
    BY <1>1, <1>4, <2>2 DEF Translation
  <2> HIDE DEF s
  <2> QED
    BY <1>1, <1>3, <1>4, <2>2, <2>3 DEF AfterTranslation
<1>8. UnderConstruction' /\ RootPlaced' /\ BeforeTranslation'
  BY <1>1, <1>2, <1>4, <1>6 DEF UnderConstruction, RootPlaced, BeforeTranslation, Size
<1>9. VerifierAcceptsUnaryPlans'
  BY <1>1, <1>4 DEF AlgebraInv, VerifierAcceptsUnaryPlans
<1> QED
  BY <1>5, <1>7, <1>8, <1>9 DEF AlgebraInv, EveryLookupSucceeds

\* The lookups of a translated statement, from what the translation left.
LEMMA ProduceKeepsInv ==
    ASSUME AlgebraInv, produce
    PROVE  AlgebraInv'
<1>1. /\ Translated /\ ran' = TRUE /\ notFound' = UNION {misses(i) : i \in Nodes}
      /\ query' = query /\ root' = root /\ physical' = physical /\ verified' = verified
  BY DEF produce
<1>2. /\ root # 0 /\ Typed(query) /\ Plan(query.ops) /\ physical.nodes[root].ius \in IUSets
      /\ NodesOf(Translation, root, physical.nodes)
      /\ query.ops[root].kind # "Insert" => Ready(Translation, root)
      /\ root \in 1 .. Size(query) /\ query.ops[root].kind \in Statements
  BY <1>1 DEF AlgebraInv, AfterTranslation, RootPlaced
<1>3. notFound' # {} <=> ReversedPair
  <2>1. CASE query.ops[root].kind # "Insert"
    <3>1. Alike(Translation, query)
      <4> DEFINE ius == physical.nodes[root].ius
      <4>1. Translation = Restored(query, root, ius)
        BY DEF Translation
      <4> HIDE DEF ius
      <4>2. ius \in IUSets
        BY <1>2 DEF ius
      <4> QED
        BY <1>2, <4>1, <4>2, RestoredAlike, Zenon
    <3>2. UNION {misses(i) : i \in Nodes} # {} <=> ReversedPair
      BY <1>2, <2>1, <3>1, LookupsOfStatement
    <3> QED
      BY <1>1, <3>2
  <2>2. CASE query.ops[root].kind = "Insert"
    <3>1. Nodes = Tree(query.ops, root)
      BY <1>2, RestoredOps DEF Translation, NodesOf, Shaped, Nodes
    <3>2. Tree(query.ops, root) = {root}
      <4>1. arity(query.ops[root]) = 0
        BY <1>2, <2>2 DEF Plan, Forest, ArityOf, Size
      <4> QED
        BY <1>2, <4>1, TreeParts DEF Plan, Size
    <3>3. misses(root) = {}
      BY <2>2 DEF misses
    <3>4. ~ReversedPair
      BY <2>2, <3>1, <3>2 DEF ReversedPair
    <3> QED
      BY <1>1, <3>1, <3>2, <3>3, <3>4
  <2> QED
    BY <2>1, <2>2
<1>4. ReversedPair' <=> ReversedPair
  BY <1>1 DEF ReversedPair, Nodes, input
<1>5. Translated' <=> Translated
  BY <1>1 DEF Translated
<1>6. UnderConstruction' /\ RootPlaced' /\ BeforeTranslation' /\ AfterTranslation'
  BY <1>1, <1>5 DEF AlgebraInv, UnderConstruction, RootPlaced, BeforeTranslation, AfterTranslation, Translation
<1>7. VerifierAcceptsUnaryPlans'
  BY <1>1 DEF AlgebraInv, VerifierAcceptsUnaryPlans
<1> QED
  BY <1>1, <1>3, <1>4, <1>5, <1>6, <1>7 DEF AlgebraInv, EveryLookupSucceeds

\* Every step of the construction, the verification, the translation and the
\* run of a query keeps the inductive invariant.
THEOREM AlgebraInvHolds == AlgebraSpec => []AlgebraInv
<1>1. AlgebraInv /\ [AlgebraNext]_algebraVars => AlgebraInv'
  <2> SUFFICES ASSUME AlgebraInv, [AlgebraNext]_algebraVars PROVE AlgebraInv'
    OBVIOUS
  <2>1. CASE root = 0 /\ Construction
    BY <2>1, ConstructionKeepsInv
  <2>2. CASE verifyDependencies
    BY <2>2, VerifyKeepsInv
  <2>3. CASE translateToPhysicalTree
    BY <2>3, TranslateKeepsInv
  <2>4. CASE produce
    BY <2>4, ProduceKeepsInv
  <2>5. CASE UNCHANGED algebraVars
    <3>1. /\ query' = query /\ root' = root /\ _type' = _type /\ physical' = physical
          /\ ran' = ran /\ notFound' = notFound /\ verified' = verified
      BY <2>5 DEF algebraVars
    <3>2. Translated' <=> Translated
      BY <3>1 DEF Translated
    <3>3. ReversedPair' <=> ReversedPair
      BY <3>1 DEF ReversedPair, Nodes, input
    <3>4. UnderConstruction' /\ RootPlaced' /\ BeforeTranslation' /\ AfterTranslation'
      BY <3>1, <3>2 DEF AlgebraInv, UnderConstruction, RootPlaced, BeforeTranslation, AfterTranslation, Translation
    <3> QED
      BY <3>1, <3>2, <3>3, <3>4 DEF AlgebraInv, EveryLookupSucceeds, VerifierAcceptsUnaryPlans
  <2> QED
    BY <2>1, <2>2, <2>3, <2>4, <2>5 DEF AlgebraNext
<1> QED
  BY InitInv, <1>1, PTL DEF AlgebraSpec

\* Whatever tables, selections, joins and groups a query is built of, whether it
\* was verified or not: its operators find every IU they look up, unless a join
\* has a condition with its sides reversed, and then one lookup fails.
THEOREM EveryLookupSucceedsHolds == AlgebraSpec => []EveryLookupSucceeds
<1>1. AlgebraInv => EveryLookupSucceeds
  BY DEF AlgebraInv
<1> QED
  BY <1>1, AlgebraInvHolds, PTL

\* ... its scans load the columns some operator names, and no others ...
THEOREM ScansLoadWhatIsUsedHolds == AlgebraSpec => []ScansLoadWhatIsUsed
<1>1. AlgebraInv => ScansLoadWhatIsUsed
  <2> SUFFICES ASSUME AlgebraInv, Translated, NEW i \in Nodes, query.ops[i].kind = "TableScan"
               PROVE  query.required[i] = query.produced[i] \cap UNION {physical.nodes[j].ius : j \in Nodes}
    BY DEF ScansLoadWhatIsUsed
  <2> DEFINE s == Translation
  <2>1. /\ root # 0 /\ Typed(query) /\ Plan(query.ops) /\ physical.nodes[root].ius \in IUSets
        /\ NodesOf(s, root, physical.nodes) /\ (query.ops[root].kind # "Insert" => Ready(s, root))
        /\ root \in 1 .. Size(query)
    BY DEF AlgebraInv, AfterTranslation, RootPlaced
  <2>2. Alike(s, query)
    BY <2>1, RestoredAlike DEF Translation
  <2> HIDE DEF s
  <2>3. s.ops = query.ops /\ s.produced = query.produced /\ s.required = query.required
    BY <2>2 DEF Alike
  <2>4. Nodes = Tree(query.ops, root) /\ \A j \in Tree(query.ops, root) : physical.nodes[j].ius = s.ius[j]
    BY <2>1, <2>3 DEF NodesOf, Shaped, Nodes
  <2>5. query.ops[root].kind # "Insert"
    <3> SUFFICES ASSUME query.ops[root].kind = "Insert" PROVE FALSE
      OBVIOUS
    <3>1. arity(query.ops[root]) = 0
      BY <2>1 DEF Plan, Forest, ArityOf, Size
    <3>2. Tree(query.ops, root) = {root}
      BY <2>1, <3>1, TreeParts DEF Plan, Size
    <3> QED
      BY <2>4, <3>2
  <2>6. s.required[i] = s.produced[i] \cap UNION {s.ius[j] : j \in Tree(s.ops, root)}
    BY <2>1, <2>3, <2>4, <2>5, LoadedIsNamed
  <2>7. UNION {s.ius[j] : j \in Tree(s.ops, root)} = UNION {physical.nodes[j].ius : j \in Nodes}
    BY <2>3, <2>4
  <2> QED
    BY <2>3, <2>6, <2>7
<1> QED
  BY <1>1, AlgebraInvHolds, PTL

\* ... and the verifier finds no fault in a plan without a join.
THEOREM VerifierAcceptsUnaryPlansHolds == AlgebraSpec => []VerifierAcceptsUnaryPlans
<1>1. AlgebraInv => VerifierAcceptsUnaryPlans
  BY DEF AlgebraInv
<1> QED
  BY <1>1, AlgebraInvHolds, PTL
=============================================================================
