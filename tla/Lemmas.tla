------------------------------- MODULE Lemmas -------------------------------
(***************************************************************************)
(* Facts the proofs of several components need: induction over the natural *)
(* numbers, walks along a pointer field, and sequences.                    *)
(***************************************************************************)
EXTENDS Walks, Sequences, WellFoundedInduction, TLAPS

\* A set of natural numbers that is not empty has a least element.
LEMMA LeastNumber ==
    ASSUME NEW S \in SUBSET Nat, S # {}
    PROVE  \E m \in S : \A n \in S : m <= n
<1> DEFINE Less == OpToRel(<, Nat)
<1>1. PICK m \in S : \A n \in S : <<n, m>> \notin Less
  <2> HIDE DEF Less
  <2>1. IsWellFoundedOn(Less, Nat)
    BY NatLessThanWellFounded DEF Less
  <2> QED
    BY <2>1, WFMin
<1>2. ASSUME NEW n \in S PROVE ~ (n < m)
  BY <1>1 DEF OpToRel
<1> QED
  BY <1>2

\* Induction over the natural numbers, for a set instead of a predicate.
LEMMA NatSetInduction ==
    ASSUME NEW S, 0 \in S, \A n \in Nat : n \in S => n + 1 \in S
    PROVE  \A n \in Nat : n \in S
<1> DEFINE Missing == Nat \ S
<1> SUFFICES ASSUME Missing # {} PROVE FALSE
  OBVIOUS
<1>1. PICK m \in Missing : \A n \in Missing : m <= n
  <2>1. Missing \in SUBSET Nat
    OBVIOUS
  <2> HIDE DEF Missing
  <2> QED
    BY <2>1, LeastNumber
<1>2. m - 1 \in Nat /\ m - 1 \in S
  BY <1>1
<1> QED
  BY <1>2

\* A set of natural numbers has an element with no other one below it.
LEMMA NatSetMin ==
    ASSUME NEW S \in SUBSET Nat, NEW k \in S
    PROVE  \E m \in S : \A n \in 0 .. m - 1 : n \notin S
<1>1. PICK m \in S : \A n \in S : m <= n
  BY LeastNumber
<1> QED
  BY <1>1

------------------------------------------------------------------------------
(* Walks: facts for any pointer field.  A walk is well defined, it stays   *)
(* among the places its field is defined on, and it depends only on the    *)
(* fields of the places it can reach.                                      *)

\* The initial parts of a walk: they exist for every length and agree.
Prefix(S, next, start, n) ==
    {g \in [0 .. n -> S] : /\ g[0] = start
                           /\ \A i \in 0 .. n - 1 : g[i + 1] = next[g[i]]}

\* The walk has a prefix of every length.
LEMMA PrefixExists ==
    ASSUME NEW S, NEW next \in [S -> S], NEW start \in S
    PROVE  \A n \in Nat : Prefix(S, next, start, n) # {}
<1> DEFINE Good == {n \in Nat : Prefix(S, next, start, n) # {}}
<1>1. 0 \in Good
  <2> DEFINE g == [i \in 0 .. 0 |-> start]
  <2>1. g \in Prefix(S, next, start, 0)
    BY DEF Prefix
  <2> QED
    BY <2>1
<1>2. ASSUME NEW n \in Nat, n \in Good PROVE n + 1 \in Good
  <2>1. PICK g : g \in Prefix(S, next, start, n)
    BY <1>2
  <2> DEFINE h == [i \in 0 .. n + 1 |-> IF i = n + 1 THEN next[g[n]] ELSE g[i]]
  <2>2. g \in [0 .. n -> S] /\ g[0] = start
    BY <2>1 DEF Prefix
  <2>3. \A i \in 0 .. n - 1 : g[i + 1] = next[g[i]]
    BY <2>1 DEF Prefix
  <2>4. h \in [0 .. n + 1 -> S]
    BY <2>2
  <2>5. h[0] = start
    BY <2>2
  <2>6. ASSUME NEW i \in 0 .. (n + 1) - 1 PROVE h[i + 1] = next[h[i]]
    <3>1. CASE i = n
      BY <3>1
    <3>2. CASE i # n
      <4>1. i \in 0 .. n - 1 /\ i + 1 \in 0 .. n
        BY <3>2
      <4>2. h[i + 1] = g[i + 1] /\ h[i] = g[i]
        BY <4>1
      <4> QED
        BY <4>1, <4>2, <2>3
    <3> QED
      BY <3>1, <3>2
  <2>7. h \in Prefix(S, next, start, n + 1)
    <3> HIDE DEF h
    <3> QED
      BY <2>4, <2>5, <2>6 DEF Prefix
  <2> QED
    BY <2>7
<1>3. \A n \in Nat : n \in Good
  <2> HIDE DEF Good
  <2> QED
    BY <1>1, <1>2, NatSetInduction
<1> QED
  BY <1>3

\* Two prefixes agree where both are defined.
LEMMA PrefixUnique ==
    ASSUME NEW S, NEW next, NEW start,
           NEW n \in Nat, NEW m \in Nat, n <= m,
           NEW g \in Prefix(S, next, start, n),
           NEW h \in Prefix(S, next, start, m)
    PROVE  g[n] = h[n]
<1> DEFINE Same == {i \in Nat : i <= n => g[i] = h[i]}
<1>1. 0 \in Same
  BY DEF Prefix
<1>2. ASSUME NEW i \in Nat, i \in Same PROVE i + 1 \in Same
  <2>1. SUFFICES ASSUME i + 1 <= n PROVE g[i + 1] = h[i + 1]
    OBVIOUS
  <2>2. i \in 0 .. n - 1 /\ i \in 0 .. m - 1
    BY <2>1
  <2>3. g[i + 1] = next[g[i]] /\ h[i + 1] = next[h[i]]
    BY <2>2 DEF Prefix
  <2> QED
    BY <1>2, <2>1, <2>3
<1>3. \A i \in Nat : i \in Same
  <2> HIDE DEF Same
  <2> QED
    BY <1>1, <1>2, NatSetInduction
<1> QED
  BY <1>3

\* A walk is well defined: it starts at its start, every later place is where
\* the field of the place before it points, and it never leaves the places
\* the field is defined on.
THEOREM WalkStep ==
    ASSUME NEW S, NEW next \in [S -> S], NEW start \in S
    PROVE  /\ Walk(next, start) \in [Nat -> S]
           /\ Walk(next, start)[0] = start
           /\ \A n \in Nat : Walk(next, start)[n + 1] = next[Walk(next, start)[n]]
<1> DEFINE P(n) == CHOOSE g : g \in Prefix(S, next, start, n)
<1> DEFINE f == [n \in Nat |-> P(n)[n]]
<1> DEFINE Defines(w) == w = [n \in Nat |-> IF n = 0 THEN start ELSE next[w[n - 1]]]
<1>1. \A n \in Nat : P(n) \in Prefix(S, next, start, n)
  BY PrefixExists
<1>2. ASSUME NEW n \in Nat PROVE f[n] = IF n = 0 THEN start ELSE next[f[n - 1]]
  <2> HIDE DEF P
  <2>1. CASE n = 0
    BY <1>1, <2>1 DEF Prefix
  <2>2. CASE n # 0
    <3>1. n - 1 \in Nat /\ n - 1 \in 0 .. n - 1 /\ (n - 1) + 1 = n /\ n - 1 <= n
      BY <2>2
    <3>2. P(n)[n] = next[P(n)[n - 1]]
      <4>1. \A i \in 0 .. n - 1 : P(n)[i + 1] = next[P(n)[i]]
        BY <1>1 DEF Prefix
      <4> QED
        BY <4>1, <3>1
    <3>3. P(n - 1)[n - 1] = P(n)[n - 1]
      <4>1. P(n - 1) \in Prefix(S, next, start, n - 1)
        BY <1>1, <3>1
      <4>2. P(n) \in Prefix(S, next, start, n)
        BY <1>1
      <4> QED
        BY <3>1, <4>1, <4>2, PrefixUnique
    <3> QED
      BY <2>2, <3>1, <3>2, <3>3
  <2> QED
    BY <2>1, <2>2
<1>3. Defines(f)
  <2>1. f = [n \in Nat |-> f[n]]
    OBVIOUS
  <2> HIDE DEF f
  <2> QED
    BY <1>2, <2>1
<1>4. Walk(next, start) = CHOOSE w : Defines(w)
  BY Zenon DEF Walk
<1>5. Defines(Walk(next, start))
  <2> HIDE DEF f, Defines
  <2> QED
    BY <1>3, <1>4
<1> DEFINE w == Walk(next, start)
<1>6. \A n \in Nat : w[n] = IF n = 0 THEN start ELSE next[w[n - 1]]
  BY <1>5
<1>7. w[0] = start
  BY <1>6
<1>8. ASSUME NEW n \in Nat PROVE w[n + 1] = next[w[n]]
  <2>1. n + 1 \in Nat /\ n + 1 # 0 /\ (n + 1) - 1 = n
    OBVIOUS
  <2> HIDE DEF w
  <2> QED
    BY <1>6, <2>1
<1>9. \A n \in Nat : w[n] \in S
  <2> DEFINE In == {n \in Nat : w[n] \in S}
  <2> HIDE DEF w
  <2>1. 0 \in In
    BY <1>7
  <2>2. ASSUME NEW n \in Nat, n \in In PROVE n + 1 \in In
    BY <1>8, <2>2
  <2>3. \A n \in Nat : n \in In
    <3> HIDE DEF In
    <3> QED
      BY <2>1, <2>2, NatSetInduction
  <2> QED
    BY <2>3
<1>10. w = [n \in Nat |-> w[n]]
  BY <1>5
<1> QED
  <2> HIDE DEF w
  <2>1. w \in [Nat -> S]
    BY <1>9, <1>10
  <2> QED
    BY <1>7, <1>8, <2>1 DEF w

\* w is the walk along next from start, all of it in S.
Visits(w, S, next, start) ==
    /\ w \in [Nat -> S]
    /\ w[0] = start
    /\ \A n \in Nat : w[n + 1] = next[w[n]]

\* WalkStep, with its conclusion as one predicate.
LEMMA WalkVisits ==
    ASSUME NEW S, NEW next, NEW start, next \in [S -> S], start \in S
    PROVE  Visits(Walk(next, start), S, next, start)
BY WalkStep DEF Visits

\* After its first step a walk is the walk from there.
LEMMA WalkShift ==
    ASSUME NEW S, NEW next, NEW start, next \in [S -> S], start \in S
    PROVE  \A n \in Nat : Walk(next, start)[n + 1] = Walk(next, next[start])[n]
<1> DEFINE v == Walk(next, start)
<1> DEFINE w == Walk(next, next[start])
<1>1. Visits(v, S, next, start)
  BY WalkVisits, Zenon
<1>2. Visits(w, S, next, next[start])
  <2>1. next[start] \in S
    OBVIOUS
  <2> QED
    BY <2>1, WalkVisits, Zenon
<1> HIDE DEF v, w
<1> DEFINE Same == {n \in Nat : v[n + 1] = w[n]}
<1>3. 0 \in Same
  BY <1>1, <1>2 DEF Visits
<1>4. ASSUME NEW n \in Nat, n \in Same PROVE n + 1 \in Same
  BY <1>1, <1>2, <1>4 DEF Visits
<1>5. \A n \in Nat : n \in Same
  <2> HIDE DEF Same
  <2> QED
    BY <1>3, <1>4, NatSetInduction
<1> QED
  BY <1>5 DEF v, w

\* Two fields that agree on a set of places that neither leaves lead the same
\* way from any of these places.
LEMMA WalkAgree ==
    ASSUME NEW S, NEW T, NEW next, NEW other, NEW start,
           next \in [S -> S], other \in [T -> T], start \in S,
           \A p \in S : p \in T /\ other[p] = next[p]
    PROVE  \A n \in Nat : Walk(other, start)[n] = Walk(next, start)[n]
<1> DEFINE v == Walk(next, start)
<1> DEFINE w == Walk(other, start)
<1>1. Visits(v, S, next, start)
  BY WalkVisits, Zenon
<1>2. Visits(w, T, other, start)
  <2>1. start \in T
    OBVIOUS
  <2> QED
    BY <2>1, WalkVisits, Zenon
<1> HIDE DEF v, w
<1> DEFINE Same == {n \in Nat : w[n] = v[n]}
<1>3. 0 \in Same
  BY <1>1, <1>2 DEF Visits
<1>4. ASSUME NEW n \in Nat, n \in Same PROVE n + 1 \in Same
  <2>1. v[n] \in S
    BY <1>1 DEF Visits
  <2> QED
    BY <1>1, <1>2, <1>4, <2>1 DEF Visits
<1>5. \A n \in Nat : n \in Same
  <2> HIDE DEF Same
  <2> QED
    BY <1>3, <1>4, NatSetInduction
<1> QED
  BY <1>5 DEF v, w

------------------------------------------------------------------------------
(* Powers.                                                                  *)

\* power is defined as the recursive function of the powers of b.
Raises(power, b) ==
    power = CHOOSE f : f = [n \in Nat |-> IF n = 0 THEN 1 ELSE b * f[n - 1]]

\* The values such a function has.
Powers(power, b) ==
    /\ power[0] = 1
    /\ \A n \in Nat : power[n] \in Nat \ {0} /\ power[n + 1] = b * power[n]

\* The powers of a number are the walk that starts at 1 and multiplies.
LEMMA PowersOf ==
    ASSUME NEW b, b \in Nat \ {0}, NEW power, Raises(power, b)
    PROVE  Powers(power, b)
<1> DEFINE times == [x \in Nat |-> b * x]
<1> DEFINE w == Walk(times, 1)
<1> DEFINE Defines(f) == f = [n \in Nat |-> IF n = 0 THEN 1 ELSE b * f[n - 1]]
<1>1. Visits(w, Nat, times, 1)
  <2>1. times \in [Nat -> Nat] /\ 1 \in Nat
    OBVIOUS
  <2> HIDE DEF times
  <2> QED
    BY <2>1, WalkVisits, Zenon
<1>2. \A n \in Nat : w[n] \in Nat /\ w[n + 1] = b * w[n]
  <2> SUFFICES ASSUME NEW n \in Nat PROVE w[n] \in Nat /\ w[n + 1] = b * w[n]
    OBVIOUS
  <2>1. w \in [Nat -> Nat] /\ w[n + 1] = times[w[n]]
    BY <1>1 DEF Visits
  <2> HIDE DEF w
  <2> QED
    BY <2>1
<1>3. w[0] = 1 /\ w = [n \in Nat |-> w[n]]
  BY <1>1 DEF Visits
<1> HIDE DEF w
<1>4. Defines(w)
  <2>1. ASSUME NEW n \in Nat PROVE w[n] = IF n = 0 THEN 1 ELSE b * w[n - 1]
    <3>1. CASE n = 0
      BY <1>3, <3>1
    <3>2. CASE n # 0
      <4>1. n - 1 \in Nat /\ (n - 1) + 1 = n
        BY <3>2
      <4> QED
        BY <1>2, <3>2, <4>1
    <3> QED
      BY <3>1, <3>2
  <2> QED
    BY <1>3, <2>1
<1>5. Defines(power)
  <2>1. power = CHOOSE f : Defines(f)
    BY DEF Raises
  <2> HIDE DEF Defines
  <2> QED
    BY <1>4, <2>1
<1>6. \A n \in Nat : power[n] = IF n = 0 THEN 1 ELSE b * power[n - 1]
  BY <1>5
<1>7. \A n \in Nat : power[n + 1] = b * power[n]
  <2> SUFFICES ASSUME NEW n \in Nat PROVE power[n + 1] = b * power[n]
    OBVIOUS
  <2>1. n + 1 \in Nat /\ n + 1 # 0 /\ (n + 1) - 1 = n
    OBVIOUS
  <2> QED
    BY <1>6, <2>1
<1>8. power[0] = 1
  BY <1>6
<1> DEFINE Good == {n \in Nat : power[n] \in Nat \ {0}}
<1>9. 0 \in Good
  BY <1>8
<1>10. ASSUME NEW n \in Nat, n \in Good PROVE n + 1 \in Good
  <2>1. power[n] \in Nat \ {0} /\ power[n + 1] = b * power[n]
    BY <1>7, <1>10
  <2>2. b * power[n] \in Nat \ {0}
    BY <2>1
  <2> QED
    BY <2>1, <2>2
<1>11. \A n \in Nat : n \in Good
  <2> HIDE DEF Good
  <2> QED
    BY <1>9, <1>10, NatSetInduction
<1> QED
  BY <1>7, <1>8, <1>11 DEF Powers

\* A power of a sum is the product of the powers.
LEMMA PowersMultiply ==
    ASSUME NEW b, b \in Nat \ {0}, NEW power, Powers(power, b),
           NEW m, m \in Nat, NEW n, n \in Nat
    PROVE  power[m + n] = power[m] * power[n]
<1> USE DEF Powers
<1> DEFINE Good == {k \in Nat : power[m + k] = power[m] * power[k]}
<1>1. 0 \in Good
  <2>1. power[m] \in Nat /\ m + 0 = m
    OBVIOUS
  <2> QED
    BY <2>1
<1>2. ASSUME NEW k \in Nat, k \in Good PROVE k + 1 \in Good
  <2>1. m + k \in Nat /\ m + (k + 1) = (m + k) + 1
    OBVIOUS
  <2>2. power[m + (k + 1)] = b * power[m + k]
    BY <2>1
  <2>3. power[m + k] = power[m] * power[k]
    BY <1>2
  <2>4. power[m] \in Nat /\ power[k] \in Nat /\ power[k + 1] = b * power[k]
    OBVIOUS
  <2>5. b * (power[m] * power[k]) = power[m] * (b * power[k])
    BY <2>4
  <2> QED
    BY <2>2, <2>3, <2>4, <2>5
<1>3. \A k \in Nat : k \in Good
  <2> HIDE DEF Good
  <2> QED
    BY <1>1, <1>2, NatSetInduction
<1> QED
  BY <1>3

------------------------------------------------------------------------------
(* Sequences                                                               *)

\* Growing the set a sequence draws from, and changing one of its elements.
LEMMA SeqWiden ==
    ASSUME NEW S, NEW T, S \subseteq T, NEW s \in Seq(S)
    PROVE  s \in Seq(T)
OBVIOUS

\* A function on the first n numbers is a sequence of length n.
LEMMA FunctionIsSequence ==
    ASSUME NEW n, NEW S, NEW f, n \in Nat, f \in [1 .. n -> S]
    PROVE  f \in Seq(S) /\ Len(f) = n
OBVIOUS

\* Append keeps the earlier elements and puts the new one last.
LEMMA SeqAppend ==
    ASSUME NEW T, NEW s \in Seq(T), NEW e \in T
    PROVE  /\ Append(s, e) \in Seq(T)
           /\ Len(Append(s, e)) = Len(s) + 1
           /\ \A i \in 1 .. Len(s) : Append(s, e)[i] = s[i]
           /\ Append(s, e)[Len(s) + 1] = e
OBVIOUS

\* Replacing an element keeps the length and the other elements.
LEMMA SeqExcept ==
    ASSUME NEW T, NEW s \in Seq(T), NEW i \in 1 .. Len(s), NEW e \in T
    PROVE  /\ [s EXCEPT ![i] = e] \in Seq(T)
           /\ Len([s EXCEPT ![i] = e]) = Len(s)
           /\ \A j \in 1 .. Len(s) : [s EXCEPT ![i] = e][j] = IF j = i THEN e ELSE s[j]
OBVIOUS
=============================================================================
