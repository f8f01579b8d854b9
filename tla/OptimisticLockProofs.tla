------------------------ MODULE OptimisticLockProofs ------------------------
(***************************************************************************)
(* The optimistic lock is correct for any number of threads and nodes.     *)
(***************************************************************************)
EXTENDS OptimisticLock, TLAPS

\* What the additions do to the two low bits of a lock word.
LEMMA Bits ==
    ASSUME NEW word \in Nat
    PROVE  /\ setLockedBit(word) \in Nat /\ setLockedBit(word) > word
           /\ unlocked(word) \in Nat /\ unlocked(word) > word
           /\ unlockedObsolete(word) \in Nat /\ unlockedObsolete(word) > word
           /\ isLocked(setLockedBit(word)) <=> ~ isLocked(word)
           /\ isLocked(unlocked(word)) <=> ~ isLocked(word)
           /\ isObsolete(setLockedBit(word)) <=> isObsolete(word)
           /\ isObsolete(unlocked(word)) <=> isObsolete(word)
           /\ isLocked(word) /\ ~ isObsolete(word) =>
                 /\ ~ isLocked(unlockedObsolete(word))
                 /\ isObsolete(unlockedObsolete(word))
<1>1. PICK q \in Nat, l \in {0, 1}, o \in {0, 1} : word = 4 * q + 2 * l + o
  <2> DEFINE q == word \div 4
            l == (word % 4) \div 2
            o == word % 2
  <2>1. q \in Nat /\ l \in {0, 1} /\ o \in {0, 1} /\ word = 4 * q + 2 * l + o
      OBVIOUS
  <2> QED  BY <2>1
<1>2. \A r \in Nat, a, b \in {0, 1} :
          /\ ((4 * r + 2 * a + b) \div 2) % 2 = a
          /\ (4 * r + 2 * a + b) % 2 = b
    OBVIOUS
<1> QED
    BY <1>1, <1>2
    DEF setLockedBit, unlocked, unlockedObsolete, isLocked, isObsolete

------------------------------------------------------------------------------
(* The invariant, node by node and pair by pair of a thread and a node     *)

Types ==
    /\ lock \in [Nodes -> Nat]
    /\ content \in [Nodes -> Nat \cup {Torn}]
    /\ held \in [Threads -> SUBSET Nodes]
    /\ version \in [Threads -> [Nodes -> Nat \cup {None}]]
    /\ seen \in [Threads -> [Nodes -> Nat \cup {None, Torn}]]
    /\ attempt \in [Threads -> {NoAttempt} \cup (Nodes \X Nat)]

NodeInv(k) ==
    /\ content[k] = Torn => isLocked(lock[k])
    /\ isLocked(lock[k]) <=> \E u \in Threads : k \in held[u]
    /\ \A u, v \in Threads : k \in held[u] /\ k \in held[v] => u = v

PairInv(u, k) ==
    /\ version[u][k] # None => /\ ~ isLocked(version[u][k])
                               /\ ~ isObsolete(version[u][k])
                               /\ version[u][k] <= lock[k]
    /\ ~ Free(u) /\ attempt[u][1] = k => /\ ~ isLocked(attempt[u][2])
                                         /\ attempt[u][2] <= lock[k]
                                         /\ version[u][k] = None
    /\ seen[u][k] # None => version[u][k] # None \/ k \in held[u]
    /\ k \in held[u] => version[u][k] = None
    /\ k \in held[u] /\ content[k] = Torn => seen[u][k] \in Nat
    /\ version[u][k] = lock[k] /\ seen[u][k] # None => seen[u][k] = content[k]
    /\ k \in held[u] /\ seen[u][k] # None /\ content[k] # Torn =>
           seen[u][k] = content[k]

Pointwise ==
    /\ Types
    /\ \A k \in Nodes : NodeInv(k)
    /\ \A u \in Threads, k \in Nodes : PairInv(u, k)

\* The two forms of the invariant agree.
LEMMA LockInvPointwise == LockInv <=> Pointwise
<1>1. Types => \A u \in Threads : ~ Free(u) => attempt[u][1] \in Nodes
    BY DEF Types, Free
<1>2. LockTypeOK <=> Types /\ NotedWords
    BY DEF LockTypeOK, Types
<1>3. ASSUME LockInv  PROVE  Pointwise
  <2>1. ASSUME NEW k \in Nodes  PROVE  NodeInv(k)
      BY <1>3 DEF LockInv, NodeInv, OneHolder, Remembered
  <2>2. ASSUME NEW u \in Threads, NEW k \in Nodes  PROVE  PairInv(u, k)
      BY <1>2, <1>3
      DEF LockInv, PairInv, NotedWords, Remembered, ValidatedReadIsCurrent,
          UpgradedReadIsCurrent
  <2> QED  BY <1>2, <1>3, <2>1, <2>2 DEF Pointwise, LockInv
<1>4. ASSUME Pointwise  PROVE  LockInv
  <2>1. OneHolder
      BY <1>4 DEF Pointwise, NodeInv, OneHolder
  <2>2. NotedWords
      BY <1>1, <1>4 DEF Pointwise, PairInv, NotedWords
  <2>3. Remembered
      BY <1>4 DEF Pointwise, NodeInv, PairInv, Remembered
  <2>4. ValidatedReadIsCurrent
      BY <1>4 DEF Pointwise, PairInv, ValidatedReadIsCurrent
  <2>5. UpgradedReadIsCurrent
    <3> SUFFICES ASSUME NEW t \in Threads, NEW n \in held[t],
                        seen[t][n] # None, content[n] # Torn
                 PROVE  seen[t][n] = content[n]
        BY DEF UpgradedReadIsCurrent
    <3>1. n \in Nodes
        BY <1>4 DEF Pointwise, Types
    <3> QED  BY <1>4, <3>1 DEF Pointwise, PairInv
  <2> QED  BY <1>2, <1>4, <2>1, <2>2, <2>3, <2>4, <2>5 DEF Pointwise, LockInv
<1> QED  BY <1>3, <1>4

\* The thread's view of the node is untouched.
SameView(u, k) ==
    /\ version'[u][k] = version[u][k] /\ seen'[u][k] = seen[u][k]
    /\ k \in held'[u] <=> k \in held[u]
    /\ attempt'[u] = attempt[u]

\* A thread whose view of a node is untouched does not notice what others do:
\* nothing, lock or unlock the node, or write to it under the lock.
LEMMA OtherView ==
    ASSUME NEW u \in Threads, NEW k \in Nodes,
           Types, Types', NodeInv(k), PairInv(u, k), SameView(u, k),
           \/ lock'[k] = lock[k] /\ content'[k] = content[k]
           \/ lock'[k] > lock[k] /\ content'[k] = content[k] /\ k \notin held[u]
           \/ lock'[k] = lock[k] /\ isLocked(lock[k]) /\ k \notin held[u]
    PROVE  PairInv(u, k)'
<1> DEFINE v == version[u][k]
<1>1. lock[k] \in Nat /\ lock'[k] \in Nat /\ v \in Nat \cup {None}
    BY DEF Types
<1>2. CASE lock'[k] = lock[k] /\ content'[k] = content[k]
    BY <1>2 DEF PairInv, SameView, Free
<1>3. CASE lock'[k] > lock[k] /\ content'[k] = content[k] /\ k \notin held[u]
  <2>1. v # lock'[k] /\ (v # None => v <= lock'[k])
      BY <1>1, <1>3 DEF PairInv, None
  <2>2. ~ Free(u) /\ attempt[u][1] = k => attempt[u][2] <= lock'[k]
    <3> HAVE ~ Free(u) /\ attempt[u][1] = k
    <3>1. attempt[u][2] \in Nat
        BY DEF Types, Free
    <3> QED  BY <1>1, <1>3, <3>1 DEF PairInv
  <2> QED  BY <1>3, <2>1, <2>2 DEF PairInv, SameView, Free
<1>4. CASE lock'[k] = lock[k] /\ isLocked(lock[k]) /\ k \notin held[u]
  <2>1. v # lock'[k]
      BY <1>1, <1>4 DEF PairInv, None
  <2> QED  BY <1>4, <2>1 DEF PairInv, SameView, Free
<1> QED  BY <1>2, <1>3, <1>4

\* A thread that has forgotten a node it does not hold is consistent.
LEMMA Forgotten ==
    ASSUME NEW u \in Threads, NEW k \in Nodes, Types',
           version'[u][k] = None, seen'[u][k] = None, k \notin held'[u],
           attempt'[u] = NoAttempt
    PROVE  PairInv(u, k)'
BY DEF PairInv, Free

\* A node whose word and holders are untouched, and whose content changes only
\* while it is locked.
LEMMA SameNode ==
    ASSUME NEW k \in Nodes, NodeInv(k), lock'[k] = lock[k],
           \A u \in Threads : k \in held'[u] <=> k \in held[u],
           content'[k] = content[k] \/ isLocked(lock[k])
    PROVE  NodeInv(k)'
BY DEF NodeInv

\* A node that was unlocked gets one holder.
LEMMA LockedNode ==
    ASSUME NEW k \in Nodes, NEW t \in Threads, NodeInv(k),
           ~ isLocked(lock[k]), isLocked(lock'[k]),
           \A u \in Threads : k \in held'[u] <=> k \in held[u] \/ u = t
    PROVE  NodeInv(k)'
BY DEF NodeInv

\* A node loses its holder, after the last store of a write.
LEMMA UnlockedNode ==
    ASSUME NEW k \in Nodes, NEW t \in Threads, NodeInv(k), k \in held[t],
           ~ isLocked(lock'[k]), content'[k] = content[k], content[k] # Torn,
           \A u \in Threads : k \in held'[u] <=> k \in held[u] /\ u # t
    PROVE  NodeInv(k)'
BY DEF NodeInv

------------------------------------------------------------------------------
(* The steps of the calls preserve it                                      *)

\* A thread that holds nothing starts over.
LEMMA RestartStep ==
    ASSUME NEW t \in Threads, Pointwise, Free(t), held[t] = {}, Restart(t),
           UNCHANGED <<lock, content, held, attempt>>
    PROVE  Pointwise'
<1>1. Types'
    BY DEF Pointwise, Types, Restart
<1>2. \A u \in Threads, k \in Nodes :
          /\ version'[u][k] = IF u = t THEN None ELSE version[u][k]
          /\ seen'[u][k] = IF u = t THEN None ELSE seen[u][k]
    BY DEF Pointwise, Types, Restart
<1>3. ASSUME NEW k \in Nodes  PROVE  NodeInv(k)'
    BY SameNode DEF Pointwise
<1>4. ASSUME NEW u \in Threads, NEW k \in Nodes  PROVE  PairInv(u, k)'
  <2>1. CASE u = t
      BY <1>1, <1>2, <2>1, Forgotten DEF Free
  <2>2. CASE u # t
      BY <1>1, <1>2, <2>2, OtherView DEF Pointwise, SameView
  <2> QED  BY <2>1, <2>2
<1> QED  BY <1>1, <1>3, <1>4 DEF Pointwise

\* A thread unlocks the one node it holds and starts over.
LEMMA RestartUnlockStep ==
    ASSUME NEW t \in Threads, NEW m \in Nodes, Pointwise, Free(t),
           held[t] = {m}, content[m] # Torn,
           lock' = [lock EXCEPT ![m] = unlocked(@)], Release(t, m), Restart(t),
           UNCHANGED <<content, attempt>>
    PROVE  Pointwise'
<1>0. /\ lock[m] \in Nat /\ isLocked(lock[m])
      /\ unlocked(lock[m]) > lock[m] /\ unlocked(lock[m]) \in Nat
      /\ ~ isLocked(unlocked(lock[m]))
  <2>1. lock[m] \in Nat /\ isLocked(lock[m])
      BY DEF Pointwise, Types, NodeInv
  <2> QED  BY <2>1, Bits
<1>1. Types'
    BY <1>0 DEF Pointwise, Types, Restart, Release
<1>2. \A u \in Threads, k \in Nodes :
          /\ version'[u][k] = IF u = t THEN None ELSE version[u][k]
          /\ seen'[u][k] = IF u = t THEN None ELSE seen[u][k]
          /\ k \in held'[u] <=> k \in held[u] /\ u # t
    BY DEF Pointwise, Types, Restart, Release
<1>3. \A k \in Nodes : lock'[k] = IF k = m THEN unlocked(lock[m]) ELSE lock[k]
    BY DEF Pointwise, Types
<1>4. ASSUME NEW k \in Nodes  PROVE  NodeInv(k)'
  <2>1. CASE k = m
      BY <1>0, <1>2, <1>3, <2>1, UnlockedNode DEF Pointwise
  <2>2. CASE k # m
      BY <1>2, <1>3, <2>2, SameNode DEF Pointwise
  <2> QED  BY <2>1, <2>2
<1>5. ASSUME NEW u \in Threads, NEW k \in Nodes  PROVE  PairInv(u, k)'
  <2>1. CASE u = t
      BY <1>1, <1>2, <2>1, Forgotten DEF Free
  <2>2. CASE u # t
    <3>1. SameView(u, k)
        BY <1>2, <2>2 DEF SameView
    <3>2. k = m => k \notin held[u]
        BY <2>2 DEF Pointwise, NodeInv
    <3> QED  BY <1>0, <1>1, <1>3, <3>1, <3>2, OtherView DEF Pointwise
  <2> QED  BY <2>1, <2>2
<1> QED  BY <1>1, <1>4, <1>5 DEF Pointwise

\* A reader is done with a node.
LEMMA ReadDoneStep ==
    ASSUME NEW t \in Threads, NEW n \in Nodes, Pointwise, Free(t),
           version[t][n] # None, Note(t, n, None),
           seen' = [seen EXCEPT ![t][n] = None],
           UNCHANGED <<lock, content, held, attempt>>
    PROVE  Pointwise'
<1>1. Types'
    BY DEF Pointwise, Types, Note
<1>2. \A u \in Threads, k \in Nodes :
          /\ version'[u][k] = IF u = t /\ k = n THEN None ELSE version[u][k]
          /\ seen'[u][k] = IF u = t /\ k = n THEN None ELSE seen[u][k]
    BY DEF Pointwise, Types, Note
<1>3. ASSUME NEW k \in Nodes  PROVE  NodeInv(k)'
    BY SameNode DEF Pointwise
<1>4. ASSUME NEW u \in Threads, NEW k \in Nodes  PROVE  PairInv(u, k)'
  <2>1. CASE u = t /\ k = n
    <3>1. k \notin held[u]
        BY <2>1 DEF Pointwise, PairInv
    <3> QED  BY <1>1, <1>2, <2>1, <3>1, Forgotten DEF Free
  <2>2. CASE ~ (u = t /\ k = n)
      BY <1>1, <1>2, <2>2, OtherView DEF Pointwise, SameView
  <2> QED  BY <2>1, <2>2
<1> QED  BY <1>1, <1>3, <1>4 DEF Pointwise

\* A reader upgrades to the write lock.
LEMMA UpgradeStep ==
    ASSUME NEW t \in Threads, NEW n \in Nodes, Pointwise, Free(t),
           version[t][n] # None, compare_exchange_strong(t, n, version[t][n]),
           Note(t, n, None), UNCHANGED <<content, seen, attempt>>
    PROVE  Pointwise'
<1>0. /\ lock[n] \in Nat /\ ~ isLocked(lock[n]) /\ version[t][n] = lock[n]
      /\ setLockedBit(lock[n]) > lock[n] /\ setLockedBit(lock[n]) \in Nat
      /\ isLocked(setLockedBit(lock[n]))
  <2>1. lock[n] \in Nat /\ ~ isLocked(lock[n]) /\ version[t][n] = lock[n]
      BY DEF Pointwise, Types, PairInv, compare_exchange_strong
  <2> QED  BY <2>1, Bits
<1>1. Types'
    BY <1>0 DEF Pointwise, Types, Note, compare_exchange_strong
<1>2. \A u \in Threads, k \in Nodes :
          /\ version'[u][k] = IF u = t /\ k = n THEN None ELSE version[u][k]
          /\ k \in held'[u] <=> k \in held[u] \/ (u = t /\ k = n)
    BY DEF Pointwise, Types, Note, compare_exchange_strong
<1>3. \A k \in Nodes : lock'[k] = IF k = n THEN setLockedBit(lock[n]) ELSE lock[k]
    BY <1>0 DEF Pointwise, Types, compare_exchange_strong
<1>4. \A u \in Threads : n \notin held[u]
    BY <1>0 DEF Pointwise, NodeInv
<1>5. ASSUME NEW k \in Nodes  PROVE  NodeInv(k)'
  <2>1. CASE k = n
      BY <1>0, <1>2, <1>3, <2>1, LockedNode DEF Pointwise
  <2>2. CASE k # n
      BY <1>2, <1>3, <2>2, SameNode DEF Pointwise
  <2> QED  BY <2>1, <2>2
<1>6. ASSUME NEW u \in Threads, NEW k \in Nodes  PROVE  PairInv(u, k)'
  <2>1. CASE u = t /\ k = n
    <3>1. /\ version'[t][n] = None /\ lock'[n] # None /\ n \in held'[t]
          /\ content[n] # Torn /\ seen'[t][n] = seen[t][n]
        BY <1>0, <1>2, <1>3 DEF Pointwise, NodeInv, None
    <3>2. seen[t][n] # None => seen[t][n] = content[n]
        BY <1>0 DEF Pointwise, PairInv
    <3>3. Free(t)'
        BY DEF Free
    <3> QED  BY <2>1, <3>1, <3>2, <3>3 DEF PairInv
  <2>2. CASE ~ (u = t /\ k = n)
    <3>1. SameView(u, k)
        BY <1>2, <2>2 DEF SameView
    <3> QED  BY <1>0, <1>1, <1>3, <1>4, <3>1, OtherView DEF Pointwise
  <2> QED  BY <2>1, <2>2
<1> QED  BY <1>1, <1>5, <1>6 DEF Pointwise

\* A thread gives up the write lock of a node: it forgets the node, or keeps
\* what it knows of it under the new word.
LEMMA UnlockStep ==
    ASSUME NEW t \in Threads, NEW n \in Nodes, NEW word \in Nat, Pointwise,
           Free(t), n \in held[t], content[n] # Torn,
           lock' = [lock EXCEPT ![n] = word], word > lock[n], ~ isLocked(word),
           Release(t, n), UNCHANGED <<content, attempt>>,
           \/ /\ seen' = [seen EXCEPT ![t][n] = None]
              /\ UNCHANGED version
           \/ /\ Note(t, n, word) /\ ~ isObsolete(word)
              /\ UNCHANGED seen
    PROVE  Pointwise'
<1>1. Types'
  <2>1. lock' \in [Nodes -> Nat] /\ held' \in [Threads -> SUBSET Nodes]
      BY DEF Pointwise, Types, Release
  <2>2. version' \in [Threads -> [Nodes -> Nat \cup {None}]]
    <3>1. CASE UNCHANGED version
        BY <3>1 DEF Pointwise, Types
    <3>2. CASE Note(t, n, word)
        BY <3>2 DEF Pointwise, Types, Note
    <3> QED  BY <3>1, <3>2
  <2>3. seen' \in [Threads -> [Nodes -> Nat \cup {None, Torn}]]
    <3>1. CASE UNCHANGED seen
        BY <3>1 DEF Pointwise, Types
    <3>2. CASE seen' = [seen EXCEPT ![t][n] = None]
        BY <3>2 DEF Pointwise, Types
    <3> QED  BY <3>1, <3>2
  <2> QED  BY <2>1, <2>2, <2>3 DEF Pointwise, Types
<1>2. \A u \in Threads, k \in Nodes :
          /\ ~ (u = t /\ k = n) => /\ version'[u][k] = version[u][k]
                                   /\ seen'[u][k] = seen[u][k]
          /\ k \in held'[u] <=> k \in held[u] /\ ~ (u = t /\ k = n)
    BY DEF Pointwise, Types, Release, Note
<1>3. \A k \in Nodes : lock'[k] = IF k = n THEN word ELSE lock[k]
    BY DEF Pointwise, Types
<1>4. ASSUME NEW k \in Nodes  PROVE  NodeInv(k)'
  <2>1. CASE k = n
      BY <1>2, <1>3, <2>1, UnlockedNode DEF Pointwise
  <2>2. CASE k # n
      BY <1>2, <1>3, <2>2, SameNode DEF Pointwise
  <2> QED  BY <2>1, <2>2
<1>5. PairInv(t, n)'
  <2>1. version[t][n] = None /\ n \notin held'[t]
      BY <1>2 DEF Pointwise, PairInv
  <2>2. CASE seen' = [seen EXCEPT ![t][n] = None] /\ UNCHANGED version
    <3>1. seen'[t][n] = None /\ version'[t][n] = None
        BY <2>1, <2>2 DEF Pointwise, Types
    <3> QED  BY <1>1, <2>1, <3>1, Forgotten DEF Free
  <2>3. CASE Note(t, n, word) /\ ~ isObsolete(word) /\ UNCHANGED seen
    <3>1. version'[t][n] = word /\ lock'[n] = word /\ word # None
        BY <1>3, <2>3 DEF Pointwise, Types, Note, None
    <3>2. seen[t][n] # None => seen[t][n] = content[n]
        BY DEF Pointwise, PairInv
    <3>3. Free(t)'
        BY DEF Free
    <3> QED  BY <2>1, <2>3, <3>1, <3>2, <3>3 DEF PairInv
  <2> QED  BY <2>2, <2>3
<1>6. ASSUME NEW u \in Threads, NEW k \in Nodes, ~ (u = t /\ k = n)
      PROVE  PairInv(u, k)'
  <2>1. SameView(u, k)
      BY <1>2, <1>6 DEF SameView
  <2>2. k = n => k \notin held[u]
      BY <1>6 DEF Pointwise, NodeInv
  <2> QED  BY <1>1, <1>3, <2>1, <2>2, OtherView DEF Pointwise
<1> QED  BY <1>1, <1>4, <1>5, <1>6 DEF Pointwise

\* A reader notes the word of an unlocked node that is not obsolete.
LEMMA NoteStep ==
    ASSUME NEW t \in Threads, NEW n \in Nodes, Pointwise, Free(t),
           held[t] = {}, version[t][n] = None, ~ isLocked(lock[n]),
           ~ isObsolete(lock[n]), Note(t, n, lock[n]),
           UNCHANGED <<lock, content, held, seen, attempt>>
    PROVE  Pointwise'
<1>1. Types'
    BY DEF Pointwise, Types, Note
<1>2. \A u \in Threads, k \in Nodes :
          version'[u][k] = IF u = t /\ k = n THEN lock[n] ELSE version[u][k]
    BY DEF Pointwise, Types, Note
<1>3. ASSUME NEW k \in Nodes  PROVE  NodeInv(k)'
    BY SameNode DEF Pointwise
<1>4. ASSUME NEW u \in Threads, NEW k \in Nodes  PROVE  PairInv(u, k)'
  <2>1. CASE u = t /\ k = n
    <3>1. seen[t][n] = None /\ lock[n] \in Nat
        BY DEF Pointwise, PairInv, Types
    <3>2. Free(t)' /\ version'[t][n] = lock[n] /\ n \notin held'[t]
        BY <1>2 DEF Free
    <3> QED  BY <2>1, <3>1, <3>2 DEF PairInv
  <2>2. CASE ~ (u = t /\ k = n)
      BY <1>1, <1>2, <2>2, OtherView DEF Pointwise, SameView
  <2> QED  BY <2>1, <2>2
<1> QED  BY <1>1, <1>3, <1>4 DEF Pointwise

\* A reader reads what is there.
LEMMA ReadStep ==
    ASSUME NEW t \in Threads, NEW n \in Nodes, Pointwise, Read(t, n)
    PROVE  Pointwise'
<1>1. Types'
    BY DEF Pointwise, Types, Read
<1>2. \A u \in Threads, k \in Nodes :
          seen'[u][k] = IF u = t /\ k = n THEN content[n] ELSE seen[u][k]
    BY DEF Pointwise, Types, Read
<1>3. ASSUME NEW k \in Nodes  PROVE  NodeInv(k)'
    BY SameNode DEF Pointwise, Read
<1>4. ASSUME NEW u \in Threads, NEW k \in Nodes  PROVE  PairInv(u, k)'
  <2>1. CASE u = t /\ k = n
    <3>1. n \notin held[t]
        BY DEF Pointwise, PairInv, Read
    <3> QED  BY <1>2, <2>1, <3>1 DEF Pointwise, PairInv, Read, Free
  <2>2. CASE ~ (u = t /\ k = n)
      BY <1>1, <1>2, <2>2, OtherView DEF Pointwise, SameView, Read
  <2> QED  BY <2>1, <2>2
<1> QED  BY <1>1, <1>3, <1>4 DEF Pointwise

\* A thread in writeLockOrRestart loads an unlocked word.
LEMMA LoadStep ==
    ASSUME NEW t \in Threads, NEW n \in Nodes, Pointwise,
           version[t][n] = None, ~ isLocked(lock[n]),
           attempt' = [attempt EXCEPT ![t] = <<n, lock[n]>>],
           UNCHANGED <<lock, content, held, version, seen>>
    PROVE  Pointwise'
<1>1. Types'
    BY DEF Pointwise, Types
<1>2. attempt'[t] = <<n, lock[n]>> /\ \A u \in Threads \ {t} : attempt'[u] = attempt[u]
    BY DEF Pointwise, Types
<1>3. ASSUME NEW k \in Nodes  PROVE  NodeInv(k)'
    BY SameNode DEF Pointwise
<1>4. ASSUME NEW u \in Threads, NEW k \in Nodes  PROVE  PairInv(u, k)'
  <2>1. CASE u = t
    <3>1. attempt'[t][1] = n /\ attempt'[t][2] = lock[n] /\ lock[n] \in Nat
        BY <1>2 DEF Pointwise, Types
    <3>2. lock[n] <= lock[n]
        BY <3>1
    <3>3. PairInv(t, k)
        BY DEF Pointwise
    <3> QED  BY <2>1, <3>1, <3>2, <3>3 DEF PairInv
  <2>2. CASE u # t
      BY <1>1, <1>2, <2>2, OtherView DEF Pointwise, SameView
  <2> QED  BY <2>1, <2>2
<1> QED  BY <1>1, <1>3, <1>4 DEF Pointwise

\* It takes the lock, and reads the node unless it is obsolete.
LEMMA ExchangeStep ==
    ASSUME NEW t \in Threads, NEW n \in Nodes, Pointwise, ~ Free(t),
           attempt[t][1] = n, compare_exchange_strong(t, n, attempt[t][2]),
           attempt' = [attempt EXCEPT ![t] = NoAttempt],
           \/ UNCHANGED seen
           \/ seen' = [seen EXCEPT ![t][n] = content[n]],
           UNCHANGED <<content, version>>
    PROVE  Pointwise'
<1>0. /\ lock[n] \in Nat /\ ~ isLocked(lock[n]) /\ version[t][n] = None
      /\ attempt[t][2] = lock[n]
      /\ setLockedBit(lock[n]) > lock[n] /\ setLockedBit(lock[n]) \in Nat
      /\ isLocked(setLockedBit(lock[n]))
  <2>1. /\ lock[n] \in Nat /\ ~ isLocked(lock[n]) /\ version[t][n] = None
        /\ attempt[t][2] = lock[n]
      BY DEF Pointwise, Types, PairInv, compare_exchange_strong
  <2> QED  BY <2>1, Bits
<1>1. Types'
  <2>1. lock' \in [Nodes -> Nat] /\ held' \in [Threads -> SUBSET Nodes]
      BY <1>0 DEF Pointwise, Types, compare_exchange_strong
  <2>2. attempt' \in [Threads -> {NoAttempt} \cup (Nodes \X Nat)]
      BY DEF Pointwise, Types
  <2>3. seen' \in [Threads -> [Nodes -> Nat \cup {None, Torn}]]
    <3>1. CASE UNCHANGED seen
        BY <3>1 DEF Pointwise, Types
    <3>2. CASE seen' = [seen EXCEPT ![t][n] = content[n]]
        BY <3>2 DEF Pointwise, Types
    <3> QED  BY <3>1, <3>2
  <2> QED  BY <2>1, <2>2, <2>3 DEF Pointwise, Types
<1>2. \A u \in Threads, k \in Nodes :
          /\ ~ (u = t /\ k = n) => seen'[u][k] = seen[u][k]
          /\ k \in held'[u] <=> k \in held[u] \/ (u = t /\ k = n)
    BY DEF Pointwise, Types, compare_exchange_strong
<1>3. /\ \A k \in Nodes : lock'[k] = IF k = n THEN setLockedBit(lock[n]) ELSE lock[k]
      /\ attempt'[t] = NoAttempt
      /\ \A u \in Threads \ {t} : attempt'[u] = attempt[u]
    BY <1>0 DEF Pointwise, Types, compare_exchange_strong
<1>4. \A u \in Threads : n \notin held[u]
    BY <1>0 DEF Pointwise, NodeInv
<1>5. ASSUME NEW k \in Nodes  PROVE  NodeInv(k)'
  <2>1. CASE k = n
      BY <1>0, <1>2, <1>3, <2>1, LockedNode DEF Pointwise
  <2>2. CASE k # n
      BY <1>2, <1>3, <2>2, SameNode DEF Pointwise
  <2> QED  BY <2>1, <2>2
<1>6. PairInv(t, n)'
  <2>1. /\ version'[t][n] = None /\ lock'[n] # None /\ n \in held'[t]
        /\ content[n] # Torn
      BY <1>0, <1>2, <1>3 DEF Pointwise, NodeInv, None
  <2>2. seen[t][n] = None
      BY <1>0, <1>4 DEF Pointwise, PairInv
  <2>3. seen'[t][n] # None => seen'[t][n] = content[n]
      BY <2>2 DEF Pointwise, Types
  <2>4. Free(t)'
      BY <1>3 DEF Free
  <2> QED  BY <2>1, <2>3, <2>4 DEF PairInv
<1>7. ASSUME NEW k \in Nodes, k # n  PROVE  PairInv(t, k)'
  <2>1. /\ lock'[k] = lock[k] /\ seen'[t][k] = seen[t][k]
        /\ k \in held'[t] <=> k \in held[t]
      BY <1>2, <1>3, <1>7
  <2>2. Free(t)' /\ PairInv(t, k)
      BY <1>3 DEF Free, Pointwise
  <2> QED  BY <2>1, <2>2 DEF PairInv
<1>8. ASSUME NEW u \in Threads, NEW k \in Nodes, u # t  PROVE  PairInv(u, k)'
  <2>1. SameView(u, k)
      BY <1>2, <1>3, <1>8 DEF SameView
  <2> QED  BY <1>0, <1>1, <1>3, <1>4, <2>1, OtherView DEF Pointwise
<1> QED  BY <1>1, <1>5, <1>6, <1>7, <1>8 DEF Pointwise

\* The holder of a node changes its content, and knows what it wrote.
LEMMA ContentStep ==
    ASSUME NEW t \in Threads, NEW n \in Nodes, NEW value \in Nat \cup {Torn},
           Pointwise, n \in held[t], content' = [content EXCEPT ![n] = value],
           seen'[t][n] \in Nat, value \in {Torn, seen'[t][n]},
           seen' = [seen EXCEPT ![t][n] = seen'[t][n]],
           UNCHANGED <<lock, held, version, attempt>>
    PROVE  Pointwise'
<1>0. PICK new \in Nat : new = seen'[t][n]
    OBVIOUS
<1>1. Types'
  <2>1. seen' = [seen EXCEPT ![t][n] = new]
      BY <1>0
  <2>2. seen' \in [Threads -> [Nodes -> Nat \cup {None, Torn}]]
      BY <2>1 DEF Pointwise, Types
  <2>3. content' \in [Nodes -> Nat \cup {Torn}]
      BY DEF Pointwise, Types
  <2> QED  BY <2>2, <2>3 DEF Pointwise, Types
<1>2. \A u \in Threads, k \in Nodes :
          ~ (u = t /\ k = n) => seen'[u][k] = seen[u][k]
    BY <1>0 DEF Pointwise, Types
<1>3. \A k \in Nodes : content'[k] = IF k = n THEN value ELSE content[k]
    BY DEF Pointwise, Types
<1>4. isLocked(lock[n]) /\ version[t][n] = None
    BY DEF Pointwise, NodeInv, PairInv
<1>5. ASSUME NEW k \in Nodes  PROVE  NodeInv(k)'
    BY <1>3, <1>4, SameNode DEF Pointwise
<1>6. PairInv(t, n)'
  <2>1. PairInv(t, n) /\ content'[n] = value /\ lock[n] \in Nat
      BY <1>3 DEF Pointwise, Types
  <2>2. version'[t][n] # lock'[n]
      BY <1>4, <2>1 DEF None
  <2> QED  BY <1>4, <2>1, <2>2 DEF PairInv, Free
<1>7. ASSUME NEW u \in Threads, NEW k \in Nodes, ~ (u = t /\ k = n)
      PROVE  PairInv(u, k)'
  <2>1. SameView(u, k)
      BY <1>2, <1>7 DEF SameView
  <2>2. k = n => k \notin held[u]
      BY <1>7 DEF Pointwise, NodeInv
  <2> QED  BY <1>1, <1>3, <1>4, <2>1, <2>2, OtherView DEF Pointwise
<1> QED  BY <1>1, <1>5, <1>6, <1>7 DEF Pointwise

\* In the initial state nothing is locked and nobody knows anything.
LEMMA InitLock == Init => Pointwise
<1> SUFFICES ASSUME Init  PROVE  Pointwise
    OBVIOUS
<1>1. Types
    BY DEF Init, Types
<1>2. ~ isLocked(0)
    BY DEF isLocked
<1>3. \A k \in Nodes : NodeInv(k)
    BY <1>2 DEF Init, NodeInv, Torn
<1>4. \A u \in Threads, k \in Nodes : PairInv(u, k)
    BY DEF Init, PairInv, Free
<1> QED  BY <1>1, <1>3, <1>4 DEF Pointwise

\* Every call preserves the invariant.
LEMMA NextLock == Pointwise /\ [Next]_vars => Pointwise'
<1> SUFFICES ASSUME Pointwise, [Next]_vars  PROVE  Pointwise'
    OBVIOUS
<1>0. /\ lock \in [Nodes -> Nat]
      /\ \A t \in Threads : \A n \in held[t] : n \in Nodes /\ isLocked(lock[n])
    BY DEF Pointwise, Types, NodeInv
<1>1. ASSUME NEW t \in Threads, NEW n \in Nodes, readLockOrRestart(t, n)
      PROVE  Pointwise'
    BY <1>1, RestartStep, NoteStep DEF readLockOrRestart, awaitNodeUnlocked
<1>2. ASSUME NEW t \in Threads, NEW n \in Nodes, readUnlockOrRestart(t, n)
      PROVE  Pointwise'
    BY <1>2, RestartStep, ReadDoneStep DEF readUnlockOrRestart
<1>3. ASSUME NEW t \in Threads, NEW n \in Nodes, upgradeToWriteLockOrRestart(t, n)
      PROVE  Pointwise'
    BY <1>3, RestartStep, UpgradeStep DEF upgradeToWriteLockOrRestart
<1>4. ASSUME NEW t \in Threads, NEW n \in Nodes, writeLockOrRestart_load(t, n)
      PROVE  Pointwise'
    BY <1>4, LoadStep DEF writeLockOrRestart_load, awaitNodeUnlocked
<1>5. ASSUME NEW t \in Threads, NEW n \in Nodes, Write(t, n)
      PROVE  Pointwise'
  <2>1. seen[t][n] = content[n] /\ content[n] \in Nat
    <3>1. content[n] \in Nat /\ content[n] # Torn
        BY <1>5, BoundsAssumption DEF Write, Torn
    <3> QED  BY <1>5, <3>1 DEF Write, Pointwise, PairInv
  <2>2. seen' = [seen EXCEPT ![t][n] = seen'[t][n]] /\ seen'[t][n] = seen[t][n]
      BY <1>5 DEF Write, Pointwise, Types
  <2> QED  BY <1>5, <2>1, <2>2, ContentStep DEF Write
<1>6. ASSUME NEW t \in Threads, NEW n \in Nodes, WriteDone(t, n)
      PROVE  Pointwise'
  <2>1. seen[t][n] + 1 \in Nat
      BY <1>6 DEF WriteDone, Pointwise, PairInv
  <2>2. seen'[t][n] = seen[t][n] + 1
      BY <1>6 DEF WriteDone, Pointwise, Types
  <2> QED  BY <1>6, <2>1, <2>2, ContentStep DEF WriteDone
<1>7. ASSUME NEW t \in Threads, NEW n \in Nodes,
             writeUnlock(t, n) \/ downgradeToReadLock(t, n)
      PROVE  Pointwise'
  <2>1. n \in held[t]
      BY <1>7 DEF writeUnlock, downgradeToReadLock
  <2>2. /\ unlocked(lock[n]) \in Nat /\ unlocked(lock[n]) > lock[n]
        /\ ~ isLocked(unlocked(lock[n]))
        /\ isObsolete(unlocked(lock[n])) <=> isObsolete(lock[n])
      BY <1>0, <2>1, Bits
  <2>3. CASE writeUnlock(t, n)
      BY <2>2, <2>3, UnlockStep DEF writeUnlock
  <2>4. CASE downgradeToReadLock(t, n)
      BY <2>2, <2>4, UnlockStep DEF downgradeToReadLock
  <2> QED  BY <1>7, <2>3, <2>4
<1>8. ASSUME NEW t \in Threads, NEW n \in Nodes, writeUnlockObsolete(t, n)
      PROVE  Pointwise'
  <2>1. n \in held[t] /\ ~ isObsolete(lock[n])
      BY <1>8 DEF writeUnlockObsolete
  <2>2. /\ unlockedObsolete(lock[n]) \in Nat
        /\ unlockedObsolete(lock[n]) > lock[n]
        /\ ~ isLocked(unlockedObsolete(lock[n]))
      BY <1>0, <2>1, Bits
  <2> QED  BY <1>8, <2>2, UnlockStep DEF writeUnlockObsolete
<1>9. ASSUME NEW t \in Threads, NEW n \in Nodes, NEW m \in Nodes,
             readUnlockOrRestart_locked(t, n, m)
      PROVE  Pointwise'
    BY <1>9, RestartUnlockStep, ReadDoneStep DEF readUnlockOrRestart_locked
<1>10. ASSUME NEW t \in Threads, NEW n \in Nodes, NEW m \in Nodes,
              upgradeToWriteLockOrRestart_locked(t, n, m)
       PROVE  Pointwise'
    BY <1>10, RestartUnlockStep, UpgradeStep DEF upgradeToWriteLockOrRestart_locked
<1>11. ASSUME NEW t \in Threads, writeLockOrRestart_exchange(t)
       PROVE  Pointwise'
  <2>1. ~ Free(t) /\ attempt[t][1] \in Nodes
      BY <1>11 DEF writeLockOrRestart_exchange, Pointwise, Types, Free
  <2>2. version[t][attempt[t][1]] = None
      BY <2>1 DEF Pointwise, PairInv
  <2> QED
      BY <1>11, <2>1, <2>2, ExchangeStep, LoadStep
      DEF writeLockOrRestart_exchange, awaitNodeUnlocked
<1>12. CASE UNCHANGED vars
    BY <1>12 DEF vars, Pointwise, Types, NodeInv, PairInv, Free
<1> QED
    BY <1>1, <1>2, <1>3, <1>4, <1>5, <1>6, <1>7, <1>8, <1>9, <1>10, <1>11, <1>12,
       ReadStep
    DEF Next

\* Whatever the threads do, LockInv holds.
THEOREM LockInvariant == Spec => []LockInv
<1>1. Spec => []Pointwise
    BY InitLock, NextLock, PTL DEF Spec
<1> QED  BY <1>1, LockInvPointwise, PTL

\* The locked bit and the holders agree, and no two threads hold a node: the
\* exchange and the additions implement mutual exclusion for any number of
\* threads and nodes.
THEOREM MutualExclusion == Spec => []OneHolder
<1>1. LockInv => OneHolder
    BY DEF LockInv
<1> QED  BY <1>1, LockInvariant, PTL

\* A check that succeeds proves that what was read is current and not torn.
THEOREM ValidatedReads == Spec => []ValidatedReadIsCurrent
<1>1. LockInv => ValidatedReadIsCurrent
    BY DEF LockInv
<1> QED  BY <1>1, LockInvariant, PTL

\* A reader that upgrades writes on top of the current content: no update is
\* lost.
THEOREM UpgradedReads == Spec => []UpgradedReadIsCurrent
<1>1. LockInv => UpgradedReadIsCurrent
    BY DEF LockInv
<1> QED  BY <1>1, LockInvariant, PTL

------------------------------------------------------------------------------
(* Obsolete nodes                                                          *)

\* A node between the stores of a write is not obsolete: the writer saw that
\* when it began, and nobody else can set the bit while it holds the lock.
TornIsLive == \A n \in Nodes : content[n] = Torn => ~ isObsolete(lock[n])

\* What a call does to the word and the content of a node.
NodeStep(n) ==
    \/ /\ lock'[n] \in {lock[n], setLockedBit(lock[n]), unlocked(lock[n])}
       /\ \/ content'[n] = content[n]
          \/ ~ isObsolete(lock[n])
          \/ content[n] = Torn
    \/ /\ lock'[n] = unlockedObsolete(lock[n])
       /\ ~ isObsolete(lock[n])
       /\ content'[n] = content[n] /\ content[n] # Torn

\* Every call changes every node in one of these ways.
LEMMA NodeSteps ==
    ASSUME Pointwise, [Next]_vars, NEW k \in Nodes
    PROVE  NodeStep(k)
<1>0. lock \in [Nodes -> Nat] /\ content \in [Nodes -> Nat \cup {Torn}]
    BY DEF Pointwise, Types
<1>1. ASSUME UNCHANGED <<lock, content>>  PROVE  NodeStep(k)
    BY <1>1 DEF NodeStep
<1>2. ASSUME NEW n \in Nodes, lock' = [lock EXCEPT ![n] = unlocked(@)],
             UNCHANGED content
      PROVE  NodeStep(k)
    BY <1>0, <1>2 DEF NodeStep
<1>3. ASSUME NEW t \in Threads, NEW n \in Nodes, NEW word,
             compare_exchange_strong(t, n, word), UNCHANGED content
      PROVE  NodeStep(k)
    BY <1>0, <1>3 DEF NodeStep, compare_exchange_strong
<1>4. ASSUME NEW t \in Threads, NEW n \in Nodes,
             readLockOrRestart(t, n) \/ Read(t, n) \/ readUnlockOrRestart(t, n)
                \/ writeLockOrRestart_load(t, n)
      PROVE  NodeStep(k)
    BY <1>1, <1>4
    DEF readLockOrRestart, Read, readUnlockOrRestart, writeLockOrRestart_load
<1>5. ASSUME NEW t \in Threads, NEW n \in Nodes,
             upgradeToWriteLockOrRestart(t, n)
      PROVE  NodeStep(k)
    BY <1>1, <1>3, <1>5 DEF upgradeToWriteLockOrRestart
<1>6. ASSUME NEW t \in Threads, NEW n \in Nodes, Write(t, n) \/ WriteDone(t, n)
      PROVE  NodeStep(k)
    BY <1>0, <1>6 DEF Write, WriteDone, NodeStep
<1>7. ASSUME NEW t \in Threads, NEW n \in Nodes,
             writeUnlock(t, n) \/ downgradeToReadLock(t, n)
      PROVE  NodeStep(k)
    BY <1>2, <1>7 DEF writeUnlock, downgradeToReadLock
<1>8. ASSUME NEW t \in Threads, NEW n \in Nodes, writeUnlockObsolete(t, n)
      PROVE  NodeStep(k)
    BY <1>0, <1>8 DEF writeUnlockObsolete, NodeStep
<1>9. ASSUME NEW t \in Threads, NEW n \in Nodes, NEW m \in Nodes,
             readUnlockOrRestart_locked(t, n, m)
      PROVE  NodeStep(k)
    BY <1>1, <1>2, <1>9 DEF readUnlockOrRestart_locked
<1>10. ASSUME NEW t \in Threads, NEW n \in Nodes, NEW m \in Nodes,
              upgradeToWriteLockOrRestart_locked(t, n, m)
       PROVE  NodeStep(k)
    BY <1>2, <1>3, <1>10 DEF upgradeToWriteLockOrRestart_locked
<1>11. ASSUME NEW t \in Threads, writeLockOrRestart_exchange(t)
       PROVE  NodeStep(k)
  <2>1. attempt[t][1] \in Nodes
      BY <1>11 DEF writeLockOrRestart_exchange, Pointwise, Types, Free
  <2> QED  BY <1>1, <1>3, <1>11, <2>1 DEF writeLockOrRestart_exchange
<1> QED
    BY <1>1, <1>4, <1>5, <1>6, <1>7, <1>8, <1>9, <1>10, <1>11 DEF Next, vars

\* Adding the locked bit, or carrying it, keeps the obsolete bit.
LEMMA NodeStepKeepsObsolete ==
    ASSUME Pointwise, TornIsLive, NEW n \in Nodes, NodeStep(n)
    PROVE  /\ isObsolete(lock[n]) => /\ isObsolete(lock'[n])
                                     /\ content'[n] = content[n]
           /\ content'[n] = Torn => ~ isObsolete(lock'[n])
<1>1. lock[n] \in Nat
    BY DEF Pointwise, Types
<1>2. lock'[n] # unlockedObsolete(lock[n]) =>
         (isObsolete(lock'[n]) <=> isObsolete(lock[n]))
    BY <1>1, Bits DEF NodeStep
<1> QED  BY <1>1, <1>2, Bits DEF NodeStep, TornIsLive

\* Once a node is obsolete it stays so and its content is final, whichever
\* threads still take and release its lock.
THEOREM ObsoleteForever == Spec => ObsoleteIsFinal
<1>1. Spec => []Pointwise
    BY InitLock, NextLock, PTL DEF Spec
<1>2. Init => TornIsLive
    BY DEF Init, TornIsLive, Torn
<1>3. Pointwise /\ TornIsLive /\ [Next]_vars => TornIsLive'
    BY NodeSteps, NodeStepKeepsObsolete DEF TornIsLive
<1>4. Pointwise /\ TornIsLive /\ [Next]_vars =>
         [\A n \in Nodes :
             isObsolete(lock[n]) => isObsolete(lock'[n]) /\ content'[n] = content[n]]_vars
    BY NodeSteps, NodeStepKeepsObsolete
<1> QED  BY <1>1, <1>2, <1>3, <1>4, PTL DEF Spec, ObsoleteIsFinal
=============================================================================
