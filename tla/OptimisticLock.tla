--------------------------- MODULE OptimisticLock ---------------------------
(***************************************************************************)
(* The optimistic lock of utils/optimistic_lock.hpp, the lock every        *)
(* VersionEntry carries.  A node's lock is one word: bit 0 says that the   *)
(* node is obsolete, bit 1 that it is write locked, and the bits above     *)
(* count.  Readers take no lock: they note the word, read, and check that  *)
(* the word is still the same; on "restart required" they start over.      *)
(*                                                                         *)
(* The calls are those of the header; who calls them, in which order and   *)
(* on which nodes, is left to any client that keeps to their contract: it  *)
(* writes only under the lock, checks what it read before it relies on it, *)
(* and lets go of everything when it is told to restart.                   *)
(*                                                                         *)
(* A node's content is the number of writes it has seen, or Torn between   *)
(* the first and the last store of a write.                                *)
(***************************************************************************)
EXTENDS Integers, FiniteSets

CONSTANTS Threads, Nodes,
          MaxWord,    \* bounds the lock words: no lock is taken beyond it
          MaxWrites   \* bounds the writes to a node

ASSUME BoundsAssumption == MaxWord \in Nat /\ MaxWrites \in Nat

VARIABLES
    lock,      \* the lock word of every node
    content,   \* the content of every node
    held,      \* the nodes each thread holds write locked
    version,   \* the word each thread noted for each node, or None
    seen,      \* the content each thread read under that version, or None
    attempt    \* the node and word of a thread inside writeLockOrRestart

vars == <<lock, content, held, version, seen, attempt>>

None == -1
Torn == -2
NoAttempt == <<>>

------------------------------------------------------------------------------
setLockedBit_unset(word) == word
setLockedBit_wrong_bit(word) == word + 1
setLockedBit(word) == word + 2

isLocked(word) == (word \div 2) % 2 = 1
isObsolete(word) == word % 2 = 1

\* The word after the fetch_add that unlocks: it clears the locked bit and
\* carries into the count.
unlocked_bit_cleared(word) == word - 2
unlocked(word) == word + 2

\* Likewise, with the obsolete bit set.
unlockedObsolete(word) == word + 3

Init ==
    /\ lock = [n \in Nodes |-> 0]
    /\ content = [n \in Nodes |-> 0]
    /\ held = [t \in Threads |-> {}]
    /\ version = [t \in Threads |-> [n \in Nodes |-> None]]
    /\ seen = [t \in Threads |-> [n \in Nodes |-> None]]
    /\ attempt = [t \in Threads |-> NoAttempt]

\* A thread that is not in the middle of writeLockOrRestart.
Free(t) == attempt[t] = NoAttempt

Note(t, n, word) == version' = [version EXCEPT ![t][n] = word]

\* The client starts over: it forgets what it noted and read.
Restart(t) ==
    /\ version' = [version EXCEPT ![t] = [n \in Nodes |-> None]]
    /\ seen' = [seen EXCEPT ![t] = [n \in Nodes |-> None]]

Release(t, n) == held' = [held EXCEPT ![t] = @ \ {n}]

\* The loop ends when the word it loads is unlocked.
awaitNodeUnlocked(n) == ~ isLocked(lock[n])

\* An obsolete node makes the caller restart.  A client that holds a lock does
\* not wait for another.
readLockOrRestart(t, n) ==
    /\ Free(t) /\ held[t] = {} /\ version[t][n] = None
    /\ awaitNodeUnlocked(n)
    /\ IF isObsolete(lock[n])
       THEN Restart(t)
       ELSE Note(t, n, lock[n]) /\ UNCHANGED seen
    /\ UNCHANGED <<lock, content, held, attempt>>

\* The client reads the content, whatever another thread is doing to it.
Read(t, n) ==
    /\ Free(t) /\ version[t][n] # None
    /\ seen' = [seen EXCEPT ![t][n] = content[n]]
    /\ UNCHANGED <<lock, content, held, version, attempt>>

\* readUnlockOrRestart and checkOrRestart: the reader is done with the node.
readUnlockOrRestart(t, n) ==
    /\ Free(t) /\ held[t] = {} /\ version[t][n] # None
    /\ IF version[t][n] # lock[n]
       THEN Restart(t)
       ELSE /\ Note(t, n, None)
            /\ seen' = [seen EXCEPT ![t][n] = None]
    /\ UNCHANGED <<lock, content, held, attempt>>

\* The same call by a client that holds another node: it also unlocks it.
readUnlockOrRestart_locked(t, n, lockedNode) ==
    /\ Free(t) /\ held[t] = {lockedNode} /\ content[lockedNode] # Torn
    /\ n # lockedNode /\ version[t][n] # None
    /\ IF version[t][n] # lock[n]
       THEN /\ lock' = [lock EXCEPT ![lockedNode] = unlocked(@)]
            /\ Release(t, lockedNode)
            /\ Restart(t)
       ELSE /\ Note(t, n, None)
            /\ seen' = [seen EXCEPT ![t][n] = None]
            /\ UNCHANGED <<lock, held>>
    /\ UNCHANGED <<content, attempt>>

\* The exchange succeeds only if the word is the one noted.
compare_exchange_strong(t, n, word) ==
    /\ lock[n] < MaxWord
    /\ word = lock[n]
    /\ lock' = [lock EXCEPT ![n] = setLockedBit(word)]
    /\ held' = [held EXCEPT ![t] = @ \cup {n}]

upgradeToWriteLockOrRestart(t, n) ==
    /\ Free(t) /\ held[t] = {} /\ version[t][n] # None
    /\ \/ /\ compare_exchange_strong(t, n, version[t][n])
          /\ Note(t, n, None)
          /\ UNCHANGED seen
       \/ /\ version[t][n] # lock[n]
          /\ Restart(t)
          /\ UNCHANGED <<lock, held>>
    /\ UNCHANGED <<content, attempt>>

\* Lock coupling: on failure the node already locked is unlocked.
upgradeToWriteLockOrRestart_locked(t, n, lockedNode) ==
    /\ Free(t) /\ held[t] = {lockedNode} /\ content[lockedNode] # Torn
    /\ n # lockedNode /\ version[t][n] # None
    /\ \/ /\ compare_exchange_strong(t, n, version[t][n])
          /\ Note(t, n, None)
          /\ UNCHANGED seen
       \/ /\ version[t][n] # lock[n]
          /\ lock' = [lock EXCEPT ![lockedNode] = unlocked(@)]
          /\ Release(t, lockedNode)
          /\ Restart(t)
    /\ UNCHANGED <<content, attempt>>

\* writeLockOrRestart, first half of a turn: await an unlocked word.
writeLockOrRestart_load(t, n) ==
    /\ Free(t) /\ held[t] = {} /\ version[t][n] = None
    /\ awaitNodeUnlocked(n)
    /\ attempt' = [attempt EXCEPT ![t] = <<n, lock[n]>>]
    /\ UNCHANGED <<lock, content, held, version, seen>>

\* Second half: exchange, or turn again.  On an obsolete node the call returns
\* "restart required" with the lock taken.
writeLockOrRestart_exchange(t) ==
    /\ ~ Free(t)
    /\ LET n == attempt[t][1]
           word == attempt[t][2]
       IN  \/ /\ compare_exchange_strong(t, n, word)
              /\ attempt' = [attempt EXCEPT ![t] = NoAttempt]
              /\ seen' = IF isObsolete(word) THEN seen
                         ELSE [seen EXCEPT ![t][n] = content[n]]
           \/ /\ word # lock[n]
              /\ awaitNodeUnlocked(n)
              /\ attempt' = [attempt EXCEPT ![t] = <<n, lock[n]>>]
              /\ UNCHANGED <<lock, held, seen>>
    /\ UNCHANGED <<content, version>>

\* The stores of a write under the lock: they build on the content the writer
\* has seen, so an outdated one would lose an update.
Write(t, n) ==
    /\ Free(t) /\ n \in held[t] /\ ~ isObsolete(lock[n])
    /\ content[n] \in 0 .. MaxWrites - 1 /\ seen[t][n] # None
    /\ content' = [content EXCEPT ![n] = Torn]
    /\ UNCHANGED <<lock, held, version, seen, attempt>>

WriteDone(t, n) ==
    /\ n \in held[t] /\ content[n] = Torn
    /\ content' = [content EXCEPT ![n] = seen[t][n] + 1]
    /\ seen' = [seen EXCEPT ![t][n] = seen[t][n] + 1]
    /\ UNCHANGED <<lock, held, version, attempt>>

writeUnlock(t, n) ==
    /\ Free(t) /\ n \in held[t] /\ content[n] # Torn
    /\ lock' = [lock EXCEPT ![n] = unlocked(@)]
    /\ Release(t, n)
    /\ seen' = [seen EXCEPT ![t][n] = None]
    /\ UNCHANGED <<content, version, attempt>>

writeUnlockObsolete(t, n) ==
    /\ Free(t) /\ n \in held[t] /\ content[n] # Torn /\ ~ isObsolete(lock[n])
    /\ lock' = [lock EXCEPT ![n] = unlockedObsolete(@)]
    /\ Release(t, n)
    /\ seen' = [seen EXCEPT ![t][n] = None]
    /\ UNCHANGED <<content, version, attempt>>

downgradeToReadLock(t, n) ==
    /\ Free(t) /\ n \in held[t] /\ content[n] # Torn /\ ~ isObsolete(lock[n])
    /\ lock' = [lock EXCEPT ![n] = unlocked(@)]
    /\ Release(t, n)
    /\ Note(t, n, unlocked(lock[n]))
    /\ UNCHANGED <<content, seen, attempt>>

Next ==
    \E t \in Threads :
        \/ \E n \in Nodes :
              \/ readLockOrRestart(t, n) \/ Read(t, n)
              \/ readUnlockOrRestart(t, n)
              \/ upgradeToWriteLockOrRestart(t, n)
              \/ writeLockOrRestart_load(t, n)
              \/ Write(t, n) \/ WriteDone(t, n)
              \/ writeUnlock(t, n) \/ writeUnlockObsolete(t, n)
              \/ downgradeToReadLock(t, n)
        \/ \E n, m \in Nodes :
              \/ readUnlockOrRestart_locked(t, n, m)
              \/ upgradeToWriteLockOrRestart_locked(t, n, m)
        \/ writeLockOrRestart_exchange(t)

Spec == Init /\ [][Next]_vars
------------------------------------------------------------------------------
(* Properties                                                              *)

\* The words a thread noted, and may pass to compare_exchange_strong, were
\* unlocked and are not ahead of the lock.
NotedWords ==
    \A t \in Threads :
        /\ \A n \in Nodes :
              version[t][n] # None => /\ ~ isLocked(version[t][n])
                                      /\ ~ isObsolete(version[t][n])
                                      /\ version[t][n] <= lock[n]
        /\ ~ Free(t) => /\ ~ isLocked(attempt[t][2])
                        /\ attempt[t][2] <= lock[attempt[t][1]]

\* The words, the contents and what each thread noted and read are in range;
\* a thread only ever goes on with words awaitNodeUnlocked can return.
LockTypeOK ==
    /\ lock \in [Nodes -> Nat]
    /\ content \in [Nodes -> Nat \cup {Torn}]
    /\ held \in [Threads -> SUBSET Nodes]
    /\ version \in [Threads -> [Nodes -> Nat \cup {None}]]
    /\ seen \in [Threads -> [Nodes -> Nat \cup {None, Torn}]]
    /\ attempt \in [Threads -> {NoAttempt} \cup (Nodes \X Nat)]
    /\ NotedWords

\* The locked bit of a node is set exactly while some thread holds the node,
\* and never two threads hold it: readers that upgrade, writers that spin and
\* threads that a failed upgrade makes unlock another node may interleave in
\* any way.
OneHolder ==
    \A n \in Nodes :
        /\ isLocked(lock[n]) <=> \E t \in Threads : n \in held[t]
        /\ \A t, u \in Threads : n \in held[t] /\ n \in held[u] => t = u

\* What a reader read is the current, whole content of the node as long as the
\* lock word is the one it noted before: a check that succeeds proves that no
\* writer was or came in between, torn writes included.
ValidatedReadIsCurrent ==
    \A t \in Threads, n \in Nodes :
        version[t][n] = lock[n] /\ seen[t][n] # None => seen[t][n] = content[n]

\* A thread that has upgraded to the write lock still has the current content:
\* what it read before the upgrade cannot be overwritten by another thread,
\* so a write that builds on it loses no update.
UpgradedReadIsCurrent ==
    \A t \in Threads : \A n \in held[t] :
        seen[t][n] # None /\ content[n] # Torn => seen[t][n] = content[n]

\* What a thread remembers of a node: it has read only what it noted or holds,
\* it notes no word of a node it holds or is about to lock, and a node between
\* the stores of a write is locked by a writer that knows what it builds on.
Remembered ==
    \A n \in Nodes :
        /\ content[n] = Torn => isLocked(lock[n])
        /\ \A t \in Threads :
              /\ seen[t][n] # None => version[t][n] # None \/ n \in held[t]
              /\ n \in held[t] => version[t][n] = None
              /\ ~ Free(t) /\ attempt[t][1] = n => version[t][n] = None
              /\ n \in held[t] /\ content[n] = Torn => seen[t][n] \in Nat

\* What every call preserves.
LockInv == LockTypeOK /\ OneHolder /\ Remembered
              /\ ValidatedReadIsCurrent /\ UpgradedReadIsCurrent

\* A node stays obsolete, and nobody writes to it any more, although
\* writeLockOrRestart still takes its lock.
ObsoleteIsFinal ==
    [][\A n \in Nodes :
          isObsolete(lock[n]) => isObsolete(lock'[n]) /\ content'[n] = content[n]
      ]_vars
==============================================================================
