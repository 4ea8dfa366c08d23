--------------------------- MODULE DispatchProofs ---------------------------
(***************************************************************************)
(* Proofs about Dispatch for any number of threads: its type invariant,    *)
(* the exclusive access it grants and that it loses no wakeup.             *)
(***************************************************************************)
EXTENDS Dispatch, FiniteSetTheorems, SequenceTheorems, TLAPS

Requesters == {t \in Threads : pc[t] \in {"lock", "held"}}

(* The lock: who requested it is counted, who has it is recorded, and the  *)
(* core is inside mp_dispatch_queue_process, not on an item, meanwhile.    *)
LockInv ==
  /\ lockRequests = Cardinality(Requesters)
  /\ \A t \in Threads : pc[t] = "held" <=> lockedBy = t
  /\ locked <=> (lockedBy # NobodyHas \/ core = "item")
  /\ lockedBy # NobodyHas => core \in {"loop", "trapped", "idle"}
  /\ inProcess <=> core # "out"

QueueInv == QueueTypeOK /\ LockInv /\ NobodySleepsOn

-----------------------------------------------------------------------------
(* lock_requests is 0 exactly when nobody waits for the lock or has it.    *)
LEMMA RequestsCounted ==
  ASSUME QueueTypeOK, LockInv
  PROVE  /\ lockRequests \in Nat
         /\ lockRequests = 0 <=> \A t \in Threads : pc[t] \notin {"lock", "held"}
  <1>1. IsFiniteSet(Requesters)
    BY ThreadsFinite, FS_Subset DEF Requesters
  <1>2. lockRequests \in Nat /\ (lockRequests = 0 <=> Requesters = {})
    BY <1>1, FS_CardinalityType, FS_EmptySet DEF LockInv
  <1> QED BY <1>2 DEF Requesters

(* A thread that asks for the lock is one more to be counted.              *)
LEMMA RequestAdds ==
  ASSUME QueueTypeOK, LockInv, NEW t \in Threads, pc[t] = "free",
         pc' \in [Threads -> ThreadPcs], pc'[t] \in {"lock", "held"},
         \A u \in Threads \ {t} : pc'[u] = pc[u]
  PROVE  lockRequests + 1 = Cardinality(Requesters')
  <1>1. IsFiniteSet(Requesters) /\ t \notin Requesters
    BY ThreadsFinite, FS_Subset DEF Requesters
  <1>2. Requesters' = Requesters \cup {t}
    BY DEF Requesters
  <1> QED BY <1>1, <1>2, FS_AddElement DEF LockInv

(* A thread that gives the lock back is one less.                          *)
LEMMA RequestRemoves ==
  ASSUME QueueTypeOK, LockInv, NEW t \in Threads, pc[t] = "held",
         pc' = [pc EXCEPT ![t] = "free"]
  PROVE  lockRequests - 1 = Cardinality(Requesters')
  <1>1. IsFiniteSet(Requesters) /\ t \in Requesters
    BY ThreadsFinite, FS_Subset DEF Requesters
  <1>2. Requesters' = Requesters \ {t}
    BY DEF Requesters, QueueTypeOK
  <1> QED BY <1>1, <1>2, FS_RemoveElement DEF LockInv

(* The count never exceeds the number of threads.                          *)
LEMMA RequestBound ==
  ASSUME NEW S, S \subseteq Threads
  PROVE  Cardinality(S) \in 0..Cardinality(Threads)
  <1>1. IsFiniteSet(S) /\ Cardinality(S) <= Cardinality(Threads)
    BY ThreadsFinite, FS_Subset
  <1>2. Cardinality(S) \in Nat /\ Cardinality(Threads) \in Nat
    BY <1>1, ThreadsFinite, FS_CardinalityType
  <1> QED BY <1>1, <1>2

-----------------------------------------------------------------------------
(* The lock through each step of the queue.                                *)

(* A step that leaves the lock alone: the core neither goes outside nor    *)
(* on an item nor comes back, and no thread begins or ends a lock.         *)
LEMMA LockUntouched ==
  ASSUME LockInv, UNCHANGED <<inProcess, locked, lockRequests, lockedBy>>,
         core' \in CorePcs,
         core = "out" <=> core' = "out", core = "item" <=> core' = "item",
         \A t \in Threads : /\ pc'[t] = "held" <=> pc[t] = "held"
                            /\ pc'[t] = "lock" <=> pc[t] = "lock"
  PROVE  LockInv'
  <1>1. Requesters' = Requesters
    BY DEF Requesters
  <1>2. lockRequests' = Cardinality(Requesters')
    BY <1>1 DEF LockInv
  <1>3. \A t \in Threads : pc'[t] = "held" <=> lockedBy' = t
    BY DEF LockInv
  <1>4. lockedBy' # NobodyHas => core' \in {"loop", "trapped", "idle"}
    BY DEF LockInv, CorePcs
  <1>5. locked' <=> (lockedBy' # NobodyHas \/ core' = "item")
    BY DEF LockInv
  <1>6. inProcess' <=> core' # "out"
    BY DEF LockInv
  <1> QED BY <1>2, <1>3, <1>4, <1>5, <1>6 DEF LockInv

(* Sending an item, an interrupt, a timeout or a cancel leaves it alone.   *)
LEMMA SendersLeaveLock ==
  ASSUME QueueTypeOK, LockInv,
         \/ \E kind \in {"async", "notify"} : Enqueue(kind)
         \/ \E t \in Threads : RunBegin(t) \/ RunWaits(t)
         \/ Interrupt \/ AdjustTimeout \/ CancelNotify
  PROVE  LockInv'
  <1>1. UNCHANGED <<inProcess, locked, lockRequests, lockedBy, core>>
    BY DEF Enqueue, RunBegin, RunWaits, Interrupt, AdjustTimeout, CancelNotify, flagVars, coreVars
  <1>2. \A t \in Threads : /\ pc'[t] = "held" <=> pc[t] = "held"
                           /\ pc'[t] = "lock" <=> pc[t] = "lock"
    BY DEF Enqueue, RunBegin, RunWaits, Interrupt, AdjustTimeout, CancelNotify, QueueTypeOK
  <1> QED BY <1>1, <1>2, LockUntouched DEF QueueTypeOK

(* Whoever takes the lock is alone with it: the core is trapped or idle    *)
(* and nobody had it.                                                      *)
LEMMA TakeKeepsLock ==
  ASSUME QueueTypeOK, LockInv, NEW t \in Threads, MutexFree, MayTake, Take(t),
         pc[t] \in {"free", "lock"}, UNCHANGED <<core, inProcess>>,
         lockRequests' = Cardinality(Requesters')
  PROVE  LockInv'
  <1>1. core \in {"trapped", "idle"}
    BY DEF LockInv, MayTake, MutexFree, QueueTypeOK, CorePcs
  <1>2. lockedBy = NobodyHas
    BY DEF LockInv, MayTake
  <1>3. t # NobodyHas
    BY ThreadsFinite DEF NobodyHas
  <1>4. \A u \in Threads : pc'[u] = "held" <=> lockedBy' = u
    BY <1>2, ThreadsFinite DEF LockInv, Take, QueueTypeOK, NobodyHas
  <1>5. locked' <=> (lockedBy' # NobodyHas \/ core' = "item")
    BY <1>3 DEF Take
  <1>6. inProcess' <=> core' # "out"
    BY DEF LockInv
  <1>7. lockedBy' # NobodyHas => core' \in {"loop", "trapped", "idle"}
    BY <1>1
  <1> QED BY <1>4, <1>5, <1>6, <1>7 DEF LockInv

(* mp_dispatch_lock, whether it gets the lock at once or waits first.      *)
LEMMA LockBeginKeepsLock ==
  ASSUME QueueTypeOK, LockInv, NEW t \in Threads, LockBegin(t)
  PROVE  LockInv'
  <1>1. /\ pc' \in [Threads -> ThreadPcs] /\ pc'[t] \in {"lock", "held"}
        /\ \A u \in Threads \ {t} : pc'[u] = pc[u]
    BY DEF LockBegin, Take, QueueTypeOK, ThreadPcs
  <1>2. lockRequests' = Cardinality(Requesters')
    BY <1>1, RequestAdds DEF LockBegin
  <1>3. CASE MayTake /\ Take(t)
    BY <1>2, <1>3, TakeKeepsLock DEF LockBegin, coreVars
  <1>4. CASE /\ ~MayTake /\ pc' = [pc EXCEPT ![t] = "lock"]
             /\ UNCHANGED <<locked, lockedBy>>
    <2>1. \A u \in Threads : pc'[u] = "held" <=> lockedBy' = u
      BY <1>4 DEF LockInv, LockBegin, QueueTypeOK
    <2>2. UNCHANGED <<core, inProcess, locked, lockedBy>>
      BY <1>4 DEF LockBegin, coreVars
    <2> QED BY <1>2, <2>1, <2>2 DEF LockInv
  <1> QED BY <1>3, <1>4 DEF LockBegin

(* Whoever waits for the lock takes it only when it is free.               *)
LEMMA LockWaitsKeepsLock ==
  ASSUME QueueTypeOK, LockInv, NEW t \in Threads, LockWaits(t)
  PROVE  LockInv'
  <1>1. CASE MayTake /\ Take(t)
    <2>1. Requesters' = Requesters
      BY <1>1 DEF Requesters, Take, LockWaits, QueueTypeOK
    <2>2. lockRequests' = Cardinality(Requesters')
      BY <2>1 DEF LockInv, LockWaits
    <2> QED BY <1>1, <2>2, TakeKeepsLock DEF LockWaits, coreVars
  <1>2. CASE UNCHANGED <<locked, lockedBy, pc>>
    BY <1>2, LockUntouched DEF LockWaits, coreVars, QueueTypeOK
  <1> QED BY <1>1, <1>2 DEF LockWaits

(* mp_dispatch_unlock: the only holder gives the lock back.                *)
LEMMA UnlockKeepsLock ==
  ASSUME QueueTypeOK, LockInv, NEW t \in Threads, Unlock(t)
  PROVE  LockInv'
  <1>1. lockRequests' = Cardinality(Requesters')
    BY RequestRemoves DEF Unlock
  <1>2. lockedBy = t /\ t # NobodyHas
    BY ThreadsFinite DEF LockInv, Unlock, NobodyHas
  <1>3. \A u \in Threads : pc'[u] = "held" <=> lockedBy' = u
    BY <1>2, ThreadsFinite DEF LockInv, Unlock, QueueTypeOK, NobodyHas
  <1>4. core' # "item" /\ ~locked' /\ lockedBy' = NobodyHas
    BY <1>2 DEF LockInv, Unlock, coreVars
  <1>5. inProcess' <=> core' # "out"
    BY DEF LockInv, Unlock, coreVars
  <1> QED BY <1>1, <1>3, <1>4, <1>5 DEF LockInv

(* While nobody has requested the lock nobody has it.                      *)
LEMMA NobodyHasIt ==
  ASSUME QueueTypeOK, LockInv, lockRequests = 0
  PROVE  lockedBy = NobodyHas
  <1>1. \A t \in Threads : pc[t] # "held"
    BY RequestsCounted
  <1> QED BY <1>1 DEF LockInv, QueueTypeOK

(* The core goes outside or on an item only while nobody has requested the *)
(* lock, and nobody can have taken it meanwhile.                           *)
LEMMA CoreKeepsLock ==
  ASSUME QueueTypeOK, LockInv,
         \/ \E timeout \in BOOLEAN : ProcessBegins(timeout)
         \/ LoopStep \/ ItemEnds \/ TimedOut
  PROVE  LockInv'
  <1>1. UNCHANGED <<pc, lockedBy, lockRequests>>
    BY DEF ProcessBegins, LoopStep, ItemEnds, TimedOut, LoopTrapped, LoopTakesItem, LoopIdles,
           LoopEnds, CoreWakes, flagVars
  <1>2. /\ lockRequests' = Cardinality(Requesters')
        /\ \A t \in Threads : pc'[t] = "held" <=> lockedBy' = t
    BY <1>1 DEF LockInv, Requesters
  <1>3. lockRequests \in Nat
    BY RequestsCounted
  <1>4. ASSUME NEW timeout \in BOOLEAN, ProcessBegins(timeout) PROVE LockInv'
    BY <1>2, <1>4 DEF LockInv, ProcessBegins
  <1>5. CASE LoopTrapped \/ LoopIdles \/ CoreWakes \/ TimedOut
    BY <1>2, <1>5 DEF LockInv, LoopTrapped, LoopIdles, CoreWakes, TimedOut, flagVars
  <1>6. CASE LoopTakesItem
    <2>1. lockedBy = NobodyHas
      BY <1>3, <1>6, NobodyHasIt DEF LoopTakesItem, LockWaited
    <2> QED BY <1>2, <1>6, <2>1 DEF LockInv, LoopTakesItem
  <1>7. CASE LoopEnds
    <2>1. lockedBy = NobodyHas
      BY <1>3, <1>7, NobodyHasIt DEF LoopEnds, LockWaited
    <2> QED BY <1>2, <1>7, <2>1 DEF LockInv, LoopEnds
  <1>8. CASE ItemEnds
    BY <1>2, <1>8 DEF LockInv, ItemEnds
  <1> QED BY <1>4, <1>5, <1>6, <1>7, <1>8 DEF LoopStep

(* The lock is kept by every step of the queue.                            *)
LEMMA LockStep ==
  ASSUME QueueTypeOK, LockInv, [QueueNext]_queueVars
  PROVE  LockInv'
  <1>1. CASE UNCHANGED queueVars
    BY <1>1, LockUntouched DEF queueVars, flagVars, QueueTypeOK
  <1>2. CASE QueueNext
    BY <1>2, SendersLeaveLock, LockBeginKeepsLock, LockWaitsKeepsLock, UnlockKeepsLock,
       CoreKeepsLock DEF QueueNext, ThreadWaits
  <1> QED BY <1>1, <1>2

-----------------------------------------------------------------------------
(* Types.                                                                  *)

(* Appending an item, or dropping a mergeable one, keeps the queue's type. *)
LEMMA AppendTypes ==
  ASSUME QueueTypeOK, NEW i \in Kinds \X Everyone, AppendItem(i)
  PROVE  /\ queue' \in Seq(Kinds \X Everyone)
         /\ interrupted' \in BOOLEAN /\ asleep' \subseteq Everyone
  <1>1. Append(queue, i) \in Seq(Kinds \X Everyone)
    BY DEF QueueTypeOK
  <1>2. \/ UNCHANGED <<queue, interrupted, asleep>>
        \/ queue' = Append(queue, i) /\ interrupted' = TRUE /\ asleep' = {}
    BY DEF AppendItem, Broadcast
  <1> QED BY <1>1, <1>2 DEF QueueTypeOK

(* Whoever sends keeps the types: the items it sends are of a kind that    *)
(* the core knows, for a thread or for nobody.                             *)
LEMMA SendersTypes ==
  ASSUME QueueTypeOK,
         \/ \E kind \in {"async", "notify"} : Enqueue(kind)
         \/ \E t \in Threads : RunBegin(t) \/ RunWaits(t)
         \/ Interrupt \/ AdjustTimeout \/ CancelNotify
  PROVE  QueueTypeOK'
  <1>1. ASSUME NEW kind \in {"async", "notify"}, Enqueue(kind) PROVE QueueTypeOK'
    <2>1. <<kind, Core>> \in Kinds \X Everyone
      BY DEF Kinds, Everyone
    <2>2. AppendItem(<<kind, Core>>)
      BY <1>1 DEF Enqueue
    <2> QED BY <1>1, <2>1, <2>2, AppendTypes DEF Enqueue, QueueTypeOK, flagVars, coreVars
  <1>2. ASSUME NEW t \in Threads, RunBegin(t) PROVE QueueTypeOK'
    <2>1. <<"run", t>> \in Kinds \X Everyone
      BY DEF Kinds, Everyone
    <2>2. AppendItem(<<"run", t>>)
      BY <1>2 DEF RunBegin
    <2>3. pc' \in [Threads -> ThreadPcs] /\ completed' \in [Threads -> BOOLEAN]
      BY <1>2 DEF RunBegin, QueueTypeOK, ThreadPcs
    <2> QED BY <1>2, <2>1, <2>2, <2>3, AppendTypes DEF RunBegin, QueueTypeOK, flagVars, coreVars
  <1>3. ASSUME NEW t \in Threads, RunWaits(t) PROVE QueueTypeOK'
    BY <1>3 DEF RunWaits, Sleep, QueueTypeOK, ThreadPcs, Everyone, flagVars, coreVars
  <1>4. CASE Interrupt \/ AdjustTimeout
    BY <1>4 DEF Interrupt, AdjustTimeout, Broadcast, QueueTypeOK, flagVars, coreVars
  <1>5. CASE CancelNotify
    <2>1. \A n \in DOMAIN queue : RemoveAt(queue, n) \in Seq(Kinds \X Everyone)
      BY DEF QueueTypeOK, RemoveAt
    <2>2. queue' \in Seq(Kinds \X Everyone)
      BY <1>5, <2>1 DEF CancelNotify, QueueTypeOK
    <2> QED BY <1>5, <2>2 DEF CancelNotify, QueueTypeOK, flagVars
  <1> QED BY <1>1, <1>2, <1>3, <1>4, <1>5

(* Lock and unlock keep the types; the count stays within the threads      *)
(* because LockInv, of the next state, says what it counts.                *)
LEMMA LockTypes ==
  ASSUME QueueTypeOK, LockInv', NEW t \in Threads,
         LockBegin(t) \/ LockWaits(t) \/ Unlock(t)
  PROVE  QueueTypeOK'
  <1>1. lockRequests' \in 0..Cardinality(Threads)
    BY RequestBound DEF LockInv, Requesters
  <1>2. /\ pc' \in [Threads -> ThreadPcs] /\ locked' \in BOOLEAN
        /\ lockedBy' \in Threads \cup {NobodyHas}
    BY DEF LockBegin, LockWaits, Unlock, Take, QueueTypeOK, ThreadPcs
  <1>3. asleep' \subseteq Everyone
    BY DEF LockBegin, LockWaits, Unlock, Take, Sleep, Broadcast, QueueTypeOK, Everyone
  <1>4. UNCHANGED <<queue, interrupted, inProcess, coreVars, completed>>
    BY DEF LockBegin, LockWaits, Unlock
  <1> QED BY <1>1, <1>2, <1>3, <1>4 DEF QueueTypeOK, coreVars

(* The core keeps the types.                                               *)
LEMMA CoreTypes ==
  ASSUME QueueTypeOK,
         \/ \E timeout \in BOOLEAN : ProcessBegins(timeout)
         \/ LoopStep \/ ItemEnds \/ TimedOut
  PROVE  QueueTypeOK'
  <1>1. ASSUME NEW timeout \in BOOLEAN, ProcessBegins(timeout) PROVE QueueTypeOK'
    BY <1>1 DEF ProcessBegins, QueueTypeOK, CorePcs
  <1>2. CASE LoopTrapped \/ LoopIdles \/ CoreWakes \/ TimedOut
    BY <1>2 DEF LoopTrapped, LoopIdles, CoreWakes, TimedOut, Sleep, QueueTypeOK, CorePcs, Everyone,
                flagVars
  <1>3. CASE LoopTakesItem
    <2>1. queue' \in Seq(Kinds \X Everyone) /\ item' \in Kinds \X Everyone
      BY <1>3 DEF LoopTakesItem, QueueTypeOK
    <2> QED BY <1>3, <2>1 DEF LoopTakesItem, QueueTypeOK, CorePcs
  <1>4. CASE LoopEnds
    BY <1>4 DEF LoopEnds, QueueTypeOK, CorePcs
  <1>5. CASE ItemEnds
    BY <1>5 DEF ItemEnds, Broadcast, QueueTypeOK, CorePcs
  <1> QED BY <1>1, <1>2, <1>3, <1>4, <1>5 DEF LoopStep

(* Every step keeps the types.                                             *)
LEMMA TypeStep ==
  ASSUME QueueTypeOK, LockInv', [QueueNext]_queueVars
  PROVE  QueueTypeOK'
  <1>1. CASE UNCHANGED queueVars
    BY <1>1 DEF queueVars, flagVars, QueueTypeOK
  <1>2. CASE QueueNext
    BY <1>2, SendersTypes, LockTypes, CoreTypes DEF QueueNext, ThreadWaits
  <1> QED BY <1>1, <1>2

-----------------------------------------------------------------------------
(* No lost wakeup: what a sleeping thread waits for comes about only in a  *)
(* step that broadcasts.                                                   *)

(* The state of nobody sleeping on anything.                               *)
LEMMA EverybodyAwake ==
  ASSUME asleep' = {}
  PROVE  NobodySleepsOn'
  BY DEF NobodySleepsOn

(* Sending either broadcasts or leaves everything alone that somebody may  *)
(* wait for; a cancel finds nothing in an empty queue.                     *)
LEMMA SendersSleep ==
  ASSUME QueueInv,
         \/ \E kind \in {"async", "notify"} : Enqueue(kind)
         \/ \E t \in Threads : RunBegin(t) \/ RunWaits(t)
         \/ Interrupt \/ AdjustTimeout \/ CancelNotify
  PROVE  NobodySleepsOn'
  <1>1. ASSUME NEW kind \in {"async", "notify"}, Enqueue(kind) PROVE NobodySleepsOn'
    <2>1. AppendItem(<<kind, Core>>)
      BY <1>1 DEF Enqueue
    <2>2. asleep' = {} \/ UNCHANGED queueVars
      BY <1>1, <2>1 DEF Enqueue, AppendItem, Broadcast, queueVars, flagVars, coreVars
    <2> QED BY <2>2, EverybodyAwake DEF QueueInv, NobodySleepsOn, MayTake, LockWaited, queueVars, flagVars
  <1>2. ASSUME NEW t \in Threads, RunBegin(t) PROVE NobodySleepsOn'
    <2>1. asleep' = {}
      BY <1>2 DEF RunBegin, AppendItem, Broadcast
    <2> QED BY <2>1, EverybodyAwake
  <1>3. ASSUME NEW t \in Threads, RunWaits(t) PROVE NobodySleepsOn'
    <2>1. UNCHANGED <<queue, wait, interrupted, inProcess, locked, lockRequests, core, completed>>
      BY <1>3 DEF RunWaits, flagVars, coreVars
    <2>2. t # Core
      BY CoreAssumption
    <2>3. CASE completed[t] /\ pc' = [pc EXCEPT ![t] = "free"] /\ UNCHANGED asleep
      BY <1>3, <2>1, <2>2, <2>3 DEF RunWaits, QueueInv, QueueTypeOK,
             NobodySleepsOn, MayTake, LockWaited, Everyone
    <2>4. CASE ~completed[t] /\ Sleep(t) /\ UNCHANGED pc
      BY <1>3, <2>1, <2>2, <2>4 DEF RunWaits, Sleep, QueueInv, QueueTypeOK,
             NobodySleepsOn, MayTake, LockWaited, Everyone
    <2> QED BY <1>3, <2>3, <2>4 DEF RunWaits
  <1>4. CASE Interrupt \/ AdjustTimeout
    BY <1>4, EverybodyAwake DEF Interrupt, AdjustTimeout, Broadcast
  <1>5. CASE CancelNotify
    <2>1. queue = <<>> => queue' = <<>>
      BY <1>5 DEF CancelNotify
    <2>2. UNCHANGED <<wait, interrupted, inProcess, locked, lockRequests, core, pc, completed, asleep>>
      BY <1>5 DEF CancelNotify, flagVars
    <2> QED BY <2>1, <2>2 DEF QueueInv, NobodySleepsOn, MayTake, LockWaited
  <1> QED BY <1>1, <1>2, <1>3, <1>4, <1>5

(* Taking the lock makes nobody's wait come true, and whoever gives it     *)
(* back broadcasts.                                                        *)
LEMMA LockSleeps ==
  ASSUME QueueInv, NEW t \in Threads, LockBegin(t) \/ LockWaits(t) \/ Unlock(t)
  PROVE  NobodySleepsOn'
  <1>1. CASE Unlock(t)
    BY <1>1, EverybodyAwake DEF Unlock, Broadcast
  <1>2. CASE LockBegin(t) \/ LockWaits(t)
    <2>1. /\ UNCHANGED <<queue, wait, interrupted, inProcess, core, completed>>
          /\ t \notin asleep /\ t # Core
      BY <1>2, CoreAssumption DEF LockBegin, LockWaits, coreVars, QueueInv, NobodySleepsOn
    <2>2. lockRequests \in Nat
      BY RequestsCounted DEF QueueInv
    <2>3. LockWaited => LockWaited'
      BY <1>2, <2>2 DEF LockWaited, LockBegin, LockWaits
    <2>4. CASE MayTake /\ Take(t)
      BY <2>1, <2>3, <2>4 DEF QueueInv, QueueTypeOK, NobodySleepsOn, MayTake, Take, Everyone
    <2>5. CASE ~MayTake /\ UNCHANGED <<locked, lockedBy>>
      <3>1. ~MayTake'
        BY <2>1, <2>5 DEF MayTake
      <3>2. pc'[t] = "lock" /\ (asleep' = asleep \/ asleep' = asleep \cup {t})
        BY <1>2, <2>5 DEF LockBegin, LockWaits, Take, Sleep, QueueInv, QueueTypeOK
      <3>3. \A u \in Threads \ {t} : pc'[u] = pc[u]
        BY <1>2 DEF LockBegin, LockWaits, Take, QueueInv, QueueTypeOK
      <3> QED BY <2>1, <2>3, <3>1, <3>2, <3>3 DEF QueueInv, QueueTypeOK, NobodySleepsOn, Everyone
    <2> QED BY <1>2, <2>4, <2>5 DEF LockBegin, LockWaits
  <1> QED BY <1>1, <1>2

(* The core sleeps only in LoopTrapped and LoopIdles, for the reason that  *)
(* it has just tested; when it enters the queue, those who wait for the    *)
(* lock are woken.                                                         *)
LEMMA CoreSleeps ==
  ASSUME QueueInv,
         \/ \E timeout \in BOOLEAN : ProcessBegins(timeout)
         \/ LoopStep \/ ItemEnds \/ TimedOut
  PROVE  NobodySleepsOn'
  <1>1. /\ lockRequests \in Nat
        /\ lockRequests = 0 <=> \A t \in Threads : pc[t] \notin {"lock", "held"}
    BY RequestsCounted DEF QueueInv
  <1>2. core \in {"out", "loop"} => Core \notin asleep
    BY DEF QueueInv, NobodySleepsOn
  <1>3. ASSUME NEW timeout \in BOOLEAN, ProcessBegins(timeout) PROVE NobodySleepsOn'
    <2>1. CASE lockRequests > 0
      BY <1>3, <2>1, EverybodyAwake DEF ProcessBegins
    <2>2. CASE ~(lockRequests > 0)
      BY <1>1, <1>2, <1>3, <2>2 DEF ProcessBegins, QueueInv, QueueTypeOK, NobodySleepsOn, Everyone
    <2> QED BY <2>1, <2>2
  <1>4. CASE LoopTrapped
    BY <1>4, CoreAssumption DEF LoopTrapped, Sleep, flagVars, QueueInv, NobodySleepsOn, MayTake, LockWaited
  <1>5. CASE LoopIdles
    BY <1>5, CoreAssumption DEF LoopIdles, Sleep, flagVars, QueueInv, NobodySleepsOn, MayTake, LockWaited
  <1>6. CASE CoreWakes \/ TimedOut
    BY <1>6 DEF CoreWakes, TimedOut, flagVars, QueueInv, NobodySleepsOn, MayTake, LockWaited
  <1>7. CASE LoopTakesItem
    BY <1>2, <1>7 DEF LoopTakesItem, QueueInv, NobodySleepsOn, MayTake
  <1>8. CASE LoopEnds
    BY <1>2, <1>8 DEF LoopEnds, QueueInv, NobodySleepsOn, MayTake
  <1>9. CASE ItemEnds
    BY <1>9, EverybodyAwake DEF ItemEnds, Broadcast
  <1> QED BY <1>3, <1>4, <1>5, <1>6, <1>7, <1>8, <1>9 DEF LoopStep

(* No step loses a wakeup.                                                 *)
LEMMA SleepStep ==
  ASSUME QueueInv, [QueueNext]_queueVars
  PROVE  NobodySleepsOn'
  <1>1. CASE UNCHANGED queueVars
    BY <1>1 DEF queueVars, flagVars, QueueInv, NobodySleepsOn, MayTake, LockWaited
  <1>2. CASE QueueNext
    BY <1>2, SendersSleep, LockSleeps, CoreSleeps DEF QueueNext, ThreadWaits
  <1> QED BY <1>1, <1>2

-----------------------------------------------------------------------------
(* The items: one that somebody waits for is in the queue or runs exactly  *)
(* once while its thread waits, and there is at most one mergeable item.   *)

RunWaiters == {t \in Threads : pc[t] = "run" /\ ~completed[t]}

ItemsInv ==
  /\ \A n \in DOMAIN queue : queue[n][1] = "run" => queue[n][2] \in RunWaiters
  /\ \A m, n \in DOMAIN queue : queue[m][1] = "run" /\ queue[m] = queue[n] => m = n
  /\ \A m, n \in DOMAIN queue : queue[m][1] = "notify" /\ queue[n][1] = "notify" => m = n
  /\ core = "item" /\ item[1] = "run" =>
       item[2] \in RunWaiters /\ \A n \in DOMAIN queue : queue[n] # item

(* A step that neither sends, takes nor finishes an item.                  *)
LEMMA ItemsUntouched ==
  ASSUME ItemsInv, UNCHANGED <<queue, item>>, core' = "item" => core = "item",
         RunWaiters \subseteq RunWaiters'
  PROVE  ItemsInv'
  BY DEF ItemsInv

(* A new item stands at the end; nobody else waits for it.                 *)
LEMMA AppendKeepsItems ==
  ASSUME QueueTypeOK, ItemsInv, NEW i \in Kinds \X Everyone, queue' = Append(queue, i),
         UNCHANGED <<item, core>>,
         RunWaiters \subseteq RunWaiters',
         i[1] = "run" => i[2] \in RunWaiters' \ RunWaiters,
         i[1] = "notify" => \A n \in DOMAIN queue : queue[n][1] # "notify"
  PROVE  ItemsInv'
  <1>1. queue \in Seq(Kinds \X Everyone)
    BY DEF QueueTypeOK
  <1>2. DOMAIN queue = 1..Len(queue) /\ DOMAIN queue' = 1..Len(queue) + 1 /\ Len(queue) \in Nat
    BY <1>1
  <1>3. \A n \in DOMAIN queue : queue'[n] = queue[n]
    BY <1>1
  <1>4. queue'[Len(queue) + 1] = i
    BY <1>1
  <1>5. \A n \in DOMAIN queue' : n \in DOMAIN queue \/ n = Len(queue) + 1
    BY <1>2
  <1>6. \A n \in DOMAIN queue : i[1] = "run" => queue[n] # i
    BY DEF ItemsInv
  <1>7. core = "item" /\ item[1] = "run" => item # i
    BY DEF ItemsInv
  <1>8. \A n \in DOMAIN queue' : queue'[n][1] = "run" => queue'[n][2] \in RunWaiters'
    BY <1>3, <1>4, <1>5 DEF ItemsInv
  <1>9. \A m, n \in DOMAIN queue' : queue'[m][1] = "run" /\ queue'[m] = queue'[n] => m = n
    BY <1>3, <1>4, <1>5, <1>6 DEF ItemsInv
  <1>10. \A m, n \in DOMAIN queue' : queue'[m][1] = "notify" /\ queue'[n][1] = "notify" => m = n
    BY <1>3, <1>4, <1>5 DEF ItemsInv
  <1>11. core' = "item" /\ item'[1] = "run" =>
           item'[2] \in RunWaiters' /\ \A n \in DOMAIN queue' : queue'[n] # item'
    BY <1>3, <1>4, <1>5, <1>7 DEF ItemsInv
  <1> QED BY <1>8, <1>9, <1>10, <1>11 DEF ItemsInv

(* Sending adds one item, which only its sender waits for.                 *)
LEMMA SendersKeepItems ==
  ASSUME QueueTypeOK, ItemsInv,
         \/ \E kind \in {"async", "notify"} : Enqueue(kind)
         \/ \E t \in Threads : RunBegin(t)
  PROVE  ItemsInv'
  <1>1. ASSUME NEW kind \in {"async", "notify"}, Enqueue(kind) PROVE ItemsInv'
    <2>1. RunWaiters' = RunWaiters /\ UNCHANGED <<item, core>>
      BY <1>1 DEF Enqueue, RunWaiters, coreVars
    <2>2. <<kind, Core>> \in Kinds \X Everyone /\ <<kind, Core>>[1] # "run"
      BY DEF Kinds, Everyone
    <2>3. CASE UNCHANGED <<queue, interrupted, asleep>>
      BY <2>1, <2>3, ItemsUntouched
    <2>4. CASE /\ queue' = Append(queue, <<kind, Core>>)
               /\ kind = "notify" => \A n \in DOMAIN queue : queue[n][1] # "notify"
      BY <2>1, <2>2, <2>4, AppendKeepsItems
    <2> QED BY <1>1, <2>3, <2>4 DEF Enqueue, AppendItem
  <1>2. ASSUME NEW t \in Threads, RunBegin(t) PROVE ItemsInv'
    <2>1. queue' = Append(queue, <<"run", t>>) /\ UNCHANGED <<item, core>>
      BY <1>2 DEF RunBegin, AppendItem, coreVars
    <2>2. RunWaiters \subseteq RunWaiters' /\ t \in RunWaiters' \ RunWaiters
      BY <1>2 DEF RunBegin, RunWaiters, QueueTypeOK
    <2>3. <<"run", t>> \in Kinds \X Everyone
      BY DEF Kinds, Everyone
    <2> QED BY <2>1, <2>2, <2>3, AppendKeepsItems
  <1> QED BY <1>1, <1>2

(* Without its k-th element a sequence is one shorter and the later ones   *)
(* move up.                                                                *)
LEMMA RemoveAtProperties ==
  ASSUME NEW S, NEW s \in Seq(S), NEW k \in 1..Len(s)
  PROVE  /\ DOMAIN RemoveAt(s, k) = 1..Len(s) - 1
         /\ \A n \in 1..Len(s) - 1 : RemoveAt(s, k)[n] = IF n < k THEN s[n] ELSE s[n + 1]
  <1> DEFINE a == SubSeq(s, 1, k - 1)
             b == SubSeq(s, k + 1, Len(s))
  <1>1. Len(s) \in Nat /\ k \in Int /\ (\A n \in 1..Len(s) : s[n] \in S)
    OBVIOUS
  <1>2. /\ a \in Seq(S) /\ Len(a) = k - 1
        /\ \A n \in 1..k - 1 : a[n] = s[n]
    BY <1>1, SubSeqProperties
  <1>3. /\ b \in Seq(S) /\ Len(b) = Len(s) - k
        /\ \A n \in 1..Len(s) - k : b[n] = s[k + n]
    BY <1>1, SubSeqProperties
  <1> HIDE DEF a, b
  <1>4. /\ a \o b \in Seq(S) /\ Len(a \o b) = Len(s) - 1
        /\ \A n \in 1..Len(s) - 1 : (a \o b)[n] = IF n <= k - 1 THEN a[n] ELSE b[n - (k - 1)]
    <2>1. /\ a \o b \in Seq(S) /\ Len(a \o b) = Len(a) + Len(b)
          /\ \A n \in 1..Len(a) + Len(b) :
               (a \o b)[n] = IF n <= Len(a) THEN a[n] ELSE b[n - Len(a)]
      BY <1>2, <1>3, ConcatProperties, Zenon
    <2>2. Len(a) + Len(b) = Len(s) - 1 /\ Len(a) = k - 1
      BY <1>1, <1>2, <1>3
    <2> QED BY <2>1, <2>2
  <1>5. DOMAIN (a \o b) = 1..Len(s) - 1
    BY <1>4
  <1>6. ASSUME NEW n \in 1..Len(s) - 1
        PROVE  (a \o b)[n] = IF n < k THEN s[n] ELSE s[n + 1]
    <2>1. CASE n < k
      BY <1>1, <1>2, <1>4, <2>1
    <2>2. CASE ~(n < k)
      <3>1. n - (k - 1) \in 1..Len(s) - k /\ k + (n - (k - 1)) = n + 1
        BY <1>1, <2>2
      <3>2. b[n - (k - 1)] = s[n + 1]
        BY <1>3, <3>1
      <3> QED BY <1>1, <1>4, <2>2, <3>2
    <2> QED BY <2>1, <2>2
  <1>7. RemoveAt(s, k) = a \o b
    BY DEF RemoveAt, a, b
  <1> QED BY <1>5, <1>6, <1>7

(* The cancel takes an item that nobody waits for.                         *)
LEMMA CancelKeepsItems ==
  ASSUME QueueTypeOK, ItemsInv, CancelNotify
  PROVE  ItemsInv' /\ \A n \in DOMAIN queue' : queue'[n][1] # "notify"
  <1>1. RunWaiters' = RunWaiters /\ UNCHANGED <<item, core>>
    BY DEF CancelNotify, RunWaiters
  <1>2. CASE (\A n \in DOMAIN queue : queue[n][1] # "notify") /\ UNCHANGED queue
    BY <1>1, <1>2, ItemsUntouched
  <1>3. ASSUME NEW k \in DOMAIN queue, queue[k][1] = "notify", queue' = RemoveAt(queue, k)
        PROVE  ItemsInv' /\ \A n \in DOMAIN queue' : queue'[n][1] # "notify"
    <2>1. queue \in Seq(Kinds \X Everyone) /\ k \in 1..Len(queue) /\ Len(queue) \in Nat
      BY DEF QueueTypeOK
    <2>2. /\ DOMAIN queue' = 1..Len(queue) - 1
          /\ \A n \in 1..Len(queue) - 1 : queue'[n] = IF n < k THEN queue[n] ELSE queue[n + 1]
      BY <1>3, <2>1, RemoveAtProperties
    <2>3. \A n \in DOMAIN queue' : queue'[n] = queue[IF n < k THEN n ELSE n + 1]
      BY <2>1, <2>2
    <2>4. \A n \in DOMAIN queue' : (IF n < k THEN n ELSE n + 1) \in DOMAIN queue \ {k}
      BY <2>1, <2>2
    <2>5. \A m, n \in DOMAIN queue' :
            (IF m < k THEN m ELSE m + 1) = (IF n < k THEN n ELSE n + 1) => m = n
      BY <2>1, <2>2
    <2>6. \A n \in DOMAIN queue' : queue'[n][1] # "notify"
      BY <1>3, <2>3, <2>4 DEF ItemsInv
    <2>7. \A n \in DOMAIN queue' : queue'[n][1] = "run" => queue'[n][2] \in RunWaiters'
      BY <1>1, <2>3, <2>4 DEF ItemsInv
    <2>8. \A m, n \in DOMAIN queue' : queue'[m][1] = "run" /\ queue'[m] = queue'[n] => m = n
      BY <2>3, <2>4, <2>5 DEF ItemsInv
    <2>9. core' = "item" /\ item'[1] = "run" =>
            item'[2] \in RunWaiters' /\ \A n \in DOMAIN queue' : queue'[n] # item'
      BY <1>1, <2>3, <2>4 DEF ItemsInv
    <2> QED BY <2>6, <2>7, <2>8, <2>9 DEF ItemsInv
  <1> QED BY <1>2, <1>3 DEF CancelNotify

(* The core takes the first item; the others move up.                      *)
LEMMA TakingKeepsItems ==
  ASSUME QueueTypeOK, ItemsInv, LoopTakesItem
  PROVE  ItemsInv'
  <1>1. queue \in Seq(Kinds \X Everyone) /\ Len(queue) \in Nat \ {0}
    BY DEF QueueTypeOK, LoopTakesItem
  <1>2. /\ DOMAIN queue' = 1..Len(queue) - 1 /\ DOMAIN queue = 1..Len(queue)
        /\ \A n \in 1..Len(queue) - 1 : queue'[n] = queue[n + 1]
        /\ item' = queue[1]
    BY <1>1 DEF LoopTakesItem
  <1>3. \A n \in DOMAIN queue' : n + 1 \in DOMAIN queue /\ n + 1 # 1 /\ 1 \in DOMAIN queue
    BY <1>1, <1>2
  <1>4. RunWaiters' = RunWaiters
    BY DEF LoopTakesItem, RunWaiters
  <1>5. 1 \in DOMAIN queue
    BY <1>1, <1>2
  <1>6. \A n \in DOMAIN queue' : queue'[n][1] = "run" => queue'[n][2] \in RunWaiters'
    BY <1>2, <1>3, <1>4 DEF ItemsInv
  <1>7. \A m, n \in DOMAIN queue' : m + 1 = n + 1 => m = n
    BY <1>2
  <1>8. \A m, n \in DOMAIN queue' : queue'[m][1] = "run" /\ queue'[m] = queue'[n] => m = n
    BY <1>2, <1>3, <1>7 DEF ItemsInv
  <1>9. \A m, n \in DOMAIN queue' : queue'[m][1] = "notify" /\ queue'[n][1] = "notify" => m = n
    BY <1>2, <1>3, <1>7 DEF ItemsInv
  <1>10. core' = "item" /\ item'[1] = "run" =>
           item'[2] \in RunWaiters' /\ \A n \in DOMAIN queue' : queue'[n] # item'
    BY <1>2, <1>3, <1>4, <1>5 DEF ItemsInv
  <1> QED BY <1>6, <1>8, <1>9, <1>10 DEF ItemsInv

(* The item that ends wakes its own thread, which no other item is of.     *)
LEMMA EndingKeepsItems ==
  ASSUME QueueTypeOK, ItemsInv, ItemEnds
  PROVE  ItemsInv'
  <1>1. UNCHANGED <<queue, item>> /\ core' = "loop"
    BY DEF ItemEnds
  <1>2. CASE item[1] # "run"
    BY <1>1, <1>2, ItemsUntouched DEF ItemEnds, RunWaiters
  <1>3. CASE item[1] = "run"
    <2>1. RunWaiters \ {item[2]} \subseteq RunWaiters'
      BY <1>3 DEF ItemEnds, RunWaiters, QueueTypeOK
    <2>2. \A n \in DOMAIN queue : queue[n] # item
      BY <1>3 DEF ItemsInv, ItemEnds
    <2>3. \A n \in DOMAIN queue : queue[n] \in Kinds \X Everyone /\ item \in Kinds \X Everyone
      BY DEF QueueTypeOK
    <2>4. \A n \in DOMAIN queue : queue[n][1] = "run" => queue[n][2] # item[2]
      BY <1>3, <2>2, <2>3
    <2>5. \A n \in DOMAIN queue : queue[n][1] = "run" => queue[n][2] \in RunWaiters'
      BY <2>1, <2>4 DEF ItemsInv
    <2> QED BY <1>1, <2>5 DEF ItemsInv
  <1> QED BY <1>2, <1>3

(* Every step keeps the items.                                             *)
LEMMA ItemsStep ==
  ASSUME QueueTypeOK, ItemsInv, [QueueNext]_queueVars
  PROVE  ItemsInv'
  <1>1. CASE UNCHANGED queueVars
    BY <1>1, ItemsUntouched DEF queueVars, flagVars, RunWaiters
  <1>2. ASSUME NEW t \in Threads, LockBegin(t) \/ ThreadWaits(t) \/ Unlock(t) PROVE ItemsInv'
    <2>1. UNCHANGED <<queue, item, core, completed>>
      BY <1>2 DEF LockBegin, ThreadWaits, RunWaits, LockWaits, Unlock, coreVars
    <2>2. RunWaiters \subseteq RunWaiters'
      BY <1>2, <2>1 DEF RunWaiters, LockBegin, ThreadWaits, RunWaits, LockWaits, Unlock, Take,
                       QueueTypeOK
    <2> QED BY <2>1, <2>2, ItemsUntouched
  <1>3. CASE Interrupt \/ AdjustTimeout
    BY <1>3, ItemsUntouched DEF Interrupt, AdjustTimeout, RunWaiters, coreVars
  <1>4. CASE \/ \E timeout \in BOOLEAN : ProcessBegins(timeout)
             \/ LoopTrapped \/ LoopIdles \/ LoopEnds \/ CoreWakes \/ TimedOut
    BY <1>4, ItemsUntouched DEF ProcessBegins, LoopTrapped, LoopIdles, LoopEnds, CoreWakes, TimedOut,
                                RunWaiters
  <1> QED BY <1>1, <1>2, <1>3, <1>4, SendersKeepItems, CancelKeepsItems, TakingKeepsItems,
             EndingKeepsItems DEF QueueNext, LoopStep

-----------------------------------------------------------------------------
(* The results.                                                            *)

(* An unused queue.                                                        *)
LEMMA QueueInvInit == QueueInit => QueueInv
  <1> SUFFICES ASSUME QueueInit PROVE QueueInv
    OBVIOUS
  <1>1. Cardinality({}) = 0 /\ Cardinality({}) \in 0..Cardinality(Threads)
    BY FS_EmptySet, RequestBound
  <1>2. QueueTypeOK
    <2>1. queue \in Seq(Kinds \X Everyone) /\ item \in Kinds \X Everyone
      BY DEF QueueInit, Kinds, Everyone
    <2>2. lockRequests \in 0..Cardinality(Threads)
      BY <1>1 DEF QueueInit
    <2>3. pc \in [Threads -> ThreadPcs] /\ completed \in [Threads -> BOOLEAN] /\ core \in CorePcs
      BY DEF QueueInit, CorePcs, ThreadPcs
    <2>4. /\ wait \in BOOLEAN /\ interrupted \in BOOLEAN /\ inProcess \in BOOLEAN
          /\ locked \in BOOLEAN /\ lockedBy \in Threads \cup {NobodyHas} /\ asleep \subseteq Everyone
      BY DEF QueueInit
    <2> QED BY <2>1, <2>2, <2>3, <2>4 DEF QueueTypeOK
  <1>3. Requesters = {}
    BY DEF QueueInit, Requesters
  <1>4. LockInv
    BY <1>1, <1>3, ThreadsFinite DEF QueueInit, LockInv, NobodyHas
  <1> QED BY <1>2, <1>4 DEF QueueInv, NobodySleepsOn, QueueInit

(* The invariant of the queue is inductive.                                *)
LEMMA QueueInvStep == QueueInv /\ [QueueNext]_queueVars => QueueInv'
  <1> SUFFICES ASSUME QueueInv, [QueueNext]_queueVars PROVE QueueInv'
    OBVIOUS
  <1>1. LockInv'
    BY LockStep DEF QueueInv
  <1>2. QueueTypeOK'
    BY <1>1, TypeStep DEF QueueInv
  <1>3. NobodySleepsOn'
    BY SleepStep
  <1> QED BY <1>1, <1>2, <1>3 DEF QueueInv

(* Exclusive follows: the lock names its one holder, and the core is then  *)
(* neither outside nor on an item.                                         *)
LEMMA ExclusiveFollows == QueueInv => Exclusive
  <1> SUFFICES ASSUME QueueInv PROVE Exclusive
    OBVIOUS
  <1>1. \A t \in Holders : t = lockedBy
    BY DEF Holders, QueueInv, LockInv
  <1>2. lockedBy = NobodyHas <=> Holders = {}
    BY ThreadsFinite DEF Holders, QueueInv, LockInv, QueueTypeOK, NobodyHas
  <1>3. Cardinality(Holders) + (IF core \in {"out", "item"} THEN 1 ELSE 0) <= 1
    <2>1. CASE Holders = {}
      BY <2>1, FS_EmptySet
    <2>2. CASE Holders # {}
      <3>1. Holders = {lockedBy}
        BY <1>1, <2>2
      <3>2. Cardinality(Holders) = 1
        BY <3>1, FS_Singleton
      <3> QED BY <1>2, <2>2, <3>2 DEF QueueInv, LockInv
    <2> QED BY <2>1, <2>2
  <1>4. locked <=> Holders # {} \/ core = "item"
    BY <1>2 DEF QueueInv, LockInv
  <1>5. lockRequests = Cardinality({t \in Threads : pc[t] \in {"lock", "held"}})
    BY DEF QueueInv, LockInv, Requesters
  <1> QED BY <1>1, <1>2, <1>3, <1>4, <1>5 DEF Exclusive

(* The dispatch queue by itself, whatever its threads do with it: it has   *)
(* the right types, gives the core's state to one at a time and loses no   *)
(* wakeup (misc/dispatch.c).                                               *)
THEOREM QueueCorrect == QueueSpec => [](QueueTypeOK /\ Exclusive /\ NobodySleepsOn)
  <1>1. QueueInv => QueueTypeOK /\ Exclusive /\ NobodySleepsOn
    BY ExclusiveFollows DEF QueueInv
  <1> QED BY <1>1, QueueInvInit, QueueInvStep, PTL DEF QueueSpec
=============================================================================
