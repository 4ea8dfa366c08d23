------------------------- MODULE CoreShutdownProofs -------------------------
(***************************************************************************)
(* Proofs about CoreShutdown, for any number of workers, calls and         *)
(* changes of options: it uses the dispatch queue as Dispatch allows, so   *)
(* that the queue's guarantees are the core's, and what the destruction    *)
(* frees is used by nobody.                                                *)
(***************************************************************************)
EXTENDS CoreShutdown, DispatchProofs

(* Workers that run a command and have not yet taken it off the count.     *)
Working == {w \in Workers : worker[w] \in {"queued", "handler", "writing", "written"}}

(* Requests on their way: items that nobody has run, the one that runs.    *)
AsyncIn(q) == {n \in DOMAIN q : q[n][1] = "async"}
Answering == core = "item" /\ item[1] = "async" /\ ~ran

(* How far the page is tells what it does with the queue.                  *)
PageInv ==
  /\ registered <=> page \in {"live", "quit", "quitting", "drain"}
  /\ terminate <=> page \in {"signalled", "join", "gone"}
  /\ page = "live" => pc[Page] \in {"free", "lock", "held"}
  /\ page \in {"quit", "stop"} => pc[Page] \in {"lock", "held"}
  /\ page = "quitting" => pc[Page] = "held"
  /\ page = "asked" => pc[Page] \in {"run", "free"}
  /\ page \in {"drain", "removed", "thread", "signalled", "join", "gone"} => pc[Page] = "free"

WorkersInv ==
  /\ \A w \in Workers :
       /\ worker[w] \in {"idle", "queued", "writing"} => pc[w] = "free"
       /\ worker[w] \in {"handler", "written"} => pc[w] \in {"lock", "held"}
       /\ worker[w] \in {"wakes", "unlocks"} => pc[w] = "held"
  /\ owes \subseteq Working
  /\ outstanding = Cardinality(Working)

(* Every request is an item, the item that runs or a worker's command; so  *)
(* when none is reserved nobody will answer any more.                      *)
RequestsInv ==
  /\ ran => core = "item"
  /\ reserved = Cardinality(AsyncIn(queue)) + (IF Answering THEN 1 ELSE 0) + Cardinality(owes)
  /\ reserved <= calls
  /\ ~registered => reserved = 0

EndInv ==
  /\ phase = "exited" => core = "out" /\ MayEnd
  /\ page = "gone" => phase = "exited" /\ queue = <<>>

LifeInv == PageInv /\ WorkersInv /\ RequestsInv /\ EndInv

-----------------------------------------------------------------------------
(* Whatever the threads do, with the queue they do what Dispatch says.     *)
LEMMA QueueSteps == [Next]_vars => [QueueNext]_queueVars
  <1> SUFFICES ASSUME [Next]_vars PROVE [QueueNext]_queueVars
    OBVIOUS
  <1> USE ThreadsAssumption
  <1>1. CASE PageCall
    BY <1>1 DEF PageCall, Request, LockedCall, ContinuesHook, QuitBegins, QueueNext
  <1>2. CASE PageStep
    BY <1>2 DEF PageStep, LockedCallEnds, QuitRuns, QuitEnds, Leave, StopBegins, StopRuns, AskThread,
                Signal, WakeCore, Destroyed, QueueNext
  <1>3. CASE Play \/ HookStarts \/ OwnCommand \/ OwnQuit \/ CoreTimesOut
    BY <1>3 DEF Play, HookStarts, OwnCommand, OwnQuit, CoreOnly, CoreTimesOut, QueueNext
  <1>4. CASE CoreStep
    BY <1>4 DEF CoreStep, StopsPlaying, HookTested, CheckClients, ItemRuns, ItemQuits, ItemReturns,
                CoreOnly, ProcessReturns, CoreLoops, LoopStep, QueueNext
  <1>5. ASSUME NEW w \in Workers, WorkerStep(w) PROVE [QueueNext]_queueVars
    BY <1>5 DEF WorkerStep, WorkerBegins, WorkerWrites, WorkerRelocks, WorkerCompletes, WorkerWakes,
                WorkerEnds, QueueNext
  <1>6. CASE (\E t \in Threads : Waits(t)) \/ Wakeups \/ OptionChanges
    BY <1>6 DEF Waits, Wakeups, OptionChanges, QueueNext
  <1>7. CASE Terminated \/ UNCHANGED vars
    BY <1>7 DEF Terminated, vars
  <1> QED BY <1>1, <1>2, <1>3, <1>4, <1>5, <1>6, <1>7 DEF Next

(* The queue's invariants hold through every step of CoreShutdown.         *)
LEMMA QueueInvsStep ==
  ASSUME QueueInv, ItemsInv, [Next]_vars
  PROVE  QueueInv' /\ ItemsInv'
  BY QueueSteps, QueueInvStep, ItemsStep DEF QueueInv

-----------------------------------------------------------------------------
(* The page.                                                               *)

(* A step that does not concern the page.                                  *)
LEMMA PageUnmoved ==
  ASSUME PageInv, UNCHANGED <<page, registered, terminate>>, pc'[Page] = pc[Page]
  PROVE  PageInv'
  BY DEF PageInv

(* Each step of mp_destroy_client leaves the page where the next one       *)
(* expects it: without the lock, with it, or with its item.                *)
LEMMA PageInvStep ==
  ASSUME QueueTypeOK, PageInv, [Next]_vars
  PROVE  PageInv'
  <1> USE ThreadsAssumption DEF QueueTypeOK, ThreadPcs
  <1>1. CASE PageCall
    BY <1>1 DEF PageCall, Request, LockedCall, ContinuesHook, QuitBegins, MayCall, PageGoes, PageOnly,
                Enqueue, LockBegin, Take, Interrupt, clientVars, PageInv
  <1>2. CASE QuitRuns \/ QuitEnds \/ Leave \/ StopBegins \/ StopRuns \/ LockedCallEnds
    BY <1>2 DEF LockedCallEnds, QuitRuns, QuitEnds, Leave, StopBegins, StopRuns, PageGoes, PageOnly,
                LockBegin, Take, Unlock, Interrupt, lifeVars, clientVars, PageInv
  <1>3. CASE AskThread \/ Signal \/ WakeCore \/ Destroyed
    BY <1>3 DEF AskThread, Signal, WakeCore, Destroyed, PageGoes, PageOnly, RunBegin, Interrupt,
                CancelNotify, queueVars, PageInv
  <1>4. CASE Play \/ HookStarts \/ OwnCommand \/ OwnQuit \/ CoreTimesOut
    BY <1>4, PageUnmoved DEF Play, ProcessBegins, HookStarts, Interrupt, OwnCommand, OwnQuit,
                CoreOnly, CoreTimesOut, TimedOut, queueVars, lifeVars, clientVars
  <1>5. CASE CoreStep
    <2>1. UNCHANGED <<page, registered, terminate, pc>>
      BY <1>5 DEF CoreStep, StopsPlaying, HookTested, CheckClients, CoreGoes, ItemRuns, ItemQuits,
                  ItemReturns, ItemEnds, CoreOnly, ProcessReturns, LoopEnds, CoreLoops, LoopTrapped,
                  LoopTakesItem, LoopIdles, CoreWakes, Interrupt, queueVars, lifeVars, clientVars
    <2> QED BY <2>1, PageUnmoved
  <1>6. ASSUME NEW w \in Workers, WorkerStep(w) PROVE PageInv'
    <2>1. UNCHANGED <<page, registered, terminate>> /\ pc'[Page] = pc[Page]
      BY <1>6 DEF WorkerStep, WorkerBegins, WorkerWrites, WorkerRelocks, WorkerCompletes, WorkerWakes,
                  WorkerEnds, WorkerOnly, LockBegin, Take, Unlock, Interrupt, queueVars, clientVars
    <2> QED BY <2>1, PageUnmoved
  <1>7. ASSUME NEW t \in Threads, Waits(t) PROVE PageInv'
    <2>1. UNCHANGED <<page, registered, terminate>>
      BY <1>7 DEF Waits, lifeVars, clientVars
    <2>2. CASE t # Page
      BY <1>7, <2>1, <2>2, PageUnmoved DEF Waits, ThreadWaits, RunWaits, LockWaits, Take
    <2>3. CASE t = Page
      BY <1>7, <2>1, <2>3 DEF Waits, ThreadWaits, RunWaits, LockWaits, Take, PageInv
    <2> QED BY <2>2, <2>3
  <1>8. CASE Wakeups \/ OptionChanges
    BY <1>8, PageUnmoved DEF Wakeups, OptionChanges, Interrupt, AdjustTimeout, Enqueue, lifeVars,
                             clientVars
  <1>9. CASE Terminated \/ UNCHANGED vars
    BY <1>9, PageUnmoved DEF Terminated, vars, queueVars, lifeVars, clientVars
  <1> QED BY <1>1, <1>2, <1>3, <1>4, <1>5, <1>6, <1>7, <1>8, <1>9 DEF Next, PageStep

-----------------------------------------------------------------------------
(* The workers.                                                            *)

(* Workers can be counted, and none are left when the count is 0.          *)
LEMMA WorkersCounted ==
  ASSUME NEW S, S \subseteq Workers
  PROVE  /\ IsFiniteSet(S) /\ Cardinality(S) \in Nat
         /\ Cardinality(S) \in 0..Cardinality(Workers)
         /\ Cardinality(S) = 0 <=> S = {}
  <1>1. IsFiniteSet(Workers)
    BY ThreadsFinite, ThreadsAssumption, FS_Subset
  <1>2. IsFiniteSet(S) /\ Cardinality(S) <= Cardinality(Workers)
    BY <1>1, FS_Subset
  <1> QED BY <1>1, <1>2, FS_CardinalityType, FS_EmptySet

(* Those that run a command are such a set.                                *)
LEMMA WorkingFinite == Working \subseteq Workers /\ IsFiniteSet(Working)
  <1>1. Working \subseteq Workers
    BY DEF Working
  <1> QED BY <1>1, WorkersCounted

(* A step that does not concern the workers.                               *)
LEMMA WorkersUnmoved ==
  ASSUME WorkersInv, UNCHANGED workVars, \A w \in Workers : pc'[w] = pc[w]
  PROVE  WorkersInv'
  <1>1. Working' = Working
    BY DEF Working, workVars
  <1> QED BY <1>1 DEF WorkersInv, workVars

(* A command for a worker that was idle: it is counted before it runs.     *)
LEMMA SpawnKeepsWorkers ==
  ASSUME TypeOK, WorkersInv, NEW w \in Workers, Spawn(w), owes' \in {owes, owes \cup {w}},
         UNCHANGED pc
  PROVE  WorkersInv' /\ w \notin owes
  <1>1. Working' = Working \cup {w} /\ w \notin Working
    BY DEF Working, Spawn, TypeOK
  <1>2. outstanding' = Cardinality(Working')
    BY <1>1, WorkingFinite, FS_AddElement DEF WorkersInv, Spawn
  <1>3. owes' \subseteq Working' /\ w \notin owes
    BY <1>1 DEF WorkersInv
  <1>4. \A v \in Workers :
          /\ worker'[v] \in {"idle", "queued", "writing"} => pc'[v] = "free"
          /\ worker'[v] \in {"handler", "written"} => pc'[v] \in {"lock", "held"}
          /\ worker'[v] \in {"wakes", "unlocks"} => pc'[v] = "held"
    BY DEF WorkersInv, Spawn, TypeOK
  <1> QED BY <1>2, <1>3, <1>4 DEF WorkersInv

(* A worker that goes on with its command stays counted.                   *)
LEMMA WorkerKeepsWorkers ==
  ASSUME TypeOK, WorkersInv, NEW w \in Workers, WorkerStep(w)
  PROVE  WorkersInv'
  <1> USE DEF TypeOK, QueueTypeOK, WorkerGoes
  <1>1. CASE WorkerBegins(w) \/ WorkerWrites(w) \/ WorkerRelocks(w)
    <2>1. Working' = Working /\ UNCHANGED <<owes, outstanding>>
      BY <1>1 DEF WorkerBegins, WorkerWrites, WorkerRelocks, WorkerOnly, Working
    <2>2. \A v \in Workers :
            /\ worker'[v] \in {"idle", "queued", "writing"} => pc'[v] = "free"
            /\ worker'[v] \in {"handler", "written"} => pc'[v] \in {"lock", "held"}
            /\ worker'[v] \in {"wakes", "unlocks"} => pc'[v] = "held"
      BY <1>1, ThreadsAssumption DEF WorkerBegins, WorkerWrites, WorkerRelocks, LockBegin, Take, Unlock,
                                     WorkersInv, ThreadPcs
    <2> QED BY <2>1, <2>2 DEF WorkersInv
  <1>2. CASE WorkerCompletes(w)
    <2>1. /\ worker'[w] \in {"wakes", "unlocks"} /\ worker[w] \in {"handler", "written"}
          /\ \A v \in Workers \ {w} : worker'[v] = worker[v]
      BY <1>2 DEF WorkerCompletes
    <2>2. Working' = Working \ {w} /\ w \in Working
      BY <2>1 DEF Working
    <2>3. outstanding' = Cardinality(Working')
      BY <1>2, <2>2, WorkingFinite, FS_RemoveElement DEF WorkersInv, WorkerCompletes
    <2>4. owes' \subseteq Working'
      BY <1>2, <2>2 DEF WorkersInv, WorkerCompletes
    <2>5. \A v \in Workers :
            /\ worker'[v] \in {"idle", "queued", "writing"} => pc'[v] = "free"
            /\ worker'[v] \in {"handler", "written"} => pc'[v] \in {"lock", "held"}
            /\ worker'[v] \in {"wakes", "unlocks"} => pc'[v] = "held"
      BY <1>2, <2>1 DEF WorkersInv, WorkerCompletes, queueVars
    <2> QED BY <2>3, <2>4, <2>5 DEF WorkersInv
  <1>3. CASE WorkerWakes(w) \/ WorkerEnds(w)
    <2>1. Working' = Working /\ UNCHANGED <<owes, outstanding>>
      BY <1>3 DEF WorkerWakes, WorkerEnds, WorkerOnly, Working
    <2>2. \A v \in Workers :
            /\ worker'[v] \in {"idle", "queued", "writing"} => pc'[v] = "free"
            /\ worker'[v] \in {"handler", "written"} => pc'[v] \in {"lock", "held"}
            /\ worker'[v] \in {"wakes", "unlocks"} => pc'[v] = "held"
      BY <1>3, ThreadsAssumption DEF WorkerWakes, WorkerEnds, Interrupt, Unlock, WorkersInv
    <2> QED BY <2>1, <2>2 DEF WorkersInv
  <1> QED BY <1>1, <1>2, <1>3 DEF WorkerStep

(* outstanding_async counts the commands that run, whoever steps.          *)
LEMMA WorkersInvStep ==
  ASSUME TypeOK, WorkersInv, PageInv, [Next]_vars
  PROVE  WorkersInv'
  <1> USE ThreadsAssumption DEF TypeOK, QueueTypeOK
  <1>1. CASE PageCall
    <2>1. UNCHANGED workVars /\ \A w \in Workers : pc'[w] = pc[w]
      BY <1>1 DEF PageCall, Request, LockedCall, ContinuesHook, QuitBegins, PageOnly, Enqueue,
                  LockBegin, Take, Interrupt
    <2> QED BY <2>1, WorkersUnmoved
  <1>2. CASE PageStep
    <2>1. UNCHANGED workVars /\ \A w \in Workers : pc'[w] = pc[w]
      BY <1>2 DEF PageStep, LockedCallEnds, QuitRuns, QuitEnds, Leave, StopBegins, StopRuns, AskThread,
                  Signal, WakeCore, Destroyed, PageOnly, RunBegin, LockBegin, Take, Unlock, Interrupt,
                  CancelNotify, queueVars, lifeVars
    <2> QED BY <2>1, WorkersUnmoved
  <1>3. CASE OwnCommand \/ ItemRuns
    <2>1. UNCHANGED pc
      BY <1>3 DEF OwnCommand, ItemRuns, queueVars
    <2>2. CASE UNCHANGED workVars
      BY <2>1, <2>2, WorkersUnmoved
    <2>3. ASSUME NEW w \in Workers, Spawn(w), owes' \in {owes, owes \cup {w}} PROVE WorkersInv'
      BY <2>1, <2>3, SpawnKeepsWorkers
    <2> QED BY <1>3, <2>2, <2>3 DEF OwnCommand, OwnQuit, ItemRuns
  <1>4. CASE Play \/ HookStarts \/ OwnQuit \/ CoreTimesOut
    BY <1>4, WorkersUnmoved DEF Play, ProcessBegins, HookStarts, OwnQuit, Interrupt, CoreOnly,
                                CoreTimesOut, TimedOut, queueVars, lifeVars
  <1>5. CASE StopsPlaying \/ HookTested \/ CheckClients \/ ItemQuits \/ ItemReturns \/ ProcessReturns
              \/ CoreLoops
    <2>1. UNCHANGED <<workVars, pc>>
      BY <1>5 DEF StopsPlaying, HookTested, CheckClients, CoreGoes, ItemQuits, Interrupt, ItemReturns,
                  ItemEnds, CoreOnly, ProcessReturns, LoopEnds, CoreLoops, LoopTrapped, LoopTakesItem,
                  LoopIdles, CoreWakes, queueVars, lifeVars
    <2> QED BY <2>1, WorkersUnmoved
  <1>6. ASSUME NEW w \in Workers, WorkerStep(w) PROVE WorkersInv'
    BY <1>6, WorkerKeepsWorkers
  <1>7. ASSUME NEW t \in Threads, Waits(t) PROVE WorkersInv'
    <2>1. UNCHANGED workVars /\ Working' = Working
      BY <1>7 DEF Waits, lifeVars, workVars, Working
    <2>2. \A w \in Workers : pc'[w] = pc[w] \/ (pc[w] = "lock" /\ pc'[w] = "held") \/ pc[w] = "run"
      BY <1>7 DEF Waits, ThreadWaits, RunWaits, LockWaits, Take
    <2>3. \A w \in Workers : pc[w] # "run"
      BY DEF WorkersInv, WorkerSteps
    <2> QED BY <2>1, <2>2, <2>3 DEF WorkersInv, workVars
  <1>8. CASE Wakeups \/ OptionChanges
    BY <1>8, WorkersUnmoved DEF Wakeups, OptionChanges, Interrupt, AdjustTimeout, Enqueue, lifeVars
  <1>9. CASE Terminated \/ UNCHANGED vars
    BY <1>9, WorkersUnmoved DEF Terminated, vars, queueVars, lifeVars
  <1> QED BY <1>1, <1>2, <1>3, <1>4, <1>5, <1>6, <1>7, <1>8, <1>9 DEF Next, CoreStep

-----------------------------------------------------------------------------
(* The requests: how many items of the queue somebody will answer.         *)

(* The requests in the queue can be counted.                               *)
LEMMA AsyncFinite ==
  ASSUME NEW q \in Seq(Kinds \X Everyone)
  PROVE  IsFiniteSet(AsyncIn(q)) /\ Cardinality(AsyncIn(q)) \in Nat
  <1>1. AsyncIn(q) \subseteq 1..Len(q) /\ Len(q) \in Nat
    BY DEF AsyncIn
  <1>2. IsFiniteSet(1..Len(q))
    BY <1>1, FS_Interval
  <1> QED BY <1>1, <1>2, FS_Subset, FS_CardinalityType

(* A new item counts if it is a request.                                   *)
LEMMA AppendCounts ==
  ASSUME NEW q \in Seq(Kinds \X Everyone), NEW i \in Kinds \X Everyone
  PROVE  Cardinality(AsyncIn(Append(q, i))) =
           Cardinality(AsyncIn(q)) + (IF i[1] = "async" THEN 1 ELSE 0)
  <1>1. /\ Len(q) \in Nat /\ DOMAIN q = 1..Len(q) /\ DOMAIN Append(q, i) = 1..Len(q) + 1
        /\ Append(q, i)[Len(q) + 1] = i
        /\ \A n \in DOMAIN q : Append(q, i)[n] = q[n]
    OBVIOUS
  <1>2. Len(q) + 1 \notin AsyncIn(q)
    BY <1>1 DEF AsyncIn
  <1>3. CASE i[1] = "async"
    <2>1. AsyncIn(Append(q, i)) = AsyncIn(q) \cup {Len(q) + 1}
      BY <1>1, <1>3 DEF AsyncIn
    <2> QED BY <1>2, <1>3, <2>1, AsyncFinite, FS_AddElement
  <1>4. CASE i[1] # "async"
    <2>1. AsyncIn(Append(q, i)) = AsyncIn(q)
      BY <1>1, <1>4 DEF AsyncIn
    <2> QED BY <1>4, <2>1, AsyncFinite
  <1> QED BY <1>3, <1>4

(* Sets that a function numbers alike have as many elements.               *)
LEMMA Renumbered ==
  ASSUME NEW S, NEW T, IsFiniteSet(S), NEW f \in [S -> T],
         \A x, y \in S : f[x] = f[y] => x = y,
         \A z \in T : \E x \in S : f[x] = z
  PROVE  Cardinality(T) = Cardinality(S)
  <1>1. f \in Bijection(S, T)
    BY DEF Bijection, Injection, Surjection, IsInjective
  <1> QED BY <1>1, FS_Bijection DEF ExistsBijection

(* The item that the core takes no longer counts if it was one.            *)
LEMMA TakingCounts ==
  ASSUME NEW q \in Seq(Kinds \X Everyone), q # <<>>
  PROVE  Cardinality(AsyncIn(Tail(q))) =
           Cardinality(AsyncIn(q)) - (IF Head(q)[1] = "async" THEN 1 ELSE 0)
  <1>1. /\ Len(q) \in Nat \ {0} /\ DOMAIN q = 1..Len(q) /\ Tail(q) \in Seq(Kinds \X Everyone)
        /\ DOMAIN Tail(q) = 1..Len(q) - 1
        /\ \A n \in 1..Len(q) - 1 : Tail(q)[n] = q[n + 1]
        /\ Head(q) = q[1]
    OBVIOUS
  <1> DEFINE f == [n \in AsyncIn(Tail(q)) |-> n + 1]
  <1>2. \A n \in AsyncIn(Tail(q)) : n + 1 \in AsyncIn(q) \ {1} /\ n \in Int
    BY <1>1 DEF AsyncIn
  <1>3. \A m \in AsyncIn(q) \ {1} : m - 1 \in AsyncIn(Tail(q)) /\ (m - 1) + 1 = m
    BY <1>1 DEF AsyncIn
  <1>4. f \in [AsyncIn(Tail(q)) -> AsyncIn(q) \ {1}]
    BY <1>2
  <1>5. \A x, y \in AsyncIn(Tail(q)) : f[x] = f[y] => x = y
    BY <1>2
  <1>6. \A z \in AsyncIn(q) \ {1} : \E x \in AsyncIn(Tail(q)) : f[x] = z
    BY <1>3
  <1>7. IsFiniteSet(AsyncIn(Tail(q)))
    BY <1>1, AsyncFinite
  <1>8. Cardinality(AsyncIn(q) \ {1}) = Cardinality(AsyncIn(Tail(q)))
    <2> HIDE DEF f
    <2> QED BY <1>4, <1>5, <1>6, <1>7, Renumbered
  <1>9. 1 \in AsyncIn(q) <=> Head(q)[1] = "async"
    BY <1>1 DEF AsyncIn
  <1>10. Cardinality(AsyncIn(q) \ {1}) =
           IF 1 \in AsyncIn(q) THEN Cardinality(AsyncIn(q)) - 1 ELSE Cardinality(AsyncIn(q))
    BY AsyncFinite, FS_RemoveElement
  <1>11. Cardinality(AsyncIn(q)) \in Nat
    BY AsyncFinite
  <1> QED BY <1>8, <1>9, <1>10, <1>11

(* The cancel takes no request.                                            *)
LEMMA CancelCounts ==
  ASSUME NEW q \in Seq(Kinds \X Everyone), NEW k \in DOMAIN q, q[k][1] = "notify"
  PROVE  Cardinality(AsyncIn(RemoveAt(q, k))) = Cardinality(AsyncIn(q))
  <1> DEFINE r == RemoveAt(q, k)
             g(n) == IF n < k THEN n ELSE n + 1
             f == [n \in AsyncIn(r) |-> g(n)]
  <1>1. /\ Len(q) \in Nat /\ DOMAIN q = 1..Len(q) /\ k \in 1..Len(q)
    OBVIOUS
  <1>2. /\ DOMAIN r = 1..Len(q) - 1
        /\ \A n \in 1..Len(q) - 1 : r[n] = IF n < k THEN q[n] ELSE q[n + 1]
    BY <1>1, RemoveAtProperties
  <1> HIDE DEF r
  <1>3. ASSUME NEW n \in AsyncIn(r) PROVE g(n) \in AsyncIn(q) /\ n \in Int
    <2>1. n \in 1..Len(q) - 1 /\ r[n][1] = "async"
      BY <1>2 DEF AsyncIn
    <2>2. g(n) \in DOMAIN q /\ r[n] = q[g(n)]
      BY <1>1, <1>2, <2>1
    <2> QED BY <2>1, <2>2 DEF AsyncIn
  <1>4. \A m \in AsyncIn(q) : m # k /\ m \in Int
    BY <1>1 DEF AsyncIn
  <1>5. ASSUME NEW m \in AsyncIn(q), m < k PROVE m \in AsyncIn(r) /\ g(m) = m
    <2>1. m \in 1..Len(q) - 1 /\ q[m][1] = "async"
      BY <1>1, <1>5 DEF AsyncIn
    <2>2. m \in DOMAIN r /\ r[m] = q[m]
      BY <1>2, <1>5, <2>1
    <2> QED BY <1>5, <2>1, <2>2 DEF AsyncIn
  <1>6. ASSUME NEW m \in AsyncIn(q), m > k PROVE m - 1 \in AsyncIn(r) /\ g(m - 1) = m
    <2>1. m - 1 \in 1..Len(q) - 1 /\ ~(m - 1 < k) /\ (m - 1) + 1 = m
      BY <1>1, <1>6 DEF AsyncIn
    <2>2. q[m][1] = "async"
      BY DEF AsyncIn
    <2>3. m - 1 \in DOMAIN r /\ r[m - 1] = q[m]
      BY <1>2, <2>1
    <2> QED BY <2>1, <2>2, <2>3 DEF AsyncIn
  <1>7. f \in [AsyncIn(r) -> AsyncIn(q)]
    BY <1>3
  <1>8. \A x, y \in AsyncIn(r) : f[x] = f[y] => x = y
    BY <1>1, <1>3
  <1>9. \A z \in AsyncIn(q) : \E x \in AsyncIn(r) : g(x) = z
    BY <1>1, <1>4, <1>5, <1>6
  <1>10. \A z \in AsyncIn(q) : \E x \in AsyncIn(r) : f[x] = z
    BY <1>9
  <1>11. IsFiniteSet(AsyncIn(r))
    <2>1. AsyncIn(r) \subseteq 1..Len(q) - 1 /\ Len(q) - 1 \in Int
      BY <1>1, <1>2 DEF AsyncIn
    <2> QED BY <2>1, FS_Interval, FS_Subset
  <1>12. Cardinality(AsyncIn(q)) = Cardinality(AsyncIn(r))
    <2> HIDE DEF f
    <2> QED BY <1>7, <1>8, <1>10, <1>11, Renumbered
  <1> QED BY <1>12 DEF r

(* A step that neither sends, takes nor answers a request.                 *)
LEMMA RequestsUntouched ==
  ASSUME TypeOK, RequestsInv, UNCHANGED <<reserved, owes, ran>>, calls' \in {calls, calls + 1},
         Cardinality(AsyncIn(queue')) = Cardinality(AsyncIn(queue)),
         (core' = "item") <=> (core = "item"), item' = item,
         registered' = registered
  PROVE  RequestsInv'
  <1>1. Answering' <=> Answering
    BY DEF Answering
  <1>2. reserved <= calls'
    BY DEF RequestsInv, TypeOK
  <1> QED BY <1>1, <1>2 DEF RequestsInv

(* An item of another kind is sent, or the cancel takes one.               *)
LEMMA OtherItemsCount ==
  ASSUME QueueTypeOK,
         \/ UNCHANGED queue
         \/ AppendItem(<<"notify", Core>>)
         \/ \E t \in Threads : RunBegin(t)
         \/ CancelNotify
  PROVE  Cardinality(AsyncIn(queue')) = Cardinality(AsyncIn(queue))
  <1>1. queue \in Seq(Kinds \X Everyone) /\ Cardinality(AsyncIn(queue)) \in Nat
    BY AsyncFinite DEF QueueTypeOK
  <1>2. ASSUME NEW i \in Kinds \X Everyone, i[1] # "async", queue' = Append(queue, i)
        PROVE  Cardinality(AsyncIn(queue')) = Cardinality(AsyncIn(queue))
    BY <1>1, <1>2, AppendCounts
  <1>3. CASE AppendItem(<<"notify", Core>>)
    <2>1. <<"notify", Core>> \in Kinds \X Everyone /\ <<"notify", Core>>[1] # "async"
      BY DEF Kinds, Everyone
    <2>2. UNCHANGED queue \/ queue' = Append(queue, <<"notify", Core>>)
      BY <1>3 DEF AppendItem
    <2> QED BY <1>2, <2>1, <2>2
  <1>4. ASSUME NEW t \in Threads, RunBegin(t)
        PROVE  Cardinality(AsyncIn(queue')) = Cardinality(AsyncIn(queue))
    <2>1. <<"run", t>> \in Kinds \X Everyone /\ <<"run", t>>[1] # "async"
      BY DEF Kinds, Everyone
    <2>2. queue' = Append(queue, <<"run", t>>)
      BY <1>4 DEF RunBegin, AppendItem
    <2> QED BY <1>2, <2>1, <2>2
  <1>5. CASE CancelNotify
    BY <1>1, <1>5, CancelCounts DEF CancelNotify
  <1> QED BY <1>3, <1>4, <1>5

(* The replies that workers owe can be counted.                            *)
LEMMA OwesCounted ==
  ASSUME WorkersInv
  PROVE  IsFiniteSet(owes) /\ Cardinality(owes) \in Nat
  <1>1. owes \subseteq Workers
    BY WorkingFinite DEF WorkersInv
  <1> QED BY <1>1, WorkersCounted

(* run_async reserves the slot before the item is sent.                    *)
LEMMA RequestCounts ==
  ASSUME TypeOK, RequestsInv, WorkersInv, PageInv, Request
  PROVE  RequestsInv'
  <1>1. queue \in Seq(Kinds \X Everyone) /\ <<"async", Core>> \in Kinds \X Everyone
        /\ <<"async", Core>>[1] = "async"
    BY DEF TypeOK, QueueTypeOK, Kinds, Everyone
  <1>2. queue' = Append(queue, <<"async", Core>>) /\ UNCHANGED <<core, item, ran, owes, registered>>
    BY DEF Request, Enqueue, AppendItem, coreVars, workVars
  <1>3. Cardinality(AsyncIn(queue')) = Cardinality(AsyncIn(queue)) + 1
    BY <1>1, <1>2, AppendCounts
  <1>4. Answering' <=> Answering
    BY <1>2 DEF Answering
  <1>5. Cardinality(AsyncIn(queue)) \in Nat /\ Cardinality(owes) \in Nat
    BY <1>1, AsyncFinite, OwesCounted
  <1>6. reserved' = reserved + 1 /\ calls' = calls + 1 /\ registered
    BY DEF Request, MayCall, PageInv
  <1>7. reserved' = Cardinality(AsyncIn(queue')) + (IF Answering' THEN 1 ELSE 0) + Cardinality(owes')
    BY <1>2, <1>3, <1>4, <1>5, <1>6 DEF RequestsInv
  <1>8. reserved' <= calls'
    BY <1>6 DEF RequestsInv, TypeOK
  <1> QED BY <1>2, <1>6, <1>7, <1>8 DEF RequestsInv

(* The item of a request replies, or leaves the reply to its worker.       *)
LEMMA ItemCounts ==
  ASSUME TypeOK, RequestsInv, WorkersInv, ItemRuns \/ ItemQuits
  PROVE  RequestsInv'
  <1>1. UNCHANGED <<queue, core, item, registered, calls>> /\ core = "item" /\ ~ran /\ ran' = TRUE
    BY DEF ItemRuns, ItemQuits, Interrupt, coreVars, queueVars, boundVars
  <1>2. Cardinality(AsyncIn(queue)) \in Nat /\ Cardinality(owes) \in Nat
    BY AsyncFinite, OwesCounted DEF TypeOK, QueueTypeOK
  <1>3. ~Answering' /\ (Answering <=> item[1] = "async")
    BY <1>1 DEF Answering
  <1>4. \/ item[1] # "async" /\ UNCHANGED <<reserved, owes>>
        \/ item[1] = "async" /\ reserved' = reserved - 1 /\ UNCHANGED owes
        \/ item[1] = "async" /\ UNCHANGED reserved /\ Cardinality(owes') = Cardinality(owes) + 1
    <2>1. ASSUME NEW w \in Workers, Spawn(w), owes' = owes \cup {w}
          PROVE  Cardinality(owes') = Cardinality(owes) + 1
      <3>1. w \notin owes
        BY <1>1, <2>1 DEF WorkersInv, Working, Spawn
      <3> QED BY <2>1, <3>1, OwesCounted, FS_AddElement
    <2> QED BY <2>1 DEF ItemRuns, ItemQuits, workVars
  <1>5. reserved' = Cardinality(AsyncIn(queue')) + (IF Answering' THEN 1 ELSE 0) + Cardinality(owes')
    BY <1>1, <1>2, <1>3, <1>4 DEF RequestsInv
  <1>6. /\ reserved' = reserved \/ reserved' = reserved - 1
        /\ reserved <= calls /\ reserved \in Nat /\ calls \in Nat
        /\ ~registered => reserved = 0
        /\ item[1] = "async" => reserved > 0
    BY <1>2, <1>3, <1>4 DEF RequestsInv, TypeOK
  <1>7. reserved' <= calls' /\ (~registered' => reserved' = 0)
    BY <1>1, <1>4, <1>6
  <1> QED BY <1>1, <1>5, <1>7 DEF RequestsInv

(* The core takes an item: if it is a request it is the one that runs.     *)
LEMMA TakingKeepsRequests ==
  ASSUME TypeOK, RequestsInv, WorkersInv, LoopTakesItem, UNCHANGED lifeVars
  PROVE  RequestsInv'
  <1>1. /\ queue \in Seq(Kinds \X Everyone) /\ queue # <<>> /\ queue' = Tail(queue)
        /\ item' = Head(queue) /\ core = "loop" /\ core' = "item"
        /\ UNCHANGED <<reserved, owes, ran, calls, registered>>
    BY DEF TypeOK, QueueTypeOK, LoopTakesItem, lifeVars, clientVars, boundVars, workVars
  <1>2. Cardinality(AsyncIn(queue')) =
          Cardinality(AsyncIn(queue)) - (IF item'[1] = "async" THEN 1 ELSE 0)
    BY <1>1, TakingCounts
  <1>3. Cardinality(AsyncIn(queue)) \in Nat /\ Cardinality(owes) \in Nat
    BY <1>1, AsyncFinite, OwesCounted
  <1>4. ~Answering /\ ~ran /\ (Answering' <=> item'[1] = "async")
    BY <1>1 DEF Answering, RequestsInv
  <1>5. reserved' = Cardinality(AsyncIn(queue')) + (IF Answering' THEN 1 ELSE 0) + Cardinality(owes')
    BY <1>1, <1>2, <1>3, <1>4 DEF RequestsInv
  <1> QED BY <1>1, <1>4, <1>5 DEF RequestsInv

(* A worker replies, if its command was a request.                         *)
LEMMA CompletionCounts ==
  ASSUME TypeOK, RequestsInv, WorkersInv, NEW w \in Workers, WorkerCompletes(w)
  PROVE  RequestsInv'
  <1>1. UNCHANGED <<queue, core, item, ran, registered, calls>>
    BY DEF WorkerCompletes, queueVars, boundVars
  <1>2. Cardinality(AsyncIn(queue)) \in Nat /\ Cardinality(owes) \in Nat /\ IsFiniteSet(owes)
    BY AsyncFinite, OwesCounted DEF TypeOK, QueueTypeOK
  <1>3. Answering' <=> Answering
    BY <1>1 DEF Answering
  <1>4. Cardinality(owes') = IF w \in owes THEN Cardinality(owes) - 1 ELSE Cardinality(owes)
    BY <1>2, FS_RemoveElement DEF WorkerCompletes
  <1>5. reserved' = IF w \in owes THEN reserved - 1 ELSE reserved
    BY DEF WorkerCompletes
  <1>6. w \in owes => Cardinality(owes) # 0
    BY <1>2, FS_EmptySet
  <1>7. reserved' = Cardinality(AsyncIn(queue')) + (IF Answering' THEN 1 ELSE 0) + Cardinality(owes')
    BY <1>1, <1>2, <1>3, <1>4, <1>5 DEF RequestsInv
  <1>8. reserved' <= calls' /\ (~registered' => reserved' = 0)
    BY <1>1, <1>2, <1>5, <1>6 DEF RequestsInv, TypeOK
  <1> QED BY <1>1, <1>7, <1>8 DEF RequestsInv

(* reserved_events counts the requests on their way through every step: it *)
(* went up before the item was sent and goes down with the reply.          *)
LEMMA RequestsInvStep ==
  ASSUME TypeOK, PageInv, WorkersInv, RequestsInv, [Next]_vars
  PROVE  RequestsInv'
  <1> USE DEF boundVars, workVars, clientVars
  <1>1. QueueTypeOK
    BY DEF TypeOK
  <1>2. CASE LockedCall \/ ContinuesHook \/ QuitBegins
    <2>1. UNCHANGED <<queue, reserved, owes, ran, core, item, registered>> /\ calls' \in {calls, calls + 1}
      BY <1>2 DEF LockedCall, ContinuesHook, QuitBegins, PageOnly, LockBegin, Interrupt, coreVars
    <2> QED BY <2>1, RequestsUntouched
  <1>3. CASE PageStep /\ ~Leave
    <2>1. UNCHANGED <<reserved, owes, ran, core, item, registered, calls>>
      BY <1>3 DEF PageStep, LockedCallEnds, QuitRuns, QuitEnds, StopBegins, StopRuns, AskThread,
                  Signal, WakeCore, Destroyed, PageOnly, RunBegin, LockBegin, Unlock, Interrupt,
                  CancelNotify, queueVars, lifeVars, coreVars
    <2>2. UNCHANGED queue \/ RunBegin(Page) \/ CancelNotify
      BY <1>3 DEF PageStep, LockedCallEnds, QuitRuns, QuitEnds, StopBegins, StopRuns, AskThread,
                  Signal, WakeCore, Destroyed, LockBegin, Unlock, Interrupt, queueVars
    <2>3. Cardinality(AsyncIn(queue')) = Cardinality(AsyncIn(queue))
      BY <1>1, <2>2, OtherItemsCount, ThreadsAssumption
    <2> QED BY <2>1, <2>3, RequestsUntouched
  <1>4. CASE Leave
    <2>1. UNCHANGED <<queue, reserved, owes, ran, core, item, calls>> /\ reserved = 0
      BY <1>4 DEF Leave, Interrupt, coreVars
    <2>2. Answering' <=> Answering
      BY <2>1 DEF Answering
    <2> QED BY <2>1, <2>2 DEF RequestsInv
  <1>5. CASE Play \/ HookStarts \/ OwnCommand \/ OwnQuit \/ CoreTimesOut
    <2>1. /\ UNCHANGED <<queue, reserved, owes, ran, item, registered, calls>>
          /\ core # "item" /\ core' # "item"
      BY <1>5 DEF Play, ProcessBegins, HookStarts, CoreGoes, Interrupt, coreVars, OwnCommand, OwnQuit,
                  CoreOnly, CoreTimesOut, TimedOut, queueVars, lifeVars
    <2> QED BY <2>1, RequestsUntouched
  <1>6. CASE StopsPlaying \/ HookTested \/ CheckClients \/ ProcessReturns
    <2>1. /\ UNCHANGED <<queue, reserved, owes, ran, item, registered, calls>>
          /\ core # "item" /\ core' # "item"
      BY <1>6 DEF StopsPlaying, HookTested, CheckClients, CoreGoes, CoreOnly, ProcessReturns, LoopEnds,
                  queueVars
    <2> QED BY <2>1, RequestsUntouched
  <1>7. CASE ItemReturns
    <2>1. /\ UNCHANGED <<queue, reserved, owes, registered, calls>>
          /\ ran /\ ~ran' /\ core' = "loop"
      BY <1>7 DEF ItemReturns, ItemEnds
    <2>2. ~Answering /\ ~Answering'
      BY <2>1 DEF Answering
    <2> QED BY <2>1, <2>2 DEF RequestsInv
  <1>8. CASE CoreLoops /\ ~LoopTakesItem
    <2>1. /\ UNCHANGED <<queue, reserved, owes, ran, item, registered, calls>>
          /\ core # "item" /\ core' # "item"
      BY <1>8 DEF CoreLoops, LoopTrapped, LoopIdles, CoreWakes, lifeVars
    <2> QED BY <2>1, RequestsUntouched
  <1>9. CASE CoreLoops /\ LoopTakesItem
    BY <1>9, TakingKeepsRequests DEF CoreLoops
  <1>10. ASSUME NEW w \in Workers, WorkerStep(w) PROVE RequestsInv'
    <2>1. CASE WorkerCompletes(w)
      BY <2>1, CompletionCounts
    <2>2. CASE ~WorkerCompletes(w)
      <3>1. UNCHANGED <<queue, reserved, owes, ran, item, core, registered, calls>>
        BY <1>10, <2>2 DEF WorkerStep, WorkerBegins, WorkerWrites, WorkerRelocks, WorkerWakes,
                  WorkerEnds, WorkerOnly, LockBegin, Unlock, Interrupt, coreVars
      <3> QED BY <3>1, RequestsUntouched
    <2> QED BY <2>1, <2>2
  <1>11. CASE (\E t \in Threads : Waits(t)) \/ Wakeups \/ Terminated \/ UNCHANGED vars
    <2>1. UNCHANGED <<queue, reserved, owes, ran, item, core, registered, calls>>
      BY <1>11 DEF Waits, ThreadWaits, RunWaits, LockWaits, Wakeups, Interrupt, AdjustTimeout,
                   Terminated, vars, queueVars, lifeVars, coreVars
    <2> QED BY <2>1, RequestsUntouched
  <1>12. CASE OptionChanges
    <2>1. /\ UNCHANGED <<reserved, owes, ran, item, core, registered, calls>>
          /\ AppendItem(<<"notify", Core>>)
      BY <1>12 DEF OptionChanges, Enqueue, coreVars
    <2> QED BY <1>1, <2>1, OtherItemsCount, RequestsUntouched
  <1> QED BY <1>2, <1>3, <1>4, <1>5, <1>6, <1>7, <1>8, <1>9, <1>10, <1>11, <1>12, RequestCounts,
             ItemCounts DEF Next, PageCall, CoreStep

-----------------------------------------------------------------------------
(* The end.                                                                *)

(* Once the core thread has ended nobody is left who could send: the page  *)
(* joins, the workers are idle, and no item but the options' is there.     *)
LEMMA EverybodyIsDone ==
  ASSUME QueueInv, ItemsInv, TypeOK, LifeInv, phase = "exited"
  PROVE  /\ page \in {"signalled", "join", "gone"} /\ reserved = 0
         /\ \A t \in Threads : pc[t] = "free"
         /\ \A w \in Workers : worker[w] = "idle"
         /\ \A n \in DOMAIN queue : queue[n][1] = "notify"
         /\ ~inProcess /\ lockRequests = 0 /\ ~locked
  <1>1. core = "out" /\ ~registered /\ outstanding = 0 /\ terminate
    BY DEF LifeInv, EndInv, MayEnd
  <1>2. page \in {"signalled", "join", "gone"} /\ pc[Page] = "free" /\ reserved = 0
    BY <1>1 DEF LifeInv, PageInv, RequestsInv
  <1>3. Working = {}
    <2>1. Cardinality(Working) = 0 /\ Working \subseteq Workers
      BY <1>1, WorkingFinite DEF LifeInv, WorkersInv
    <2> QED BY <2>1, WorkersCounted
  <1>4. lockedBy = NobodyHas
    BY <1>1 DEF QueueInv, LockInv
  <1>5. \A t \in Threads : pc[t] # "held"
    BY <1>4, ThreadsFinite DEF QueueInv, LockInv, NobodyHas
  <1>6. \A w \in Workers : worker[w] = "idle" /\ pc[w] = "free"
    BY <1>3, <1>5, ThreadsAssumption DEF TypeOK, WorkerSteps, LifeInv, WorkersInv, Working
  <1>7. \A t \in Threads : pc[t] = "free"
    BY <1>2, <1>6, ThreadsAssumption
  <1>8. lockRequests = 0
    BY <1>7, RequestsCounted DEF QueueInv
  <1>9. ~inProcess /\ ~locked
    BY <1>1, <1>4 DEF QueueInv, LockInv
  <1>10. AsyncIn(queue) = {}
    <2>1. Cardinality(AsyncIn(queue)) \in Nat /\ IsFiniteSet(AsyncIn(queue))
      BY AsyncFinite DEF TypeOK, QueueTypeOK
    <2>2. Cardinality(owes) \in Nat
      BY OwesCounted DEF LifeInv
    <2>3. Cardinality(AsyncIn(queue)) = 0
      BY <1>2, <2>1, <2>2 DEF LifeInv, RequestsInv
    <2> QED BY <2>1, <2>3, FS_EmptySet
  <1>11. \A n \in DOMAIN queue : queue[n][1] \in Kinds
    BY DEF TypeOK, QueueTypeOK
  <1>12. \A n \in DOMAIN queue : queue[n][1] # "run"
    BY <1>7 DEF ItemsInv, RunWaiters
  <1>13. \A n \in DOMAIN queue : queue[n][1] = "notify"
    BY <1>10, <1>11, <1>12 DEF AsyncIn, Kinds
  <1> QED BY <1>2, <1>6, <1>7, <1>8, <1>9, <1>13

(* The core thread ends only in CheckClients, under MayEnd; from then on only*)
(* wakeups, changes of options and the destruction are left.               *)
LEMMA EndInvStep ==
  ASSUME QueueInv, ItemsInv, TypeOK, TypeOK', LifeInv, [Next]_vars
  PROVE  EndInv'
  <1>1. CASE phase # "exited"
    <2>1. page # "gone" /\ ~Destroyed
      BY <1>1 DEF LifeInv, EndInv, Destroyed
    <2>2. page' # "gone"
      BY <2>1 DEF Next, PageCall, Request, LockedCall, ContinuesHook, QuitBegins, PageStep,
                  LockedCallEnds, QuitRuns, QuitEnds, Leave, StopBegins, StopRuns, AskThread, Signal,
                  WakeCore, PageGoes, Play, HookStarts, OwnCommand, OwnQuit, CoreTimesOut, CoreStep,
                  StopsPlaying, HookTested, CheckClients, ItemRuns, ItemQuits, ItemReturns,
                  ProcessReturns, CoreLoops, CoreOnly, WorkerStep, WorkerBegins, WorkerWrites,
                  WorkerRelocks, WorkerCompletes, WorkerWakes, WorkerEnds, WorkerOnly, Waits, Wakeups,
                  OptionChanges, Terminated, clientVars, lifeVars, vars
    <2>3. CASE phase' # "exited"
      BY <2>2, <2>3 DEF EndInv
    <2>4. CASE phase' = "exited"
      <3>1. CheckClients /\ MayEnd
        BY <1>1, <2>4 DEF Next, PageCall, Request, LockedCall, ContinuesHook, QuitBegins, PageStep,
                  LockedCallEnds, QuitRuns, QuitEnds, Leave, StopBegins, StopRuns, AskThread, Signal,
                  WakeCore, Destroyed, PageOnly, Play, HookStarts, OwnCommand, OwnQuit, CoreTimesOut,
                  CoreStep, CoreGoes, StopsPlaying, HookTested, CheckClients, ItemRuns, ItemQuits,
                  ItemReturns, ProcessReturns, CoreLoops, WorkerStep, WorkerBegins, WorkerWrites,
                  WorkerRelocks, WorkerCompletes, WorkerWakes, WorkerEnds, WorkerOnly, Waits, Wakeups,
                  OptionChanges, Terminated, lifeVars, vars
      <3>2. UNCHANGED <<registered, outstanding, terminate, core>> /\ core = "out"
        BY <3>1 DEF CheckClients, CoreGoes, CoreOnly, clientVars, workVars, queueVars
      <3> QED BY <2>2, <3>1, <3>2 DEF EndInv, MayEnd
    <2> QED BY <2>3, <2>4
  <1>2. CASE phase = "exited"
    <2>1. /\ page \in {"signalled", "join", "gone"} /\ \A t \in Threads : pc[t] = "free"
          /\ \A w \in Workers : worker[w] = "idle"
          /\ \A n \in DOMAIN queue : queue[n][1] = "notify"
      BY <1>2, EverybodyIsDone
    <2>2. core = "out" /\ MayEnd
      BY <1>2 DEF LifeInv, EndInv
    <2>3. WakeCore \/ Destroyed \/ OptionChanges \/ UNCHANGED vars
      BY <1>2, <2>1, <2>2, ThreadsAssumption
         DEF Next, PageCall, MayCall, Request, LockedCall, ContinuesHook, QuitBegins, PageStep,
             LockedCallEnds, Unlock, QuitRuns, QuitEnds, Leave, StopBegins, StopRuns, AskThread,
             Signal, PageGoes, Play, HookStarts, OwnCommand, OwnQuit, CoreTimesOut, TimedOut,
             CoreStep, CoreGoes, StopsPlaying, HookTested, CheckClients, ItemRuns, ItemQuits,
             ItemReturns, ItemEnds, ProcessReturns, LoopEnds, CoreLoops, LoopTrapped, LoopTakesItem,
             LoopIdles, CoreWakes, WorkerStep, WorkerBegins, WorkerWrites, WorkerRelocks,
             WorkerCompletes, WorkerWakes, WorkerEnds, WorkerGoes, Waits, ThreadWaits, RunWaits,
             LockWaits, Wakeups, Terminated
    <2>4. /\ UNCHANGED <<phase, core, registered, outstanding, terminate>>
          /\ page = "gone" => page' = "gone"
      BY <2>3 DEF WakeCore, Destroyed, PageGoes, PageOnly, OptionChanges, Interrupt, CancelNotify,
                  Enqueue, vars, queueVars, lifeVars, clientVars, workVars, coreVars
    <2>5. phase' = "exited" /\ core' = "out" /\ MayEnd'
      BY <1>2, <2>2, <2>4 DEF MayEnd
    <2>6. page' = "gone" => queue' = <<>>
      <3>1. CASE Destroyed
        <4>1. CancelNotify /\ QueueTypeOK
          BY <3>1 DEF Destroyed, TypeOK
        <4>2. \A n \in DOMAIN queue' : queue'[n][1] # "notify"
          BY <4>1, CancelKeepsItems
        <4>3. \A n \in DOMAIN queue' : queue'[n][1] = "notify"
          <5>1. CASE UNCHANGED queue
            BY <2>1, <5>1
          <5>2. ASSUME NEW k \in DOMAIN queue, queue' = RemoveAt(queue, k)
                PROVE  \A n \in DOMAIN queue' : queue'[n][1] = "notify"
            <6>1. queue \in Seq(Kinds \X Everyone) /\ k \in 1..Len(queue)
                  /\ DOMAIN queue = 1..Len(queue) /\ Len(queue) \in Nat
              BY <4>1 DEF QueueTypeOK
            <6>2. /\ DOMAIN queue' = 1..Len(queue) - 1
                  /\ \A n \in 1..Len(queue) - 1 : queue'[n] = IF n < k THEN queue[n] ELSE queue[n + 1]
              BY <5>2, <6>1, RemoveAtProperties
            <6> QED BY <2>1, <6>1, <6>2
          <5> QED BY <4>1, <5>1, <5>2 DEF CancelNotify
        <4>4. queue' \in Seq(Kinds \X Everyone) /\ DOMAIN queue' = {}
          BY <4>2, <4>3 DEF TypeOK, QueueTypeOK
        <4> QED BY <4>4
      <3>2. CASE page = "gone"
        BY <2>3, <3>2 DEF WakeCore, Destroyed, PageGoes, OptionChanges, vars, queueVars, LifeInv, EndInv
      <3>3. CASE page # "gone" /\ ~Destroyed
        BY <2>3, <3>3 DEF WakeCore, PageGoes, OptionChanges, vars, lifeVars, clientVars
      <3> QED BY <3>1, <3>2, <3>3
    <2> QED BY <2>5, <2>6 DEF EndInv
  <1> QED BY <1>1, <1>2

-----------------------------------------------------------------------------
(* Types, and the invariant as a whole.                                    *)

(* The counters stay in their ranges because of what they count; the rest  *)
(* changes only to values that the actions name.                           *)
LEMMA TypeOKStep ==
  ASSUME TypeOK, QueueTypeOK', WorkersInv', RequestsInv', [Next]_vars
  PROVE  TypeOK'
  <1> USE BoundsAssumption DEF TypeOK
  <1>1. calls' \in 0..MaxCalls /\ notes' \in 0..MaxNotes
    <2>1. CASE Request \/ LockedCall
      BY <2>1 DEF Request, LockedCall, MayCall
    <2>2. CASE OptionChanges
      BY <2>2 DEF OptionChanges
    <2>3. CASE ~(Request \/ LockedCall \/ OptionChanges)
      <3>1. UNCHANGED boundVars
        BY <2>3 DEF Next, PageCall, ContinuesHook, QuitBegins, PageStep, LockedCallEnds, QuitRuns,
                  QuitEnds, Leave, StopBegins, StopRuns, AskThread, Signal, WakeCore, Destroyed,
                  PageOnly, Play, HookStarts, OwnCommand, OwnQuit, CoreTimesOut, CoreStep,
                  StopsPlaying, HookTested, CheckClients, CoreGoes, CoreOnly, ItemRuns, ItemQuits,
                  ItemReturns, ProcessReturns, CoreLoops, WorkerStep, WorkerBegins, WorkerWrites,
                  WorkerRelocks, WorkerCompletes, WorkerWakes, WorkerEnds, WorkerOnly, Waits, Wakeups,
                  Terminated, lifeVars, vars
      <3> QED BY <3>1 DEF boundVars
    <2> QED BY <2>1, <2>2, <2>3
  <1>2. reserved' \in 0..MaxCalls
    <2>1. Cardinality(AsyncIn(queue')) \in Nat
      BY AsyncFinite DEF QueueTypeOK
    <2>2. owes' \subseteq Workers
      BY DEF WorkersInv, Working
    <2>3. Cardinality(owes') \in Nat
      BY <2>2, WorkersCounted
    <2>4. reserved' \in Nat /\ reserved' <= calls'
      BY <2>1, <2>3 DEF RequestsInv
    <2> QED BY <1>1, <2>4
  <1>3. owes' \subseteq Workers /\ outstanding' \in 0..Cardinality(Workers)
    <2>1. Working' \subseteq Workers /\ owes' \subseteq Working'
      BY DEF WorkersInv, Working
    <2>2. Cardinality(Working') \in 0..Cardinality(Workers)
      BY <2>1, WorkersCounted
    <2> QED BY <2>1, <2>2 DEF WorkersInv
  <1>4. page' \in PageSteps
    BY DEF Next, PageCall, Request, LockedCall, ContinuesHook, QuitBegins, PageStep, LockedCallEnds,
           QuitRuns, QuitEnds, Leave, StopBegins, StopRuns, AskThread, Signal, WakeCore, Destroyed,
           PageGoes, Play, HookStarts, OwnCommand, OwnQuit, CoreTimesOut, CoreStep, StopsPlaying,
           HookTested, CheckClients, CoreOnly, ItemRuns, ItemQuits, ItemReturns, ProcessReturns,
           CoreLoops, WorkerStep, WorkerBegins, WorkerWrites, WorkerRelocks, WorkerCompletes,
           WorkerWakes, WorkerEnds, WorkerOnly, Waits, Wakeups, OptionChanges, Terminated, clientVars,
           lifeVars, vars, PageSteps
  <1>5. phase' \in Phases
    BY DEF Next, PageCall, Request, LockedCall, ContinuesHook, QuitBegins, PageStep, LockedCallEnds,
           QuitRuns, QuitEnds, Leave, StopBegins, StopRuns, AskThread, Signal, WakeCore, Destroyed,
           PageOnly, Play, HookStarts, OwnCommand, OwnQuit, CoreTimesOut, CoreStep, StopsPlaying,
           HookTested, CheckClients, CoreGoes, ItemRuns, ItemQuits, ItemReturns, ProcessReturns,
           CoreLoops, WorkerStep, WorkerBegins, WorkerWrites, WorkerRelocks, WorkerCompletes,
           WorkerWakes, WorkerEnds, WorkerOnly, Waits, Wakeups, OptionChanges, Terminated, lifeVars,
           vars, Phases
  <1>6. worker' \in [Workers -> WorkerSteps]
    BY DEF Next, PageCall, Request, LockedCall, ContinuesHook, QuitBegins, PageStep, LockedCallEnds,
           QuitRuns, QuitEnds, Leave, StopBegins, StopRuns, AskThread, Signal, WakeCore, Destroyed,
           PageOnly, Play, HookStarts, OwnCommand, OwnQuit, CoreTimesOut, CoreStep, StopsPlaying,
           HookTested, CheckClients, CoreOnly, ItemRuns, ItemQuits, Spawn, ItemReturns,
           ProcessReturns, CoreLoops, WorkerStep, WorkerBegins, WorkerWrites, WorkerRelocks,
           WorkerCompletes, WorkerWakes, WorkerEnds, WorkerGoes, Waits, Wakeups, OptionChanges,
           Terminated, workVars, lifeVars, vars, WorkerSteps
  <1>7. ran' \in BOOLEAN /\ stopPlay' \in BOOLEAN /\ registered' \in BOOLEAN /\ terminate' \in BOOLEAN
    BY DEF Next, PageCall, Request, LockedCall, ContinuesHook, QuitBegins, PageStep, LockedCallEnds,
           QuitRuns, QuitEnds, Leave, StopBegins, StopRuns, AskThread, Signal, WakeCore, Destroyed,
           PageOnly, Play, HookStarts, OwnCommand, OwnQuit, CoreTimesOut, CoreStep, StopsPlaying,
           HookTested, CheckClients, CoreOnly, ItemRuns, ItemQuits, ItemReturns, ProcessReturns,
           CoreLoops, WorkerStep, WorkerBegins, WorkerWrites, WorkerRelocks, WorkerCompletes,
           WorkerWakes, WorkerEnds, WorkerOnly, Waits, Wakeups, OptionChanges, Terminated, clientVars,
           lifeVars, vars
  <1> QED BY <1>1, <1>2, <1>3, <1>4, <1>5, <1>6, <1>7

IInv == QueueInv /\ ItemsInv /\ TypeOK /\ LifeInv

(* Nothing is sent, requested or started yet.                              *)
LEMMA InitIInv == Init => IInv
  <1> SUFFICES ASSUME Init PROVE IInv
    OBVIOUS
  <1>1. QueueInv
    BY QueueInvInit DEF Init
  <1>2. AsyncIn(queue) = {} /\ Working = {}
    BY DEF Init, QueueInit, AsyncIn, Working
  <1>3. ItemsInv
    BY DEF Init, QueueInit, ItemsInv
  <1>4. Cardinality(Workers) \in Nat
    BY WorkersCounted
  <1>5. TypeOK
    <2>1. calls \in 0..MaxCalls /\ notes \in 0..MaxNotes /\ reserved \in 0..MaxCalls
      BY BoundsAssumption DEF Init
    <2>2. outstanding \in 0..Cardinality(Workers)
      BY <1>4 DEF Init
    <2>3. page \in PageSteps /\ phase \in Phases /\ worker \in [Workers -> WorkerSteps]
      BY DEF Init, PageSteps, Phases, WorkerSteps
    <2>4. /\ ran \in BOOLEAN /\ stopPlay \in BOOLEAN /\ registered \in BOOLEAN
          /\ terminate \in BOOLEAN /\ owes \subseteq Workers
      BY DEF Init
    <2> QED BY <1>1, <2>1, <2>2, <2>3, <2>4 DEF TypeOK, QueueInv
  <1>6. PageInv
    BY ThreadsAssumption DEF Init, QueueInit, PageInv
  <1>7. WorkersInv
    BY <1>2, FS_EmptySet, ThreadsAssumption DEF Init, QueueInit, WorkersInv
  <1>8. RequestsInv
    <2>1. Cardinality(AsyncIn(queue)) = 0 /\ Cardinality(owes) = 0 /\ ~Answering /\ ~ran
      BY <1>2, FS_EmptySet DEF Init, QueueInit, Answering
    <2>2. reserved = 0 /\ calls = 0 /\ registered
      BY DEF Init
    <2> QED BY <2>1, <2>2 DEF RequestsInv
  <1>9. EndInv
    BY DEF Init, EndInv
  <1> QED BY <1>1, <1>3, <1>5, <1>6, <1>7, <1>8, <1>9 DEF IInv, LifeInv

(* Every step keeps it.                                                    *)
LEMMA IInvStep ==
  ASSUME IInv, [Next]_vars
  PROVE  IInv'
  <1>1. QueueInv' /\ ItemsInv' /\ QueueTypeOK'
    BY QueueInvsStep DEF IInv, QueueInv
  <1>2. PageInv' /\ WorkersInv' /\ RequestsInv'
    BY PageInvStep, WorkersInvStep, RequestsInvStep DEF IInv, LifeInv, TypeOK
  <1>3. TypeOK'
    BY <1>1, <1>2, TypeOKStep DEF IInv
  <1>4. EndInv'
    BY <1>3, EndInvStep DEF IInv
  <1> QED BY <1>1, <1>2, <1>3, <1>4 DEF IInv, LifeInv

(* The invariant of every reachable state, for any number of workers.      *)
LEMMA Invariant == Spec => []IInv
  BY InitIInv, IInvStep, PTL DEF Spec

-----------------------------------------------------------------------------
(* Theorems.                                                               *)

(* The threads of the player and the end of their lives use the queue as   *)
(* Dispatch says: CoreShutdown implements it.                              *)
THEOREM UsesTheQueue == Spec => QueueSpec
  <1>1. Init => QueueInit
    BY DEF Init
  <1> QED BY <1>1, QueueSteps, PTL DEF Spec, QueueSpec

(* The variables keep their types; in particular outstanding_async never   *)
(* goes below 0 nor above the workers, and reserved_events never below 0.  *)
THEOREM TypeCorrect == Spec => []TypeOK
  BY Invariant, PTL DEF IInv

(* Of the playloop, a running item and the holders of the lock at most one *)
(* is active, and the assertions of the dispatch functions hold.           *)
THEOREM CoreExclusive == Spec => []Exclusive
  <1>1. IInv => Exclusive
    BY ExclusiveFollows DEF IInv
  <1> QED BY <1>1, Invariant, PTL

(* Nobody sleeps on the condition variable of the queue although what it   *)
(* waits for is already true.                                              *)
THEOREM NoWakeupLost == Spec => []NobodySleepsOn
  <1>1. IInv => NobodySleepsOn
    BY DEF IInv, QueueInv
  <1> QED BY <1>1, Invariant, PTL

(* When the client is forgotten its requests are answered; when the core   *)
(* thread has ended no worker runs; and when the queue is freed it is      *)
(* empty and nobody is inside or waits (the assertions of queue_dtor).     *)
THEOREM FreedUnused == Spec => []QueueUnusedAtEnd
  <1>1. IInv => QueueUnusedAtEnd
    <2> SUFFICES ASSUME IInv PROVE QueueUnusedAtEnd
      OBVIOUS
    <2>1. ~registered => reserved = 0
      BY DEF IInv, LifeInv, RequestsInv
    <2>2. ASSUME phase = "exited"
          PROVE  /\ \A t \in Threads : pc[t] = "free"
                 /\ \A w \in Workers : worker[w] = "idle"
                 /\ ~inProcess /\ lockRequests = 0 /\ ~locked
      BY <2>2, EverybodyIsDone DEF IInv
    <2>3. page = "gone" => phase = "exited" /\ queue = <<>>
      BY DEF IInv, LifeInv, EndInv
    <2> QED BY <2>1, <2>2, <2>3, ThreadsAssumption DEF QueueUnusedAtEnd
  <1> QED BY <1>1, Invariant, PTL
=============================================================================
