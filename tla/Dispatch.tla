------------------------------ MODULE Dispatch ------------------------------
(***************************************************************************)
(* mpv's dispatch queue (misc/dispatch.c): how threads get at the state    *)
(* of the core, by having an item run on its thread or by trapping that    *)
(* thread in mp_dispatch_queue_process and holding the dispatch lock.      *)
(*                                                                         *)
(* The core's queue, which has neither wakeup_fn nor onlock_fn.  One action *)
(* is one critical section of queue->lock; the core keeps that mutex from  *)
(* one round of its loop to the next (core = "loop") and gives it up only  *)
(* to wait or to run an item.                                              *)
(***************************************************************************)
EXTENDS Integers, Sequences, FiniteSets, SequencesExt

CONSTANTS Threads,  \* threads that use the queue
          Core      \* the target thread, which processes it

ASSUME CoreAssumption == Core \notin Threads
ASSUME ThreadsFinite == IsFiniteSet(Threads) /\ "nobody" \notin Threads

Everyone == Threads \cup {Core}
Kinds == {"run", "async", "notify"}
NobodyHas == "nobody"

CorePcs == {"out", "loop", "trapped", "idle", "item"}
ThreadPcs == {"free", "lock", "held", "run"}

VARIABLES
  queue,         \* the items, <<kind, thread>>; asynchronous ones need no thread
  wait,          \* queue->wait > 0
  interrupted,   \* queue->interrupted
  inProcess,     \* queue->in_process
  locked,        \* queue->locked
  lockRequests,  \* queue->lock_requests
  lockedBy,      \* locked_explicit and locked_explicit_thread
  core,          \* the target thread; "out" while it plays
  item,          \* the item that runs
  pc,            \* what a thread is doing with the queue
  completed,     \* item.completed of a thread's mp_dispatch_run
  asleep         \* threads inside pthread_cond_wait

flagVars == <<inProcess, locked, lockRequests, lockedBy>>
coreVars == <<core, item, wait>>
queueVars == <<queue, wait, interrupted, flagVars, core, item, pc, completed, asleep>>

QueueTypeOK ==
  /\ queue \in Seq(Kinds \X Everyone)
  /\ wait \in BOOLEAN /\ interrupted \in BOOLEAN
  /\ inProcess \in BOOLEAN /\ locked \in BOOLEAN
  /\ lockRequests \in 0..Cardinality(Threads)
  /\ lockedBy \in Threads \cup {NobodyHas}
  /\ core \in CorePcs
  /\ item \in Kinds \X Everyone
  /\ pc \in [Threads -> ThreadPcs]
  /\ completed \in [Threads -> BOOLEAN]
  /\ asleep \subseteq Everyone

QueueInit ==
  /\ queue = <<>> /\ wait = FALSE /\ interrupted = FALSE
  /\ inProcess = FALSE /\ locked = FALSE /\ lockRequests = 0 /\ lockedBy = NobodyHas
  /\ core = "out" /\ item = <<"async", Core>>
  /\ pc = [t \in Threads |-> "free"]
  /\ completed = [t \in Threads |-> FALSE]
  /\ asleep = {}

MutexFree == core # "loop"
Broadcast == asleep' = {}

-----------------------------------------------------------------------------
(* Sending.                                                                *)

(* mp_dispatch_append without a wakeup_fn; a mergeable item that is already *)
(* in the queue is not added again.                                        *)
AppendItem(i) ==
  IF i[1] = "notify" /\ \E n \in DOMAIN queue : queue[n][1] = "notify"
  THEN UNCHANGED <<queue, interrupted, asleep>>
  ELSE /\ queue' = Append(queue, i)
       /\ interrupted' = TRUE
       /\ Broadcast

(* mp_dispatch_enqueue: by the core itself too, and with the lock held.    *)
Enqueue(kind) ==
  /\ MutexFree /\ kind # "run"
  /\ AppendItem(<<kind, Core>>)
  /\ UNCHANGED <<flagVars, coreVars, pc, completed>>

RunBegin(t) ==
  /\ MutexFree /\ pc[t] = "free"
  /\ AppendItem(<<"run", t>>)
  /\ completed' = [completed EXCEPT ![t] = FALSE]
  /\ pc' = [pc EXCEPT ![t] = "run"]
  /\ UNCHANGED <<flagVars, coreVars>>

Sleep(t) == asleep' = asleep \cup {t}

RunWaits(t) ==
  /\ MutexFree /\ pc[t] = "run" /\ t \notin asleep
  /\ \/ completed[t] /\ pc' = [pc EXCEPT ![t] = "free"] /\ UNCHANGED asleep
     \/ ~completed[t] /\ Sleep(t) /\ UNCHANGED pc
  /\ UNCHANGED <<queue, interrupted, flagVars, coreVars, completed>>

(* mp_dispatch_interrupt, which is mp_wakeup_core, from any thread.        *)
Interrupt ==
  /\ MutexFree
  /\ interrupted' = TRUE
  /\ Broadcast
  /\ UNCHANGED <<queue, flagVars, coreVars, pc, completed>>

(* mp_dispatch_adjust_timeout to a time that has passed.                   *)
AdjustTimeout ==
  /\ MutexFree /\ inProcess /\ wait
  /\ wait' = FALSE
  /\ Broadcast
  /\ UNCHANGED <<queue, interrupted, flagVars, core, item, pc, completed>>

(* mp_dispatch_cancel_fn for the item of the options' change callback,     *)
(* which is mergeable: there is at most one.                               *)
CancelNotify ==
  /\ MutexFree
  /\ \/ \E n \in DOMAIN queue : queue[n][1] = "notify" /\ queue' = RemoveAt(queue, n)
     \/ (\A n \in DOMAIN queue : queue[n][1] # "notify") /\ UNCHANGED queue
  /\ UNCHANGED <<wait, interrupted, flagVars, core, item, pc, completed, asleep>>

-----------------------------------------------------------------------------
(* mp_dispatch_lock and mp_dispatch_unlock.                                *)

TakesUnlocked == inProcess
MayTake == inProcess /\ ~locked

Take(t) ==
  /\ locked' = TRUE
  /\ lockedBy' = t
  /\ pc' = [pc EXCEPT ![t] = "held"]
  /\ UNCHANGED asleep

(* While the core is not in mp_dispatch_queue_process, the mutex is given  *)
(* up once before the first wait (for wakeup_fn).                          *)
LockBegin(t) ==
  /\ MutexFree /\ pc[t] = "free"
  /\ lockRequests' = lockRequests + 1
  /\ \/ MayTake /\ Take(t)
     \/ /\ ~MayTake
        /\ pc' = [pc EXCEPT ![t] = "lock"]
        /\ asleep' = IF inProcess THEN asleep \cup {t} ELSE asleep
        /\ UNCHANGED <<locked, lockedBy>>
  /\ UNCHANGED <<queue, interrupted, inProcess, coreVars, completed>>

LockWaits(t) ==
  /\ MutexFree /\ pc[t] = "lock" /\ t \notin asleep
  /\ \/ MayTake /\ Take(t)
     \/ ~MayTake /\ Sleep(t) /\ UNCHANGED <<locked, lockedBy, pc>>
  /\ UNCHANGED <<queue, interrupted, inProcess, lockRequests, coreVars, completed>>

UnlockQuietly(t) ==
  /\ MutexFree /\ pc[t] = "held"
  /\ locked' = FALSE /\ lockedBy' = NobodyHas
  /\ lockRequests' = lockRequests - 1
  /\ pc' = [pc EXCEPT ![t] = "free"]
  /\ UNCHANGED <<queue, interrupted, inProcess, coreVars, completed, asleep>>

Unlock(t) ==
  /\ MutexFree /\ pc[t] = "held"
  /\ locked' = FALSE /\ lockedBy' = NobodyHas
  /\ lockRequests' = lockRequests - 1
  /\ pc' = [pc EXCEPT ![t] = "free"]
  /\ Broadcast
  /\ UNCHANGED <<queue, interrupted, inProcess, coreVars, completed>>

-----------------------------------------------------------------------------
(* mp_dispatch_queue_process on the target thread.                         *)

ProcessBegins(timeout) ==
  /\ core = "out"
  /\ core' = "loop"
  /\ inProcess' = TRUE
  /\ wait' = timeout
  /\ asleep' = IF lockRequests > 0 THEN {} ELSE asleep
  /\ UNCHANGED <<queue, interrupted, locked, lockRequests, lockedBy, item, pc, completed>>

LockWaited == lockRequests > 0

(* Block due to something having called mp_dispatch_lock().                *)
LoopTrapped ==
  /\ core = "loop" /\ LockWaited
  /\ core' = "trapped"
  /\ Sleep(Core)
  /\ UNCHANGED <<queue, wait, interrupted, flagVars, item, pc, completed>>

LoopTakesItem ==
  /\ core = "loop" /\ ~LockWaited /\ queue # <<>>
  /\ core' = "item"
  /\ item' = Head(queue) /\ queue' = Tail(queue)
  /\ locked' = TRUE
  /\ UNCHANGED <<wait, interrupted, inProcess, lockRequests, lockedBy, pc, completed, asleep>>

ItemEnds ==
  /\ core = "item"
  /\ core' = "loop"
  /\ locked' = FALSE
  /\ Broadcast
  /\ completed' = IF item[1] = "run" THEN [completed EXCEPT ![item[2]] = TRUE] ELSE completed
  /\ UNCHANGED <<queue, wait, interrupted, inProcess, lockRequests, lockedBy, item, pc>>

LoopIdles ==
  /\ core = "loop" /\ ~LockWaited /\ queue = <<>> /\ wait /\ ~interrupted
  /\ core' = "idle"
  /\ Sleep(Core)
  /\ UNCHANGED <<queue, wait, interrupted, flagVars, item, pc, completed>>

LoopEnds ==
  /\ core = "loop" /\ ~LockWaited /\ queue = <<>> /\ (~wait \/ interrupted)
  /\ core' = "out"
  /\ inProcess' = FALSE
  /\ interrupted' = FALSE
  /\ UNCHANGED <<queue, wait, locked, lockRequests, lockedBy, item, pc, completed, asleep>>

CoreWakes ==
  /\ core \in {"trapped", "idle"} /\ Core \notin asleep
  /\ core' = "loop"
  /\ UNCHANGED <<queue, wait, interrupted, flagVars, item, pc, completed, asleep>>

(* The timeout of pthread_cond_timedwait.                                  *)
TimedOut ==
  /\ core = "idle"
  /\ core' = "loop"
  /\ wait' = FALSE
  /\ asleep' = asleep \ {Core}
  /\ UNCHANGED <<queue, interrupted, flagVars, item, pc, completed>>

-----------------------------------------------------------------------------
LoopStep == LoopTrapped \/ LoopTakesItem \/ LoopIdles \/ LoopEnds \/ CoreWakes
ThreadWaits(t) == RunWaits(t) \/ LockWaits(t)

QueueNext ==
  \/ \E kind \in {"async", "notify"} : Enqueue(kind)
  \/ \E t \in Threads : RunBegin(t) \/ LockBegin(t) \/ ThreadWaits(t) \/ Unlock(t)
  \/ Interrupt \/ AdjustTimeout \/ CancelNotify
  \/ \E timeout \in BOOLEAN : ProcessBegins(timeout)
  \/ LoopStep \/ ItemEnds \/ TimedOut

QueueSpec == QueueInit /\ [][QueueNext]_queueVars

-----------------------------------------------------------------------------
(* Properties.                                                             *)

Holders == {t \in Threads : pc[t] = "held"}

(* "Grant exclusive access to the target thread's state": of the playloop, *)
(* a running item and the holders of the lock at most one is active; and   *)
(* the assertions of mp_dispatch_lock, _unlock and _queue_process hold.    *)
Exclusive ==
  /\ Cardinality(Holders) + (IF core \in {"out", "item"} THEN 1 ELSE 0) <= 1
  /\ locked <=> Holders # {} \/ core = "item"
  /\ lockedBy = NobodyHas <=> Holders = {}
  /\ \A t \in Holders : lockedBy = t
  /\ lockRequests = Cardinality({t \in Threads : pc[t] \in {"lock", "held"}})

(* No lost wakeup on the one condition variable that everybody shares:     *)
(* nobody sleeps although what it waits for is already true.               *)
NobodySleepsOn ==
  /\ Core \in asleep => \/ core = "trapped" /\ LockWaited
                        \/ core = "idle" /\ queue = <<>> /\ ~interrupted /\ wait
  /\ \A t \in asleep \ {Core} : \/ pc[t] = "run" /\ ~completed[t]
                                \/ pc[t] = "lock" /\ ~MayTake
=============================================================================
