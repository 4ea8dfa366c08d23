---------------------------- MODULE CoreShutdown ----------------------------
(***************************************************************************)
(* The threads around mpv's core and the end of their lives: the plugin's  *)
(* main thread (the only client of the core in this build, which has no    *)
(* scripts), the worker threads that run asynchronous commands, and the    *)
(* core thread, over the dispatch queue of Dispatch.                       *)
(*                                                                         *)
(* ~MPVInstance ends in mpv_terminate_destroy: the client quits, waits for *)
(* its requests, takes itself off the list, makes the core thread stop and *)
(* frees everything, the queue included.                                   *)
(***************************************************************************)
EXTENDS Dispatch

CONSTANTS Page,      \* the plugin's main thread
          Workers,   \* threads of the pool
          MaxCalls,  \* bound: calls the page makes
          MaxNotes   \* bound: changes of options that notify the core

ASSUME ThreadsAssumption == Threads = {Page} \cup Workers /\ Page \notin Workers
ASSUME BoundsAssumption == MaxCalls \in Nat /\ MaxNotes \in Nat

PageSteps == {"live", "quit", "quitting", "drain", "removed", "stop", "thread",
              "asked", "signalled", "join", "gone"}
WorkerSteps == {"idle", "queued", "handler", "writing", "written", "wakes", "unlocks"}

(* It plays; inside process_hooks it tests whether the hook is done and     *)
(* waits; mp_shutdown_clients checks and waits.                            *)
Phases == {"playing", "hook", "hookwait", "hookdone", "check", "wait", "exited"}
ShuttingDown == {"check", "wait", "exited"}

VARIABLES
  page,         \* how far mp_destroy_client is
  calls, notes, \* for the bounds
  reserved,     \* reserved_events: requests not yet replied
  ran,          \* the function of the item has returned
  worker,       \* run_command_on_worker_thread
  owes,         \* workers whose command came from the page and owes a reply
  outstanding,  \* outstanding_async
  phase,        \* core_thread: see Phases
  stopPlay,     \* stop_play = PT_QUIT
  registered,   \* the client is in the list (num_clients = 1)
  terminate     \* terminate_core_thread

boundVars == <<calls, notes>>
workVars == <<worker, owes, outstanding>>
clientVars == <<page, reserved, registered, terminate>>
lifeVars == <<clientVars, boundVars, ran, workVars, phase, stopPlay>>
vars == <<queueVars, lifeVars>>

TypeOK ==
  /\ QueueTypeOK
  /\ page \in PageSteps
  /\ calls \in 0..MaxCalls /\ notes \in 0..MaxNotes
  /\ reserved \in 0..MaxCalls
  /\ ran \in BOOLEAN
  /\ worker \in [Workers -> WorkerSteps]
  /\ owes \subseteq Workers
  /\ outstanding \in 0..Cardinality(Workers)
  /\ phase \in Phases
  /\ stopPlay \in BOOLEAN /\ registered \in BOOLEAN /\ terminate \in BOOLEAN

Init ==
  /\ QueueInit
  /\ page = "live" /\ calls = 0 /\ notes = 0 /\ reserved = 0
  /\ ran = FALSE
  /\ worker = [w \in Workers |-> "idle"] /\ owes = {} /\ outstanding = 0
  /\ phase = "playing" /\ stopPlay = FALSE
  /\ registered = TRUE /\ terminate = FALSE

-----------------------------------------------------------------------------
(* The page's thread while the plugin lives.                               *)

MayCall == page = "live" /\ pc[Page] = "free" /\ calls < MaxCalls

(* run_async: the slot for the reply, then the item.                       *)
Request ==
  /\ MayCall
  /\ Enqueue("async")
  /\ calls' = calls + 1
  /\ reserved' = reserved + 1
  /\ UNCHANGED <<page, registered, terminate, notes, ran, workVars, phase, stopPlay>>

(* A call under lock_core: hook_add, hook_continue, set_option, and what   *)
(* hook_continue does while the hook waits.                                *)
LockedCall ==
  /\ MayCall
  /\ LockBegin(Page)
  /\ calls' = calls + 1
  /\ UNCHANGED <<clientVars, notes, ran, workVars, phase, stopPlay>>

ContinuesHook ==
  /\ page = "live" /\ pc[Page] = "held" /\ phase = "hookwait"
  /\ phase' = "hookdone"
  /\ Interrupt
  /\ UNCHANGED <<clientVars, boundVars, ran, workVars, stopPlay>>

LockedCallEnds ==
  /\ page = "live"
  /\ Unlock(Page)
  /\ UNCHANGED lifeVars

-----------------------------------------------------------------------------
(* mp_destroy_client(ctx, true).                                           *)

PageGoes(from, to) == page = from /\ page' = to
PageOnly == <<reserved, registered, terminate, boundVars, ran, workVars, phase, stopPlay>>

(* mpv_command "quit": lock_core, cmd_quit, unlock_core.                   *)
QuitBegins ==
  /\ PageGoes("live", "quit") /\ LockBegin(Page)
  /\ UNCHANGED PageOnly

QuitRuns ==
  /\ PageGoes("quit", "quitting") /\ pc[Page] = "held"
  /\ stopPlay' = TRUE
  /\ Interrupt
  /\ UNCHANGED <<reserved, registered, terminate, boundVars, ran, workVars, phase>>

QuitEnds ==
  /\ PageGoes("quitting", "drain") /\ Unlock(Page)
  /\ UNCHANGED PageOnly

(* mpv_wait_async_requests, and the client leaves the list; the core waits *)
(* for that in mp_shutdown_clients and in process_hooks.                   *)
Leave ==
  /\ PageGoes("drain", "removed") /\ reserved = 0
  /\ registered' = FALSE
  /\ Interrupt
  /\ UNCHANGED <<reserved, terminate, boundVars, ran, workVars, phase, stopPlay>>

StopBegins ==
  /\ PageGoes("removed", "stop") /\ LockBegin(Page)
  /\ UNCHANGED PageOnly

StopRuns ==
  /\ PageGoes("stop", "thread") /\ Unlock(Page)
  /\ stopPlay' = TRUE
  /\ UNCHANGED <<reserved, registered, terminate, boundVars, ran, workVars, phase>>

(* mp_dispatch_run(get_thread).                                            *)
AskThread ==
  /\ PageGoes("thread", "asked") /\ RunBegin(Page)
  /\ UNCHANGED PageOnly

(* terminate_core_thread, under clients->lock; then mp_wakeup_core.        *)
Signal ==
  /\ PageGoes("asked", "signalled") /\ pc[Page] = "free"
  /\ terminate' = TRUE
  /\ UNCHANGED <<queueVars, reserved, registered, boundVars, ran, workVars, phase, stopPlay>>

WakeQuietly ==
  /\ PageGoes("signalled", "join") /\ UNCHANGED <<queueVars, PageOnly>>

WakeCore ==
  /\ PageGoes("signalled", "join") /\ Interrupt
  /\ UNCHANGED PageOnly

(* pthread_join, mp_destroy: the configuration, which takes its item back, *)
(* is freed before the queue.                                              *)
Destroyed ==
  /\ PageGoes("join", "gone") /\ phase = "exited"
  /\ CancelNotify
  /\ UNCHANGED PageOnly

-----------------------------------------------------------------------------
(* The core thread.                                                        *)

CoreGoes(from, to) == phase = from /\ core = "out" /\ phase' = to
CoreOnly == <<queueVars, clientVars, boundVars, ran, workVars, stopPlay>>

(* It processes the queue between two rounds of the playloop, which looks  *)
(* at stop_play first: then only loops that wait for another thread still  *)
(* process, and that thread wakes the core.                                *)
Play ==
  /\ phase \in {"playing", "hookwait", "wait"}
  /\ \E timeout \in BOOLEAN : /\ phase = "playing" /\ stopPlay => ~timeout
                              /\ ProcessBegins(timeout)
  /\ UNCHANGED lifeVars

(* process_hooks: the event is sent, and the core waits until the page has *)
(* continued the hook or is gone.                                          *)
HookStarts ==
  /\ CoreGoes("playing", "hook") /\ registered
  /\ UNCHANGED CoreOnly

HookTested ==
  /\ CoreGoes("hook", IF registered THEN "hookwait" ELSE "playing")
  /\ UNCHANGED CoreOnly

StopsPlaying ==
  /\ CoreGoes("playing", "check") /\ stopPlay
  /\ UNCHANGED CoreOnly

MayEndAnyhow == ~registered /\ terminate
MayEnd == ~registered /\ outstanding = 0 /\ terminate

(* mp_shutdown_clients: under clients->lock it decides to end or to wait.  *)
CheckClients ==
  /\ CoreGoes("check", IF MayEnd THEN "exited" ELSE "wait")
  /\ UNCHANGED CoreOnly

(* run_command for a command with spawn_thread.                            *)
SpawnUncounted(w) ==
  /\ worker[w] = "idle"
  /\ worker' = [worker EXCEPT ![w] = "queued"]
  /\ UNCHANGED outstanding

Spawn(w) ==
  /\ worker[w] = "idle"
  /\ worker' = [worker EXCEPT ![w] = "queued"]
  /\ outstanding' = outstanding + 1

(* A command nobody waits for: of a key binding or the screenshot of each  *)
(* frame.                                                                  *)
OwnCommand ==
  /\ phase \in {"playing", "hook"} /\ core = "out"
  /\ \E w \in Workers : Spawn(w)
  /\ UNCHANGED <<queueVars, clientVars, boundVars, ran, owes, phase, stopPlay>>

(* cmd_quit from a key binding: the core may be in mp_shutdown_clients     *)
(* while the page lives.                                                   *)
OwnQuit ==
  /\ phase \in {"playing", "hook"} /\ core = "out"
  /\ stopPlay' = TRUE
  /\ Interrupt
  /\ UNCHANGED <<clientVars, boundVars, ran, workVars, phase>>

(* A request is answered by its item, or by the worker that it starts.     *)
ItemRuns ==
  /\ core = "item" /\ ~ran
  /\ ran' = TRUE
  /\ \/ item[1] # "async" /\ UNCHANGED <<reserved, workVars>>
     \/ item[1] = "async" /\ reserved' = reserved - 1 /\ UNCHANGED workVars
     \/ /\ item[1] = "async"
        /\ \E w \in Workers : Spawn(w) /\ owes' = owes \cup {w}
        /\ UNCHANGED reserved
  /\ UNCHANGED <<queueVars, page, registered, terminate, boundVars, phase, stopPlay>>

(* A request for the command quit.                                         *)
ItemQuits ==
  /\ core = "item" /\ ~ran /\ item[1] = "async"
  /\ ran' = TRUE
  /\ reserved' = reserved - 1
  /\ stopPlay' = TRUE
  /\ Interrupt
  /\ UNCHANGED <<page, registered, terminate, boundVars, workVars, phase>>

ItemReturns ==
  /\ ran /\ ItemEnds
  /\ ran' = FALSE
  /\ UNCHANGED <<clientVars, boundVars, workVars, phase, stopPlay>>

ProcessReturns ==
  /\ LoopEnds
  /\ phase' = CASE phase = "wait" -> "check"
                [] phase = "hookwait" -> "hook"
                [] phase = "hookdone" -> "playing"
                [] OTHER -> phase
  /\ UNCHANGED <<clientVars, boundVars, ran, workVars, stopPlay>>

CoreLoops ==
  /\ LoopTrapped \/ LoopTakesItem \/ LoopIdles \/ CoreWakes
  /\ UNCHANGED lifeVars

CoreTimesOut == TimedOut /\ UNCHANGED lifeVars

-----------------------------------------------------------------------------
(* A worker: run_command_on_worker_thread.                                 *)

WorkerGoes(w, from, to) == worker[w] = from /\ worker' = [worker EXCEPT ![w] = to]
WorkerOnly == <<clientVars, boundVars, ran, owes, outstanding, phase, stopPlay>>

WorkerBegins(w) ==
  /\ WorkerGoes(w, "queued", "handler") /\ LockBegin(w)
  /\ UNCHANGED WorkerOnly

(* write_screenshot gives the core back while it writes the file.          *)
WorkerWrites(w) ==
  /\ WorkerGoes(w, "handler", "writing") /\ Unlock(w)
  /\ UNCHANGED WorkerOnly

WorkerRelocks(w) ==
  /\ WorkerGoes(w, "writing", "written") /\ LockBegin(w)
  /\ UNCHANGED WorkerOnly

(* The reply and the count, both with the core locked.                     *)
WorkerCompletes(w) ==
  /\ worker[w] \in {"handler", "written"} /\ pc[w] = "held"
  /\ reserved' = IF w \in owes THEN reserved - 1 ELSE reserved
  /\ owes' = owes \ {w}
  /\ outstanding' = outstanding - 1
  /\ worker' = [worker EXCEPT ![w] = IF outstanding' = 0 /\ phase \in ShuttingDown
                                     THEN "wakes" ELSE "unlocks"]
  /\ UNCHANGED <<queueVars, page, registered, terminate, boundVars, ran, phase, stopPlay>>

WorkerWakes(w) ==
  /\ WorkerGoes(w, "wakes", "unlocks") /\ Interrupt
  /\ UNCHANGED WorkerOnly

WorkerEnds(w) ==
  /\ WorkerGoes(w, "unlocks", "idle") /\ Unlock(w)
  /\ UNCHANGED WorkerOnly

-----------------------------------------------------------------------------
(* Everybody else: mp_wakeup_core and mp_set_timeout of the demuxer, the   *)
(* outputs and the core itself, changes of options (also by mp_destroy,    *)
(* which restores them).                                                   *)
Wakeups ==
  /\ phase # "exited"
  /\ Interrupt \/ AdjustTimeout
  /\ UNCHANGED lifeVars

OptionChanges ==
  /\ page # "gone" /\ notes < MaxNotes
  /\ Enqueue("notify")
  /\ notes' = notes + 1
  /\ UNCHANGED <<clientVars, calls, ran, workVars, phase, stopPlay>>

Waits(t) == ThreadWaits(t) /\ UNCHANGED lifeVars

Terminated == page = "gone" /\ UNCHANGED vars

-----------------------------------------------------------------------------
PageCall == Request \/ LockedCall \/ ContinuesHook \/ QuitBegins
PageStep == \/ LockedCallEnds \/ QuitRuns \/ QuitEnds \/ Leave \/ StopBegins \/ StopRuns
            \/ AskThread \/ Signal \/ WakeCore \/ Destroyed
WorkerStep(w) == \/ WorkerBegins(w) \/ WorkerWrites(w) \/ WorkerRelocks(w)
                 \/ WorkerCompletes(w) \/ WorkerWakes(w) \/ WorkerEnds(w)
CoreStep == \/ StopsPlaying \/ HookTested \/ CheckClients
            \/ ItemRuns \/ ItemQuits \/ ItemReturns \/ ProcessReturns \/ CoreLoops

Next ==
  \/ PageCall \/ PageStep
  \/ Play \/ HookStarts \/ OwnCommand \/ OwnQuit \/ CoreStep \/ CoreTimesOut
  \/ \E w \in Workers : WorkerStep(w)
  \/ \E t \in Threads : Waits(t)
  \/ Wakeups \/ OptionChanges
  \/ Terminated

Spec == Init /\ [][Next]_vars

(* Every thread is scheduled, and the playloop comes back to the queue.    *)
(* The strong fairness: it stops when it finds stop_play again and again;  *)
(* a thread that finds the mutex free again and again gets it once,        *)
(* although wakeups by others make the core take it any number of times.   *)
(* Calls, wakeups, option changes and timeouts are nobody's duty.          *)
Fairness ==
  /\ SF_vars(PageStep)
  /\ WF_vars(CoreStep) /\ WF_vars(Play) /\ SF_vars(StopsPlaying)
  /\ \A w \in Workers : SF_vars(WorkerStep(w))
  /\ \A t \in Threads : SF_vars(Waits(t))

FairSpec == Spec /\ Fairness

-----------------------------------------------------------------------------
(* Properties.                                                             *)

(* queue_dtor: when the queue is freed it is empty and nobody is inside;   *)
(* and the requests of the client were answered before it was forgotten.   *)
QueueUnusedAtEnd ==
  /\ ~registered => reserved = 0
  /\ phase = "exited" => \A w \in Workers : worker[w] = "idle" /\ pc[w] = "free"
  /\ page = "gone" => /\ queue = <<>> /\ ~inProcess /\ lockRequests = 0 /\ ~locked
                      /\ \A t \in Threads : pc[t] = "free"

(* Whoever asks for the core gets it, and the destruction comes back: the  *)
(* waits for the lock, for the item, for the requests and for the thread   *)
(* do not wait for each other.                                             *)
CallsReturn ==
  /\ \A t \in Threads : pc[t] = "lock" ~> pc[t] = "held"
  /\ page = "quit" ~> page = "gone"
=============================================================================
