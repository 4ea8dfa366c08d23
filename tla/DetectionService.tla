-------------------------- MODULE DetectionService --------------------------
(***************************************************************************)
(* The people-detection service of the player: SafeTaskQueue (a bounded    *)
(* list and one on-demand worker thread), the DetectionTask singleton that *)
(* runs the network in that worker, and the decoders that queue video      *)
(* frames and cancel on destruction.                                       *)
(*                                                                         *)
(* A job is the n-th frame of one client.  A client is a patched mpv       *)
(* decoder (Decoders) or a user of the exported C++ wrapper (ApiUsers).    *)
(* Each client has two threads: the one that decodes (pc) and the one that *)
(* owns and destroys it (own); they are the same thread unless the client  *)
(* is in DecThreads (mpv's --vd-queue-enable).                             *)
(*                                                                         *)
(* The mutex mtx_ is held across steps only by a push that joins the old   *)
(* thread and by a cancel that walks the list; the spin lock of a node     *)
(* only by the worker, while it prepares the picture and while it runs the *)
(* client's callback.  Both are therefore predicates (MtxFree,             *)
(* AccessFree); every shorter critical section is one action.              *)
(***************************************************************************)
EXTENDS Integers, Sequences

CONSTANTS Decoders,    \* clients that are f_decoder_wrapper instances
          ApiUsers,    \* clients of network_tiny::netwrok_async_detection
          DecThreads,  \* decoders that decode on a thread of their own
          Limit,       \* limitSize of SafeTaskQueue
          MaxFrames    \* bound: frames each client offers

Clients == Decoders \cup ApiUsers

ASSUME ClientsAssumption == Decoders \cap ApiUsers = {} /\ DecThreads \subseteq Decoders
ASSUME LimitAssumption == Limit \in Nat \ {0} /\ MaxFrames \in Nat

Jobs == Clients \X (1..MaxFrames)

Results == {"error", "empty", "boxes"}
NetStates == {"unloaded", "loaded", "disabled"}
ClientPcs == {"idle", "clone", "push", "join"}
OwnerPcs == {"alive", "waiting", "cancelling", "cancelled", "gone"}
WorkerPcs == {"none", "fetch", "claim", "prepare", "infer", "deliver", "callback", "relock",
              "exit", "crashed"}

VARIABLES
  queue,     \* queue_: the jobs whose TaskNode is in the list
  worker,    \* th_ and where popAndExecute is; "none" is not joinable
  cur,       \* the node `auto &t` of the worker; meaningful while it runs
  boxes,     \* `dets` of the executor: the network found something
  net,       \* net_ and disabled_
  idSeed,    \* idSeed_
  pc,        \* the decoding thread of a client, inside queueTask
  sent,      \* frames a client has offered
  detectId,  \* p->detect_id, or the id variable of an API user
  own,       \* the thread that owns a client
  cursor,    \* the list position of a cancel
  sid,       \* TaskNode::serviceId
  ret,       \* what queueTask returned for a job
  frame,     \* TaskNode::frame, the cloned picture
  cb,        \* TaskNode::callback is not null
  answer,    \* the calls of the callback, oldest first
  ctxFrees,  \* how often the callback context of a job was freed
  lostBoxes, \* jobs whose detections array was never freed
  main       \* the static destructor of the singleton

nodeVars == <<sid, frame, cb, answer, ctxFrees>>
workerVars == <<worker, cur, boxes, net, lostBoxes>>
clientVars == <<pc, sent, detectId, idSeed, ret>>
ownerVars == <<own, cursor>>
vars == <<queue, workerVars, clientVars, ownerVars, nodeVars, main>>

TypeOK ==
  /\ queue \in Seq(Jobs)
  /\ worker \in WorkerPcs
  /\ worker \notin {"none", "fetch", "exit"} => cur \in Jobs
  /\ boxes \in BOOLEAN
  /\ net \in NetStates
  /\ idSeed \in Nat \ {0}
  /\ pc \in [Clients -> ClientPcs]
  /\ sent \in [Clients -> 0..MaxFrames]
  /\ detectId \in [Clients -> Int]
  /\ own \in [Clients -> OwnerPcs]
  /\ cursor \in [Clients -> Nat \ {0}]
  /\ sid \in [Jobs -> Int]
  /\ ret \in [Jobs -> {"none", "queued", "refused"}]
  /\ frame \in [Jobs -> {"none", "held", "freed"}]
  /\ cb \in [Jobs -> BOOLEAN]
  /\ answer \in [Jobs -> Seq(Results)]
  /\ ctxFrees \in [Jobs -> Nat]
  /\ lostBoxes \in SUBSET Jobs
  /\ main \in {"running", "cleared", "joined"}

Init ==
  /\ queue = <<>>
  /\ worker = "none" /\ cur = <<>> /\ boxes = FALSE /\ net = "unloaded"
  /\ idSeed = 1
  /\ pc = [c \in Clients |-> "idle"]
  /\ sent = [c \in Clients |-> 0]
  /\ detectId = [c \in Clients |-> IF c \in Decoders THEN 0 ELSE -1]
  /\ own = [c \in Clients |-> "alive"]
  /\ cursor = [c \in Clients |-> 1]
  /\ sid = [j \in Jobs |-> 0]
  /\ ret = [j \in Jobs |-> "none"]
  /\ frame = [j \in Jobs |-> "none"]
  /\ cb = [j \in Jobs |-> FALSE]
  /\ answer = [j \in Jobs |-> <<>>]
  /\ ctxFrees = [j \in Jobs |-> 0]
  /\ lostBoxes = {}
  /\ main = "running"

-----------------------------------------------------------------------------
(* The two locks.                                                          *)

MtxFree == \A c \in Clients : pc[c] # "join" /\ own[c] # "cancelling"
AccessFree(j) == ~(worker \in {"prepare", "callback"} /\ cur = j)

InQueue(j) == \E i \in 1..Len(queue) : queue[i] = j

(* Operators named after what they do wrong, here and below, are variants  *)
(* of the operator that follows them; no specification uses them.          *)
HasRoomForOneMore == Len(queue) <= Limit
HasRoom == Len(queue) < Limit

CallKeepsCallback(j, r) ==
  /\ answer' = [answer EXCEPT ![j] = Append(@, r)]
  /\ ctxFrees' = [ctxFrees EXCEPT ![j] = @ + 1]
  /\ UNCHANGED cb

(* on_detections and on_detections_wrapper: the context is freed whatever  *)
(* the count is.                                                           *)
Call(j, r) ==
  /\ answer' = [answer EXCEPT ![j] = Append(@, r)]
  /\ ctxFrees' = [ctxFrees EXCEPT ![j] = @ + 1]
  /\ cb' = [cb EXCEPT ![j] = FALSE]

-----------------------------------------------------------------------------
(* The client's decoding thread: process_decoded_frame and queueTask.      *)

CurrentJob(c) == <<c, sent[c]>>

MayDecodeUntilGone(c) == own[c] # "gone"
MayDecode(c) == own[c] = "alive" \/ (c \in DecThreads /\ own[c] # "gone")

RefuseForgetsContext(c, j) ==
  /\ ret' = [ret EXCEPT ![j] = "refused"]
  /\ pc' = [pc EXCEPT ![c] = "idle"]
  /\ UNCHANGED ctxFrees

(* queueTask fails: a decoder frees the context, the C++ wrapper keeps it. *)
Refuse(c, j) ==
  /\ ret' = [ret EXCEPT ![j] = "refused"]
  /\ ctxFrees' = [ctxFrees EXCEPT ![j] = IF c \in Decoders THEN @ + 1 ELSE @]
  /\ pc' = [pc EXCEPT ![c] = "idle"]

PushCheck(c) ==
  /\ pc[c] = "idle" /\ MayDecode(c) /\ sent[c] < MaxFrames
  /\ MtxFree
  /\ sent' = [sent EXCEPT ![c] = @ + 1]
  /\ \/ /\ HasRoom
        /\ pc' = [pc EXCEPT ![c] = "clone"]
        /\ UNCHANGED <<ret, ctxFrees>>
     \/ /\ ~HasRoom
        /\ Refuse(c, <<c, sent[c] + 1>>)
  /\ UNCHANGED <<queue, workerVars, detectId, idSeed, ownerVars, sid, frame, cb, answer, main>>

(* disabled_, the identifier, av_frame_clone.                              *)
CloneFrame(c) ==
  LET j == CurrentJob(c)
      fresh == detectId[c] < 0
  IN /\ pc[c] = "clone"
     /\ \/ /\ net = "disabled"
           /\ Refuse(c, j)
           /\ UNCHANGED <<idSeed, sid, frame>>
        \/ /\ net # "disabled"
           /\ idSeed' = IF fresh THEN idSeed + 1 ELSE idSeed
           /\ sid' = [sid EXCEPT ![j] = IF fresh THEN idSeed ELSE detectId[c]]
           /\ \/ /\ frame' = [frame EXCEPT ![j] = "held"]
                 /\ pc' = [pc EXCEPT ![c] = "push"]
                 /\ UNCHANGED <<ret, ctxFrees>>
              \/ Refuse(c, j) /\ UNCHANGED frame
     /\ UNCHANGED <<queue, workerVars, sent, detectId, ownerVars, cb, answer, main>>

(* The successful end of queueTask: *pserviceId is set if it was allocated. *)
Accept(c, j) ==
  /\ ret' = [ret EXCEPT ![j] = "queued"]
  /\ detectId' = [detectId EXCEPT ![c] = IF @ < 0 THEN sid[j] ELSE @]
  /\ pc' = [pc EXCEPT ![c] = "idle"]

(* push: the node enters the list; the first one starts a worker, once the *)
(* old thread, if there is one, is joined.                                 *)
PushFull(c) ==
  LET j == CurrentJob(c)
  IN /\ pc[c] = "push" /\ MtxFree
     /\ ~HasRoom
     /\ frame' = [frame EXCEPT ![j] = "freed"]
     /\ Refuse(c, j)
     /\ UNCHANGED <<queue, workerVars, sent, detectId, idSeed, ownerVars, sid, cb, answer, main>>

Push(c) ==
  LET j == CurrentJob(c)
  IN /\ pc[c] = "push" /\ MtxFree
     /\ HasRoom
     /\ queue' = Append(queue, j)
     /\ cb' = [cb EXCEPT ![j] = TRUE]
     /\ \/ queue # <<>> /\ Accept(c, j) /\ UNCHANGED worker
        \/ queue = <<>> /\ worker = "none" /\ Accept(c, j) /\ worker' = "fetch"
        \/ /\ queue = <<>> /\ worker # "none"
           /\ pc' = [pc EXCEPT ![c] = "join"]
           /\ UNCHANGED <<worker, ret, detectId>>
     /\ UNCHANGED <<cur, boxes, net, lostBoxes, sent, idSeed, ownerVars>>
     /\ UNCHANGED <<sid, frame, answer, ctxFrees, main>>

PushJoin(c) ==
  /\ pc[c] = "join" /\ worker = "exit"
  /\ worker' = "fetch"
  /\ Accept(c, CurrentJob(c))
  /\ UNCHANGED <<queue, cur, boxes, net, lostBoxes, sent, idSeed, ownerVars, nodeVars, main>>

-----------------------------------------------------------------------------
(* The worker thread: popAndExecute around the executor of DetectionTask.  *)

FetchPops ==
  /\ worker = "fetch" /\ MtxFree /\ queue # <<>>
  /\ worker' = "claim" /\ cur' = Head(queue) /\ queue' = Tail(queue)
  /\ UNCHANGED <<boxes, net, lostBoxes, clientVars, ownerVars, nodeVars, main>>

FetchNewest ==
  /\ worker = "fetch" /\ MtxFree
  /\ \/ queue = <<>> /\ worker' = "exit" /\ UNCHANGED cur
     \/ queue # <<>> /\ worker' = "claim" /\ cur' = queue[Len(queue)]
  /\ UNCHANGED <<queue, boxes, net, lostBoxes, clientVars, ownerVars, nodeVars, main>>

Fetch ==
  /\ worker = "fetch" /\ MtxFree
  /\ \/ queue = <<>> /\ worker' = "exit" /\ UNCHANGED cur
     \/ queue # <<>> /\ worker' = "claim" /\ cur' = Head(queue)
  /\ UNCHANGED <<queue, boxes, net, lostBoxes, clientVars, ownerVars, nodeVars, main>>

Claim ==
  /\ worker = "claim"
  /\ worker' = IF cb[cur] THEN "prepare" ELSE "relock"
  /\ UNCHANGED <<queue, cur, boxes, net, lostBoxes, clientVars, ownerVars, nodeVars, main>>

FreeFrame(j) == frame' = [frame EXCEPT ![j] = "freed"]

EnsureModelHalfLoaded ==
  \/ net = "unloaded" /\ net' \in {"loaded", "no buffer"}
  \/ net # "unloaded" /\ UNCHANGED net

(* ensureModelLoaded: the outcome of a first load is the file's and the    *)
(* allocator's.                                                            *)
EnsureModelLoaded ==
  \/ net = "unloaded" /\ net' \in {"loaded", "disabled"}
  \/ net # "unloaded" /\ UNCHANGED net

(* Under t.access: load, scale into the shared RGB frame, free the clone.  *)
Prepare ==
  /\ worker = "prepare"
  /\ EnsureModelLoaded
  /\ FreeFrame(cur)
  /\ \/ net' = "loaded" /\ worker' = "infer" /\ UNCHANGED <<cb, answer, ctxFrees>>
     \/ worker' = "relock" /\ Call(cur, "error")
  /\ UNCHANGED <<queue, cur, boxes, lostBoxes, clientVars, ownerVars, sid, main>>

Infer ==
  /\ worker = "infer"
  /\ worker' = "deliver"
  /\ boxes' \in BOOLEAN
  /\ UNCHANGED <<queue, cur, net, lostBoxes, clientVars, ownerVars, nodeVars, main>>

(* t.access is taken again; a cancel may have answered meanwhile, and then *)
(* nobody frees the boxes.                                                 *)
Deliver ==
  /\ worker = "deliver"
  /\ \/ cb[cur] /\ worker' = "callback" /\ UNCHANGED lostBoxes
     \/ /\ ~cb[cur] /\ worker' = "relock"
        /\ lostBoxes' = IF boxes THEN lostBoxes \cup {cur} ELSE lostBoxes
  /\ UNCHANGED <<queue, cur, boxes, net, clientVars, ownerVars, nodeVars, main>>

CallbackSpinsForMtx ==
  /\ worker = "callback"
  /\ \/ ~MtxFree /\ UNCHANGED vars
     \/ /\ MtxFree /\ worker' = "relock"
        /\ Call(cur, IF boxes THEN "boxes" ELSE "empty")
        /\ UNCHANGED <<queue, cur, boxes, net, lostBoxes, clientVars, ownerVars, sid, frame, main>>

(* The callback returns, still under t.access.                             *)
Callback ==
  /\ worker = "callback"
  /\ worker' = "relock"
  /\ Call(cur, IF boxes THEN "boxes" ELSE "empty")
  /\ UNCHANGED <<queue, cur, boxes, net, lostBoxes, clientVars, ownerVars, sid, frame, main>>

RelockStopsEarly ==
  /\ worker = "relock" /\ MtxFree
  /\ queue' = IF queue = <<>> THEN <<>> ELSE Tail(queue)
  /\ worker' = IF Len(queue') <= 1 THEN "exit" ELSE "fetch"
  /\ UNCHANGED <<cur, boxes, net, lostBoxes, clientVars, ownerVars, nodeVars, main>>

Relock ==
  /\ worker = "relock" /\ MtxFree
  /\ queue' = IF queue = <<>> THEN <<>> ELSE Tail(queue)
  /\ worker' = IF Len(queue') = 0 THEN "exit" ELSE "fetch"
  /\ UNCHANGED <<cur, boxes, net, lostBoxes, clientVars, ownerVars, nodeVars, main>>

(* Between claim and callback the executor dereferences t.  When clear has  *)
(* destroyed the node that is undefined: the old values are read (the      *)
(* actions above) or the process dies.                                     *)
TouchesNode == worker \in {"claim", "prepare", "deliver", "callback"}

TouchFreedNode ==
  /\ TouchesNode /\ ~InQueue(cur)
  /\ worker' = "crashed"
  /\ UNCHANGED <<queue, cur, boxes, net, lostBoxes, clientVars, ownerVars, nodeVars, main>>

-----------------------------------------------------------------------------
(* The owner: public_f_destroy and netwrok_async_detection_cancel.         *)

(* A client is destroyed; it has to wait for mtx_.                         *)
CancelCall(c) ==
  /\ own[c] = "alive" /\ (c \in DecThreads \/ pc[c] = "idle")
  /\ own' = [own EXCEPT ![c] = "waiting"]
  /\ UNCHANGED <<queue, workerVars, clientVars, cursor, nodeVars, main>>

CancelBegin(c) ==
  /\ own[c] = "waiting"
  /\ MtxFree
  /\ own' = [own EXCEPT ![c] = "cancelling"]
  /\ cursor' = [cursor EXCEPT ![c] = 1]
  /\ UNCHANGED <<queue, workerVars, clientVars, nodeVars, main>>

CancelSkip(c) ==
  /\ own[c] = "cancelling" /\ cursor[c] <= Len(queue)
  /\ sid[queue[cursor[c]]] # detectId[c]
  /\ cursor' = [cursor EXCEPT ![c] = @ + 1]
  /\ UNCHANGED <<queue, workerVars, clientVars, own, nodeVars, main>>

CancelNode(c) ==
  LET j == queue[cursor[c]]
  IN /\ own[c] = "cancelling" /\ cursor[c] <= Len(queue)
     /\ sid[j] = detectId[c]
     /\ AccessFree(j)
     /\ cursor' = [cursor EXCEPT ![c] = @ + 1]
     /\ \/ ~cb[j] /\ UNCHANGED <<frame, cb, answer, ctxFrees>>
        \/ cb[j] /\ FreeFrame(j) /\ Call(j, "error")
     /\ UNCHANGED <<queue, workerVars, clientVars, own, sid, main>>

CancelEnd(c) ==
  /\ own[c] = "cancelling" /\ cursor[c] > Len(queue)
  /\ own' = [own EXCEPT ![c] = "cancelled"]
  /\ UNCHANGED <<queue, workerVars, clientVars, cursor, nodeVars, main>>

(* thread_lock waits for the decoding thread, pthread_join ends it and the *)
(* filter's memory is freed.                                               *)
Destroyed(c) ==
  /\ own[c] = "cancelled" /\ pc[c] = "idle"
  /\ own' = [own EXCEPT ![c] = "gone"]
  /\ UNCHANGED <<queue, workerVars, clientVars, cursor, nodeVars, main>>

-----------------------------------------------------------------------------
(* Process exit: ~DetectionTask after every client is gone.                *)

ExitClear ==
  /\ main = "running" /\ \A c \in Clients : own[c] = "gone"
  /\ MtxFree
  /\ queue' = <<>>
  /\ main' = "cleared"
  /\ UNCHANGED <<workerVars, clientVars, ownerVars, nodeVars>>

ExitJoin ==
  /\ main = "cleared" /\ worker \in {"none", "exit"}
  /\ worker' = "none"
  /\ main' = "joined"
  /\ UNCHANGED <<queue, cur, boxes, net, lostBoxes, clientVars, ownerVars, nodeVars>>

(* Where the process may stop for good.                                    *)
Terminated == (main = "joined" \/ worker = "crashed") /\ UNCHANGED vars

-----------------------------------------------------------------------------
WorkerStep == Fetch \/ Claim \/ Prepare \/ Infer \/ Deliver \/ Callback \/ Relock \/ TouchFreedNode
SubmitStep(c) == PushCheck(c) \/ CloneFrame(c) \/ PushFull(c) \/ Push(c) \/ PushJoin(c)
CancelStep(c) == CancelBegin(c) \/ CancelSkip(c) \/ CancelNode(c) \/ CancelEnd(c) \/ Destroyed(c)

Next ==
  \/ WorkerStep
  \/ \E c \in Clients : SubmitStep(c) \/ CancelCall(c) \/ CancelStep(c)
  \/ ExitClear \/ ExitJoin
  \/ Terminated

Spec == Init /\ [][Next]_vars

(* A running thread is scheduled, and one that waits for mtx_ gets it when *)
(* it stays free.  Whether a frame is offered or a client is destroyed is  *)
(* the user's choice, so neither PushCheck nor CancelCall is fair.         *)
Fairness ==
  /\ WF_vars(WorkerStep)
  /\ \A c \in Clients : /\ WF_vars(CloneFrame(c) \/ PushFull(c) \/ Push(c) \/ PushJoin(c))
                        /\ WF_vars(CancelStep(c))
  /\ WF_vars(ExitClear) /\ WF_vars(ExitJoin)

FairSpec == Spec /\ Fairness

-----------------------------------------------------------------------------
(* Properties.                                                             *)

Settled(j) == ret[j] = "refused" \/ answer[j] # <<>>

(* A frame that queueTask took is called back exactly once, by the worker  *)
(* or by a cancel, before its node leaves the list; a refused one never.   *)
(* Only the clear at process exit may drop a frame, and only one that a    *)
(* decoding thread queued after its owner's cancel.                        *)
AnsweredExactlyOnce ==
  \A j \in Jobs : /\ Len(answer[j]) <= 1
                  /\ ret[j] = "refused" => answer[j] = <<>>
                  /\ ret[j] = "queued" /\ ~InQueue(j) =>
                       Len(answer[j]) = 1 \/ (main # "running" /\ j[1] \in DecThreads)

(* Once netwrok_async_detection_cancel has returned to a client that       *)
(* decodes on the same thread, no callback with a pointer to it is left.   *)
NoCallbackAfterCancel ==
  \A j \in Jobs : j[1] \notin DecThreads /\ own[j[1]] \in {"cancelled", "gone"} => ~cb[j]

(* No lost wakeup: whenever mtx_ is free and the list is not empty, a      *)
(* worker is on its way to the nodes, although only the first push after   *)
(* an empty list starts one and a worker stops when it pops the last node. *)
WorkerCoversQueue ==
  queue # <<>> /\ MtxFree => worker \notin {"none", "exit", "crashed"}

(* push joins the old thread while it holds mtx_, which a worker needs to  *)
(* finish: it only ever joins one that needs mtx_ no more.                 *)
JoinCannotDeadlock == \A c \in Clients : pc[c] = "join" => worker = "exit"

(* The cloned picture: the network never scales a freed one, although      *)
(* cancel frees it from another thread, and no settled job still holds one.*)
FramesBalanced ==
  /\ worker = "prepare" => frame[cur] = "held"
  /\ \A j \in Jobs : Settled(j) => frame[j] # "held"

(* The context a decoder allocates per frame is freed by exactly one of    *)
(* the callback and the failed call, and not while an answer is owed.      *)
ContextFreedOnce ==
  \A j \in Jobs : j[1] \in Decoders => ctxFrees[j] = (IF Settled(j) THEN 1 ELSE 0)

(* Detections reach a client in the order of its frames: when one is fed,  *)
(* every earlier frame has been refused or answered.                       *)
FedInOrder ==
  \A c \in Clients : \A n \in 1..MaxFrames : \A m \in 1..(n - 1) :
    answer[<<c, n>>] \in {<<"empty">>, <<"boxes">>} => Settled(<<c, m>>)

(* The detections array is leaked only for a job that a cancel answered    *)
(* while the network ran: there the executor returns without freeing it.   *)
BoxesLostOnlyByCancel == \A j \in lostBoxes : answer[j] = <<"error">>

(* Picture and context of every job are freed, each once, on every path of *)
(* queueTask, the worker and a cancel, and never used after.  Not so the   *)
(* boxes: they leak on one path, and on that one only.                     *)
FreedOnceButForBoxes == FramesBalanced /\ ContextFreedOnce /\ BoxesLostOnlyByCancel

(* Every frame taken is answered, whatever the clients do.                 *)
EveryJobAnswered == \A j \in Jobs : cb[j] ~> answer[j] # <<>>

(* A destroy that calls cancel comes back, although it waits for mtx_,     *)
(* which a push holds while it joins and another cancel while it walks,    *)
(* and then for every node that carries its id, which the worker holds     *)
(* while it prepares it and while it runs a callback, even that of another *)
(* decoder.  So does the static destructor at process exit, unless the     *)
(* worker died on a node that clear had destroyed.                         *)
ShutdownReturns ==
  /\ \A c \in Clients : own[c] = "waiting" ~> own[c] = "gone"
  /\ main = "cleared" ~> (main = "joined" \/ worker = "crashed")

(* The abstract service.                                                   *)
PhaseOf(j) ==
  CASE answer[j] # <<>> -> "answered"
    [] answer[j] = <<>> /\ ret[j] = "refused" -> "refused"
    [] answer[j] = <<>> /\ ret[j] # "refused" /\ cb[j] -> "pending"
    [] answer[j] = <<>> /\ ret[j] # "refused" /\ ~cb[j] /\ j[2] <= sent[j[1]] -> "asked"
    [] OTHER -> "unsent"

Contract == INSTANCE DetectionContract WITH
  phase <- [j \in Jobs |-> PhaseOf(j)],
  left <- {c \in Clients : own[c] = "gone"}

(* Threads, locks and the list implement the promise of DetectionContract. *)
ImplementsContract == Contract!Spec

(* detection-service.cc says of allocateId "allocate a global id to        *)
(* identify user": frames of two clients never carry the same id.          *)
IdIdentifiesUser ==
  \A j, k \in Jobs : ret[j] = "queued" /\ ret[k] = "queued" /\ j[1] # k[1] => sid[j] # sid[k]

(* safe-task-queue.hpp says of the pop after the executor "maybe cleared   *)
(* by SafeTaskQueue::clear": the executor copes with that, so the node it  *)
(* is about to dereference is still in the list.                           *)
NodeInUseExists == TouchesNode => InQueue(cur)
=============================================================================
