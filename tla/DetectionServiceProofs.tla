----------------------- MODULE DetectionServiceProofs -----------------------
(***************************************************************************)
(* Proofs about DetectionService: IInv of DetectionInvariant is inductive, *)
(* and the safety properties follow from it for every value of the         *)
(* constants.                                                              *)
(***************************************************************************)
EXTENDS DetectionInvariant, TLAPS, SequenceTheorems

(* The state the process starts in has the right types: no thread, an      *)
(* empty list, no frame offered yet.                                       *)
LEMMA TypeInit == Init => TypeOK
  <1> SUFFICES ASSUME Init PROVE TypeOK
    OBVIOUS
  <1>1. queue \in Seq(Jobs) /\ \A j \in Jobs : answer[j] \in Seq(Results)
    BY DEF Init
  <1>2. /\ sent \in [Clients -> 0..MaxFrames] /\ detectId \in [Clients -> Int]
        /\ cursor \in [Clients -> Nat \ {0}]
    BY LimitAssumption, SMT DEF Init
  <1>3. answer \in [Jobs -> Seq(Results)] /\ ctxFrees \in [Jobs -> Nat] /\ sid \in [Jobs -> Int]
    BY <1>1, SMT DEF Init
  <1>4. frame \in [Jobs -> {"none", "held", "freed"}] /\ cb \in [Jobs -> BOOLEAN]
        /\ ret \in [Jobs -> {"none", "queued", "refused"}] /\ lostBoxes \in SUBSET Jobs
    BY DEF Init
  <1>5. pc \in [Clients -> ClientPcs] /\ own \in [Clients -> OwnerPcs]
    BY DEF Init, ClientPcs, OwnerPcs
  <1>6. worker \in WorkerPcs /\ net \in NetStates /\ boxes \in BOOLEAN
        /\ (worker \notin {"none", "fetch", "exit"} => cur \in Jobs)
        /\ main \in {"running", "cleared", "joined"}
    BY DEF Init, WorkerPcs, NetStates
  <1>7. idSeed \in Nat \ {0}
    BY SMT DEF Init
  <1> QED
    BY <1>1, <1>2, <1>3, <1>4, <1>5, <1>6, <1>7 DEF TypeOK

(* The job a client submits is one of its frames, because it is inside     *)
(* queueTask only after it has taken a frame.                              *)
LEMMA CurrentJobIsJob ==
  ASSUME SubmitInv, TypeOK, NEW c \in Clients, pc[c] # "idle"
  PROVE  CurrentJob(c) \in Jobs
  BY SMT DEF SubmitInv, CurrentJob, Jobs

(* The callback and the refusal keep the types of what they change.        *)
LEMMA CallTypes ==
  ASSUME TypeOK, NEW j \in Jobs, NEW r \in Results, Call(j, r)
  PROVE  /\ answer' \in [Jobs -> Seq(Results)]
         /\ ctxFrees' \in [Jobs -> Nat]
         /\ cb' \in [Jobs -> BOOLEAN]
  <1>1. Append(answer[j], r) \in Seq(Results)
    BY DEF TypeOK
  <1>2. ctxFrees[j] + 1 \in Nat
    BY DEF TypeOK
  <1> QED BY <1>1, <1>2 DEF Call, TypeOK

(* A refusal changes the result, the context and the client's place only.  *)
LEMMA RefuseTypes ==
  ASSUME TypeOK, NEW c \in Clients, NEW j \in Jobs, Refuse(c, j)
  PROVE  /\ ret' \in [Jobs -> {"none", "queued", "refused"}]
         /\ ctxFrees' \in [Jobs -> Nat]
         /\ pc' \in [Clients -> ClientPcs]
  <1>1. ctxFrees[j] \in Nat /\ ctxFrees[j] + 1 \in Nat
    BY DEF TypeOK
  <1>2. (IF c \in Decoders THEN ctxFrees[j] + 1 ELSE ctxFrees[j]) \in Nat
    BY <1>1
  <1>3. ctxFrees' \in [Jobs -> Nat]
    BY <1>2 DEF Refuse, TypeOK
  <1> QED BY <1>3 DEF Refuse, TypeOK, ClientPcs

(* So does an acceptance, which may also hand the client its id.           *)
LEMMA AcceptTypes ==
  ASSUME TypeOK, NEW c \in Clients, NEW j \in Jobs, Accept(c, j)
  PROVE  /\ ret' \in [Jobs -> {"none", "queued", "refused"}]
         /\ detectId' \in [Clients -> Int]
         /\ pc' \in [Clients -> ClientPcs]
  BY SMT DEF Accept, TypeOK, ClientPcs

(* Every step keeps the types; SubmitInv is needed where a client's last   *)
(* frame becomes the node of the list.                                     *)
LEMMA TypeStep ==
  ASSUME TypeOK, SubmitInv, Next
  PROVE  TypeOK'
  <1> USE LimitAssumption DEF TypeOK
  <1>1. CASE Fetch
    BY <1>1, SMT DEF Fetch, WorkerPcs, clientVars, ownerVars, nodeVars
  <1>2. CASE Claim
    BY <1>2, SMT DEF Claim, WorkerPcs, clientVars, ownerVars, nodeVars
  <1>3. CASE Prepare
    <2>1. frame' \in [Jobs -> {"none", "held", "freed"}]
      BY <1>3 DEF Prepare, FreeFrame
    <2>2. answer' \in [Jobs -> Seq(Results)] /\ ctxFrees' \in [Jobs -> Nat] /\ cb' \in [Jobs -> BOOLEAN]
      BY <1>3, CallTypes DEF Prepare, Results
    <2>3. net' \in NetStates /\ worker' \in {"infer", "relock"}
      BY <1>3 DEF Prepare, EnsureModelLoaded, NetStates
    <2> QED BY <1>3, <2>1, <2>2, <2>3 DEF Prepare, WorkerPcs, clientVars, ownerVars
  <1>4. CASE Infer
    BY <1>4, SMT DEF Infer, WorkerPcs, clientVars, ownerVars, nodeVars
  <1>5. CASE Deliver
    <2>1. lostBoxes' \in SUBSET Jobs /\ worker' \in {"callback", "relock"}
      BY <1>5 DEF Deliver
    <2> QED BY <1>5, <2>1 DEF Deliver, WorkerPcs, clientVars, ownerVars, nodeVars
  <1>21. CASE Callback
    <2>1. answer' \in [Jobs -> Seq(Results)] /\ ctxFrees' \in [Jobs -> Nat] /\ cb' \in [Jobs -> BOOLEAN]
      BY <1>21, CallTypes DEF Callback, Results
    <2> QED BY <1>21, <2>1 DEF Callback, WorkerPcs, clientVars, ownerVars
  <1>6. CASE Relock
    BY <1>6, SMT DEF Relock, WorkerPcs, clientVars, ownerVars, nodeVars
  <1>7. CASE TouchFreedNode
    BY <1>7, SMT DEF TouchFreedNode, TouchesNode, WorkerPcs, clientVars, ownerVars, nodeVars
  <1>8. ASSUME NEW c \in Clients, PushCheck(c) PROVE TypeOK'
    <2>1. sent' \in [Clients -> 0..MaxFrames] /\ <<c, sent[c] + 1>> \in Jobs
      BY <1>8, SMT DEF PushCheck, Jobs
    <2>2. /\ ret' \in [Jobs -> {"none", "queued", "refused"}]
          /\ ctxFrees' \in [Jobs -> Nat]
          /\ pc' \in [Clients -> ClientPcs]
      BY <1>8, <2>1, RefuseTypes DEF PushCheck, ClientPcs
    <2> QED BY <1>8, <2>1, <2>2 DEF PushCheck, workerVars, ownerVars
  <1>9. ASSUME NEW c \in Clients, CloneFrame(c) PROVE TypeOK'
    <2>1. CurrentJob(c) \in Jobs
      BY <1>9, CurrentJobIsJob DEF CloneFrame
    <2>2. /\ ret' \in [Jobs -> {"none", "queued", "refused"}]
          /\ ctxFrees' \in [Jobs -> Nat]
          /\ pc' \in [Clients -> ClientPcs]
      BY <1>9, <2>1, RefuseTypes DEF CloneFrame, ClientPcs
    <2>3. idSeed' \in Nat \ {0}
      BY <1>9, SMT DEF CloneFrame
    <2>4. sid' \in [Jobs -> Int]
      <3>1. (IF detectId[c] < 0 THEN idSeed ELSE detectId[c]) \in Int
        BY SMT
      <3> QED BY <1>9, <3>1 DEF CloneFrame
    <2>5. frame' \in [Jobs -> {"none", "held", "freed"}]
      BY <1>9 DEF CloneFrame
    <2> QED BY <1>9, <2>2, <2>3, <2>4, <2>5 DEF CloneFrame, workerVars, ownerVars
  <1>10. ASSUME NEW c \in Clients, PushFull(c) PROVE TypeOK'
    <2>1. CurrentJob(c) \in Jobs
      BY <1>10, CurrentJobIsJob DEF PushFull
    <2>2. /\ ret' \in [Jobs -> {"none", "queued", "refused"}]
          /\ ctxFrees' \in [Jobs -> Nat]
          /\ pc' \in [Clients -> ClientPcs]
      BY <1>10, <2>1, RefuseTypes DEF PushFull
    <2>3. frame' \in [Jobs -> {"none", "held", "freed"}]
      BY <1>10 DEF PushFull
    <2> QED BY <1>10, <2>2, <2>3 DEF PushFull, workerVars, ownerVars
  <1>11. ASSUME NEW c \in Clients, Push(c) PROVE TypeOK'
    <2>1. CurrentJob(c) \in Jobs
      BY <1>11, CurrentJobIsJob DEF Push
    <2>2. /\ ret' \in [Jobs -> {"none", "queued", "refused"}]
          /\ detectId' \in [Clients -> Int]
          /\ pc' \in [Clients -> ClientPcs]
      BY <1>11, <2>1, AcceptTypes DEF Push, ClientPcs
    <2>3. queue' \in Seq(Jobs) /\ cb' \in [Jobs -> BOOLEAN]
      BY <1>11, <2>1 DEF Push
    <2>4. worker' \in WorkerPcs /\ worker' \in {worker, "fetch"}
      BY <1>11 DEF Push, WorkerPcs
    <2> QED BY <1>11, <2>2, <2>3, <2>4 DEF Push, ownerVars
  <1>12. ASSUME NEW c \in Clients, PushJoin(c) PROVE TypeOK'
    <2>1. CurrentJob(c) \in Jobs
      BY <1>12, CurrentJobIsJob DEF PushJoin
    <2>2. /\ ret' \in [Jobs -> {"none", "queued", "refused"}]
          /\ detectId' \in [Clients -> Int]
          /\ pc' \in [Clients -> ClientPcs]
      BY <1>12, <2>1, AcceptTypes DEF PushJoin
    <2> QED BY <1>12, <2>2 DEF PushJoin, WorkerPcs, ownerVars, nodeVars
  <1>13. ASSUME NEW c \in Clients, CancelBegin(c) PROVE TypeOK'
    BY <1>13, SMT DEF CancelBegin, OwnerPcs, workerVars, clientVars, nodeVars
  <1>22. ASSUME NEW c \in Clients, CancelCall(c) PROVE TypeOK'
    BY <1>22, SMT DEF CancelCall, OwnerPcs, workerVars, clientVars, nodeVars
  <1>14. ASSUME NEW c \in Clients, CancelSkip(c) PROVE TypeOK'
    <2>1. cursor' \in [Clients -> Nat \ {0}]
      BY <1>14, SMT DEF CancelSkip
    <2> QED BY <1>14, <2>1 DEF CancelSkip, workerVars, clientVars, nodeVars
  <1>15. ASSUME NEW c \in Clients, CancelNode(c) PROVE TypeOK'
    <2> DEFINE j == queue[cursor[c]]
    <2>1. cursor' \in [Clients -> Nat \ {0}]
      BY <1>15, SMT DEF CancelNode
    <2>2. j \in Jobs
      BY <1>15, SMT DEF CancelNode
    <2>3. answer' \in [Jobs -> Seq(Results)] /\ ctxFrees' \in [Jobs -> Nat] /\ cb' \in [Jobs -> BOOLEAN]
      BY <1>15, <2>2, CallTypes DEF CancelNode, Results
    <2>4. frame' \in [Jobs -> {"none", "held", "freed"}]
      BY <1>15 DEF CancelNode, FreeFrame
    <2> QED BY <1>15, <2>1, <2>3, <2>4 DEF CancelNode, workerVars, clientVars
  <1>16. ASSUME NEW c \in Clients, CancelEnd(c) PROVE TypeOK'
    BY <1>16, SMT DEF CancelEnd, OwnerPcs, workerVars, clientVars, nodeVars
  <1>17. ASSUME NEW c \in Clients, Destroyed(c) PROVE TypeOK'
    BY <1>17, SMT DEF Destroyed, OwnerPcs, workerVars, clientVars, nodeVars
  <1>18. CASE ExitClear
    BY <1>18, SMT DEF ExitClear, workerVars, clientVars, ownerVars, nodeVars
  <1>19. CASE ExitJoin
    BY <1>19, SMT DEF ExitJoin, WorkerPcs, clientVars, ownerVars, nodeVars
  <1>20. CASE Terminated
    BY <1>20 DEF Terminated, vars, workerVars, clientVars, ownerVars, nodeVars
  <1> QED
    BY <1>1, <1>2, <1>3, <1>4, <1>5, <1>6, <1>7, <1>8, <1>9, <1>10, <1>11, <1>12, <1>13,
       <1>14, <1>15, <1>16, <1>17, <1>18, <1>19, <1>20, <1>21,
       <1>22
       DEF Next, WorkerStep, SubmitStep, CancelStep
-----------------------------------------------------------------------------
(* The parts of IInv, one lemma each.                                      *)

(* mtx_ keeps one holder: a push that joins and a cancel both start only   *)
(* when it is free, and nothing else enters these states.                  *)
LEMMA LockStep ==
  ASSUME IInv, Next
  PROVE  LockInv'
  <1> USE DEF IInv, LockInv, TypeOK, ClientPcs, OwnerPcs
  <1>1. CASE UNCHANGED <<pc, own>>
    BY <1>1
  <1>2. ASSUME NEW c \in Clients, PushCheck(c) \/ CloneFrame(c) \/ PushFull(c) \/ PushJoin(c)
        PROVE  LockInv'
    <2>1. own' = own
      BY <1>2 DEF PushCheck, CloneFrame, PushFull, PushJoin, ownerVars
    <2>2. pc' \in {[pc EXCEPT ![c] = "idle"], [pc EXCEPT ![c] = "clone"], [pc EXCEPT ![c] = "push"]}
      BY <1>2 DEF PushCheck, CloneFrame, PushFull, PushJoin, Refuse, Accept
    <2>3. \A d \in Clients : pc'[d] = "join" => pc[d] = "join"
      BY <2>2
    <2> QED BY <2>1, <2>3
  <1>3. ASSUME NEW c \in Clients, Push(c) PROVE LockInv'
    BY <1>3 DEF Push, MtxFree, Accept, ownerVars
  <1>4. ASSUME NEW c \in Clients, CancelBegin(c) PROVE LockInv'
    BY <1>4 DEF CancelBegin, MtxFree, clientVars
  <1>5. ASSUME NEW c \in Clients, CancelCall(c) \/ CancelEnd(c) \/ Destroyed(c) PROVE LockInv'
    <2>1. pc' = pc
      BY <1>5 DEF CancelCall, CancelEnd, Destroyed, clientVars
    <2>2. own' \in {[own EXCEPT ![c] = "waiting"], [own EXCEPT ![c] = "cancelled"],
                    [own EXCEPT ![c] = "gone"]}
      BY <1>5 DEF CancelCall, CancelEnd, Destroyed
    <2>3. \A d \in Clients : own'[d] = "cancelling" => own[d] = "cancelling"
      BY <2>2
    <2> QED BY <2>1, <2>3
  <1>6. CASE WorkerStep \/ ExitClear \/ ExitJoin \/ Terminated
    BY <1>6, <1>1 DEF WorkerStep, Fetch, Claim, Prepare, Infer, Deliver, Callback, Relock,
       TouchFreedNode, ExitClear, ExitJoin, Terminated, vars, clientVars, ownerVars
  <1>7. ASSUME NEW c \in Clients, CancelSkip(c) \/ CancelNode(c) PROVE LockInv'
    BY <1>7, <1>1 DEF CancelSkip, CancelNode, clientVars
  <1> QED
    BY <1>2, <1>3, <1>4, <1>5, <1>6, <1>7 DEF Next, SubmitStep, CancelStep

(* A client's memory lives while it is inside queueTask: a client that     *)
(* decodes on its own thread of control cannot be destroyed there, and     *)
(* Destroyed waits for a decoding thread.                                  *)
LEMMA SubmitStepInv ==
  ASSUME IInv, Next
  PROVE  SubmitInv'
  <1> USE DEF IInv, SubmitInv, TypeOK
  <1>1. CASE UNCHANGED <<pc, own, sent, main>>
    BY <1>1
  <1>2. ASSUME NEW c \in Clients, PushCheck(c) PROVE SubmitInv'
    <2>1. own[c] # "gone" /\ (c \notin DecThreads => own[c] = "alive")
      BY <1>2 DEF PushCheck, MayDecode
    <2>2. sent'[c] \in 1..MaxFrames /\ \A d \in Clients \ {c} : sent'[d] = sent[d] /\ pc'[d] = pc[d]
      BY <1>2, LimitAssumption, SMT DEF PushCheck, Refuse
    <2> QED BY <1>2, <2>1, <2>2 DEF PushCheck, ownerVars
  <1>3. ASSUME NEW c \in Clients, CloneFrame(c) \/ PushFull(c) \/ PushJoin(c) \/ Push(c)
        PROVE  SubmitInv'
    <2>1. pc[c] # "idle" /\ \A d \in Clients \ {c} : pc'[d] = pc[d]
      BY <1>3 DEF CloneFrame, PushFull, PushJoin, Push, Refuse, Accept
    <2>2. UNCHANGED <<own, sent, main>>
      BY <1>3 DEF CloneFrame, PushFull, PushJoin, Push, ownerVars
    <2> QED BY <2>1, <2>2
  <1>4. ASSUME NEW c \in Clients, CancelCall(c) \/ CancelBegin(c) \/ CancelEnd(c) \/ Destroyed(c)
        PROVE  SubmitInv'
    <2>1. UNCHANGED <<pc, sent, main>>
      BY <1>4 DEF CancelCall, CancelBegin, CancelEnd, Destroyed, clientVars
    <2>2. \A d \in Clients \ {c} : own'[d] = own[d]
      BY <1>4 DEF CancelCall, CancelBegin, CancelEnd, Destroyed
    <2>3. own[c] # "gone"
      BY <1>4 DEF CancelCall, CancelBegin, CancelEnd, Destroyed
    <2>4. own'[c] = "gone" => pc[c] = "idle"
      BY <1>4 DEF CancelCall, CancelBegin, CancelEnd, Destroyed
    <2>5. c \notin DecThreads => pc[c] = "idle"
      BY <1>4 DEF CancelCall, CancelBegin, CancelEnd, Destroyed
    <2> QED BY <2>1, <2>2, <2>3, <2>4, <2>5
  <1>5. CASE WorkerStep \/ Terminated
    BY <1>5, <1>1 DEF WorkerStep, Fetch, Claim, Prepare, Infer, Deliver, Callback, Relock,
       TouchFreedNode, Terminated, vars, clientVars, ownerVars
  <1>6. ASSUME NEW c \in Clients, CancelSkip(c) \/ CancelNode(c) PROVE SubmitInv'
    BY <1>6, <1>1 DEF CancelSkip, CancelNode, clientVars
  <1>7. CASE ExitClear \/ ExitJoin
    BY <1>7 DEF ExitClear, ExitJoin, clientVars, ownerVars
  <1> QED
    BY <1>2, <1>3, <1>4, <1>5, <1>6, <1>7 DEF Next, SubmitStep, CancelStep

(* A push appends its node behind the others and leaves the head alone.    *)
LEMMA QueueAppend ==
  ASSUME TypeOK, NEW k \in Jobs, queue' = Append(queue, k)
  PROVE  /\ \A j : InQueue(j)' <=> InQueue(j) \/ j = k
         /\ queue' # <<>>
         /\ queue # <<>> => Head(queue') = Head(queue)
         /\ Len(queue') = Len(queue) + 1
         /\ \A i \in 1..Len(queue) : queue'[i] = queue[i]
  <1>1. Len(queue) \in Nat /\ Len(queue') = Len(queue) + 1
    BY SMT DEF TypeOK
  <1>2. \A i \in 1..Len(queue) : queue'[i] = queue[i]
    BY SMT DEF TypeOK
  <1>3. queue'[Len(queue) + 1] = k
    BY SMT DEF TypeOK
  <1>4. queue' # <<>>
    <2>1. queue' \in Seq(Jobs)
      BY DEF TypeOK
    <2> QED BY <1>1, <2>1, EmptySeq
  <1>5. queue # <<>> => Head(queue') = Head(queue)
    BY <1>2, SMT DEF TypeOK
  <1>6. \A j : InQueue(j)' <=> InQueue(j) \/ j = k
    BY <1>1, <1>2, <1>3, SMT DEF InQueue
  <1> QED BY <1>1, <1>2, <1>4, <1>5, <1>6

(* A pop removes the head and nothing else.                                *)
LEMMA QueueTail ==
  ASSUME TypeOK, queue # <<>>, queue' = Tail(queue)
  PROVE  /\ \A j : InQueue(j) => j = Head(queue) \/ InQueue(j)'
         /\ \A j : InQueue(j)' => InQueue(j)
         /\ Len(queue') = 0 <=> queue' = <<>>
  <1>1. Len(queue) \in Nat \ {0} /\ Len(queue') = Len(queue) - 1
    BY SMT DEF TypeOK
  <1>2. \A i \in 1..(Len(queue) - 1) : queue'[i] = queue[i + 1]
    BY SMT DEF TypeOK
  <1>3. Head(queue) = queue[1]
    BY SMT DEF TypeOK
  <1>4. \A j : InQueue(j) => j = Head(queue) \/ InQueue(j)'
    <2> SUFFICES ASSUME NEW j, InQueue(j), j # Head(queue) PROVE InQueue(j)'
      OBVIOUS
    <2> PICK i \in 1..Len(queue) : queue[i] = j
      BY DEF InQueue
    <2>1. i - 1 \in 1..Len(queue') /\ queue'[i - 1] = j
      BY <1>1, <1>2, <1>3, SMT
    <2> QED BY <2>1 DEF InQueue
  <1>5. \A j : InQueue(j)' => InQueue(j)
    <2> SUFFICES ASSUME NEW j, InQueue(j)' PROVE InQueue(j)
      OBVIOUS
    <2> PICK i \in 1..Len(queue') : queue'[i] = j
      BY DEF InQueue
    <2>1. i + 1 \in 1..Len(queue) /\ queue[i + 1] = j
      BY <1>1, <1>2, SMT
    <2> QED BY <2>1 DEF InQueue
  <1>6. Len(queue') = 0 <=> queue' = <<>>
    <2>1. queue' \in Seq(Jobs)
      BY DEF TypeOK
    <2> QED BY <2>1, EmptySeq
  <1> QED BY <1>4, <1>5, <1>6

(* The head of a list that is not empty is one of its nodes.               *)
LEMMA HeadInQueue ==
  ASSUME TypeOK, queue # <<>>
  PROVE  InQueue(Head(queue)) /\ Head(queue) \in Jobs
  <1>1. Len(queue) \in Nat \ {0} /\ Head(queue) = queue[1]
    BY SMT DEF TypeOK
  <1>2. 1 \in 1..Len(queue)
    BY <1>1, SMT
  <1> QED BY <1>1, <1>2 DEF InQueue, TypeOK

(* The worker keeps executing the head of the list: pushes append behind   *)
(* it, cancels leave the list as it is, and only the worker pops.          *)
LEMMA WorkerStepInv ==
  ASSUME IInv, Next
  PROVE  WorkerInv'
  <1> USE DEF IInv, WorkerInv
  <1>1. CASE Fetch
    BY <1>1 DEF Fetch, clientVars, ownerVars, nodeVars, CurrentJob
  <1>2. CASE Claim
    BY <1>2 DEF Claim, clientVars, ownerVars, nodeVars, CurrentJob
  <1>3. CASE Prepare
    <2>1. worker' \in {"infer", "relock"} /\ (worker' = "relock" => ~cb'[cur])
      BY <1>3 DEF Prepare, Call, TypeOK
    <2> QED BY <1>3, <2>1 DEF Prepare, clientVars, ownerVars
  <1>4. CASE Infer
    BY <1>4 DEF Infer, clientVars, ownerVars, nodeVars
  <1>5. CASE Deliver
    BY <1>5 DEF Deliver, clientVars, ownerVars, nodeVars
  <1>16. CASE Callback
    <2>1. ~cb'[cur]
      BY <1>16 DEF Callback, Call, TypeOK
    <2> QED BY <1>16, <2>1 DEF Callback, clientVars, ownerVars
  <1>6. CASE Relock
    <2>1. \A c \in Clients : pc'[c] # "join"
      BY <1>6 DEF Relock, MtxFree, clientVars
    <2>2. main' = main /\ worker' \in {"exit", "fetch"}
      BY <1>6 DEF Relock
    <2>3. main = "running" => (worker' = "exit" <=> queue' = <<>>)
      BY <1>6, QueueTail DEF Relock
    <2>4. main # "running" => queue' = <<>>
      BY <1>6 DEF Relock
    <2> QED BY <2>1, <2>2, <2>3, <2>4
  <1>7. CASE TouchFreedNode
    <2>1. main # "running"
      BY <1>7, HeadInQueue DEF TouchFreedNode, TouchesNode
    <2> QED BY <1>7, <2>1 DEF TouchFreedNode, TouchesNode, clientVars
  <1>8. ASSUME NEW c \in Clients, PushCheck(c) \/ CloneFrame(c) \/ PushFull(c)
        PROVE  WorkerInv'
    <2>1. UNCHANGED <<queue, worker, cur, cb, main>>
      BY <1>8 DEF PushCheck, CloneFrame, PushFull, workerVars
    <2>2. pc' \in {[pc EXCEPT ![c] = "idle"], [pc EXCEPT ![c] = "clone"], [pc EXCEPT ![c] = "push"]}
      BY <1>8 DEF PushCheck, CloneFrame, PushFull, Refuse
    <2>3. \A d \in Clients : pc[d] = "join" => d # c
      BY <1>8 DEF PushCheck, CloneFrame, PushFull
    <2>4. \A d \in Clients \ {c} : pc'[d] = pc[d] /\ sent'[d] = sent[d]
      <3>1. \A d \in Clients \ {c} : pc'[d] = pc[d]
        BY <2>2 DEF TypeOK
      <3>2. sent' \in {sent, [sent EXCEPT ![c] = @ + 1]}
        BY <1>8 DEF PushCheck, CloneFrame, PushFull
      <3> QED BY <3>1, <3>2 DEF TypeOK
    <2>5. pc'[c] # "join"
      BY <2>2 DEF TypeOK
    <2> QED BY <2>1, <2>3, <2>4, <2>5 DEF CurrentJob
  <1>9. ASSUME NEW c \in Clients, Push(c) PROVE WorkerInv'
    <2> DEFINE k == CurrentJob(c)
    <2>1. k \in Jobs /\ queue' = Append(queue, k) /\ cb' = [cb EXCEPT ![k] = TRUE]
      BY <1>9, CurrentJobIsJob DEF Push
    <2>2. main = "running" /\ main' = main /\ cur' = cur /\ sent' = sent
      BY <1>9 DEF Push, SubmitInv
    <2>3. \A d \in Clients : pc[d] # "join"
      BY <1>9 DEF Push, MtxFree
    <2>4. ~InQueue(k)
      BY <1>9, <2>1, <2>3 DEF JobInv, JobOK, Push, CurrentJob
    <2>5. CASE queue # <<>>
      <3>1. worker \notin {"none", "exit"} /\ worker' = worker
        BY <1>9, <2>2, <2>3, <2>5 DEF Push
      <3>2. worker # "fetch" => cur = Head(queue') /\ cb'[cur] = cb[cur]
        <4>1. worker # "fetch" => cur = Head(queue) /\ cur # k
          BY <2>2, <2>4, <2>5, <3>1, HeadInQueue
        <4>2. Head(queue') = Head(queue)
          BY <2>1, <2>5, QueueAppend
        <4>3. worker # "fetch" => cur \in Jobs
          BY <3>1 DEF TypeOK
        <4> QED BY <2>1, <4>1, <4>2, <4>3 DEF TypeOK
      <3>3. \A d \in Clients : pc'[d] # "join"
        BY <1>9, <2>3, <2>5 DEF Push, Accept, TypeOK
      <3>4. queue' # <<>>
        BY <2>1, QueueAppend
      <3> QED BY <2>2, <3>1, <3>2, <3>3, <3>4
    <2>6. CASE queue = <<>>
      <3>1. worker \in {"none", "exit"}
        BY <2>2, <2>6 DEF TypeOK
      <3>2. queue' = <<k>> /\ queue' # <<>> /\ cb'[k]
        BY <2>1, <2>6, QueueAppend DEF TypeOK
      <3>3. CASE worker = "none"
        <4>1. worker' = "fetch" /\ \A d \in Clients : pc'[d] # "join"
          BY <1>9, <2>3, <2>6, <3>3 DEF Push, Accept, TypeOK
        <4> QED BY <2>2, <3>2, <4>1
      <3>4. CASE worker = "exit"
        <4>1. worker' = "exit" /\ pc' = [pc EXCEPT ![c] = "join"]
          BY <1>9, <2>6, <3>4 DEF Push
        <4>2. \A d \in Clients : pc'[d] = "join" <=> d = c
          BY <2>3, <4>1 DEF TypeOK
        <4>3. CurrentJob(c)' = k
          BY <2>2 DEF CurrentJob
        <4> QED BY <2>2, <3>2, <4>1, <4>2, <4>3
      <3> QED BY <3>1, <3>3, <3>4
    <2> QED BY <2>5, <2>6
  <1>10. ASSUME NEW c \in Clients, PushJoin(c) PROVE WorkerInv'
    <2>1. queue # <<>> /\ worker' = "fetch" /\ UNCHANGED <<queue, main, cb>>
      BY <1>10, SMT DEF PushJoin, nodeVars
    <2>2. \A d \in Clients : pc'[d] # "join"
      BY <1>10 DEF PushJoin, Accept, LockInv, TypeOK
    <2> QED BY <2>1, <2>2
  <1>11. ASSUME NEW c \in Clients,
                CancelCall(c) \/ CancelBegin(c) \/ CancelSkip(c) \/ CancelEnd(c) \/ Destroyed(c)
         PROVE  WorkerInv'
    BY <1>11 DEF CancelCall, CancelBegin, CancelSkip, CancelEnd, Destroyed, workerVars, clientVars,
                 nodeVars, CurrentJob
  <1>12. ASSUME NEW c \in Clients, CancelNode(c) PROVE WorkerInv'
    <2>1. UNCHANGED <<queue, worker, cur, pc, sent, main>> /\ \A d \in Clients : pc[d] # "join"
      BY <1>12 DEF CancelNode, workerVars, clientVars, LockInv
    <2>2. worker = "relock" /\ ~cb[cur] => ~cb'[cur]
      BY <1>12 DEF CancelNode, Call, TypeOK
    <2>3. worker \in {"prepare", "callback"} => cb'[cur]
      BY <1>12 DEF CancelNode, AccessFree, Call, TypeOK
    <2> QED BY <2>1, <2>2, <2>3
  <1>13. CASE ExitClear
    BY <1>13 DEF ExitClear, MtxFree, workerVars, clientVars, nodeVars
  <1>14. CASE ExitJoin
    BY <1>14 DEF ExitJoin, clientVars, nodeVars, SubmitInv
  <1>15. CASE Terminated
    BY <1>15 DEF Terminated, vars, workerVars, clientVars, ownerVars, nodeVars, CurrentJob
  <1> QED
    BY <1>1, <1>2, <1>3, <1>4, <1>5, <1>6, <1>7, <1>8, <1>9, <1>10, <1>11, <1>12, <1>13, <1>14, <1>15,
       <1>16
       DEF Next, WorkerStep, SubmitStep, CancelStep

(* What a call of the callback does to the jobs: no push is joining then,  *)
(* so the answered job is one that queueTask has accepted.                 *)
LEMMA CallJob ==
  ASSUME IInv, NEW k \in Jobs, NEW r \in Results, cb[k], Call(k, r),
         \A c \in Clients : pc[c] # "join",
         UNCHANGED <<queue, pc, sent, ret, main>>
  PROVE  JobInv'
  <1> SUFFICES ASSUME NEW j \in Jobs PROVE JobOK(j)'
    BY DEF JobInv
  <1>1. JobOK(j) /\ JobOK(k) /\ j[1] \in Clients /\ k[1] \in Clients
    BY DEF IInv, JobInv, Jobs
  <1>2. CASE j = k
    <2>1. answer'[j] = <<r>> /\ Len(answer'[j]) = 1 /\ answer'[j] # <<>> /\ ~cb'[j]
      BY <1>1, <1>2 DEF JobOK, Call, IInv, TypeOK
    <2>2. ret[j] = "queued" /\ j[2] <= sent[j[1]] /\ ~(j = CurrentJob(j[1]) /\ pc[j[1]] # "idle")
      BY <1>1, <1>2, SMT DEF JobOK, Jobs, IInv, TypeOK
    <2>3. ~(j[2] > sent[j[1]])
      BY <2>2, SMT DEF Jobs, IInv, TypeOK
    <2> QED BY <2>1, <2>2, <2>3 DEF JobOK, InQueue, CurrentJob
  <1>3. CASE j # k
    BY <1>1, <1>3 DEF JobOK, Call, IInv, TypeOK, InQueue, CurrentJob
  <1> QED BY <1>2, <1>3

(* A refused job was never in the list and has no callback, so no answer   *)
(* can reach it later.                                                     *)
LEMMA RefuseJob ==
  ASSUME IInv, NEW c \in Clients, pc[c] \in {"clone", "push"}, Refuse(c, CurrentJob(c)),
         UNCHANGED <<queue, cb, answer, sent, main>>
  PROVE  JobInv'
  <1> SUFFICES ASSUME NEW j \in Jobs PROVE JobOK(j)'
    BY DEF JobInv
  <1>1. JobOK(j) /\ j[1] \in Clients
    BY DEF IInv, JobInv, Jobs
  <1>2. ~(sent[c] > sent[c])
    BY SMT DEF IInv, TypeOK
  <1>3. CASE j = CurrentJob(c)
    <2>1. j[1] = c /\ j[2] = sent[c]
      BY <1>3 DEF CurrentJob
    <2>2. ret'[j] = "refused" /\ pc'[c] = "idle" /\ ~cb[j] /\ answer[j] = <<>> /\ ~InQueue(j)
      BY <1>1, <1>3, <2>1 DEF JobOK, Refuse, IInv, TypeOK
    <2> QED BY <1>1, <1>2, <2>1, <2>2 DEF JobOK, InQueue, CurrentJob
  <1>4. CASE j # CurrentJob(c)
    <2>1. ret'[j] = ret[j]
      BY <1>4 DEF Refuse, IInv, TypeOK
    <2>2. j[1] # c => pc'[j[1]] = pc[j[1]]
      BY <1>1 DEF Refuse, IInv, TypeOK
    <2>3. j[1] = c => j # CurrentJob(j[1])
      BY <1>4
    <2> QED BY <1>1, <2>1, <2>2, <2>3 DEF JobOK, InQueue, CurrentJob
  <1> QED BY <1>3, <1>4

(* The flags of every job stay consistent under every step.                *)
LEMMA JobStepInv ==
  ASSUME IInv, Next
  PROVE  JobInv'
  <1>1. CASE UNCHANGED <<answer, cb, ret, queue, sent, pc, main>>
    BY <1>1 DEF IInv, JobInv, JobOK, InQueue, CurrentJob
  <1>2. CASE Fetch \/ Claim \/ Infer \/ TouchFreedNode \/ Terminated
    BY <1>1, <1>2 DEF Fetch, Claim, Infer, TouchFreedNode, Terminated, vars, clientVars, nodeVars
  <1>3. CASE Prepare \/ Deliver \/ Callback
    <2>1. UNCHANGED <<queue, pc, sent, ret, main>> /\ cur \in Jobs /\ \A c \in Clients : pc[c] # "join"
      BY <1>3 DEF Prepare, Deliver, Callback, clientVars, IInv, TypeOK, WorkerInv
    <2>2. CASE UNCHANGED <<cb, answer>>
      BY <1>1, <2>1, <2>2
    <2>3. CASE ~UNCHANGED <<cb, answer>>
      <3>1. cb[cur] /\ \E r \in Results : Call(cur, r)
        <4>1. CASE Callback
          BY <4>1 DEF Callback, IInv, WorkerInv, Results
        <4>2. CASE Prepare
          BY <2>3, <4>2 DEF Prepare, IInv, WorkerInv, Results
        <4> QED BY <1>3, <2>3, <4>1, <4>2 DEF Deliver, nodeVars
      <3> QED BY <2>1, <3>1, CallJob
    <2> QED BY <2>2, <2>3
  <1>4. CASE Relock
    <2> SUFFICES ASSUME NEW j \in Jobs PROVE JobOK(j)'
      BY DEF JobInv
    <2>1. JobOK(j) /\ UNCHANGED <<answer, cb, ret, sent, pc, main>>
      BY <1>4 DEF IInv, JobInv, Relock, clientVars, nodeVars
    <2>2. CASE queue = <<>>
      BY <1>4, <2>1, <2>2 DEF Relock, JobOK, InQueue, CurrentJob
    <2>3. CASE queue # <<>>
      <3>1. queue' = Tail(queue) /\ (main = "running" => ~cb[Head(queue)])
        BY <1>4, <2>3 DEF Relock, IInv, WorkerInv
      <3>2. (InQueue(j)' => InQueue(j)) /\ (InQueue(j) => j = Head(queue) \/ InQueue(j)')
        BY <2>3, <3>1, QueueTail DEF IInv
      <3> QED BY <2>1, <3>1, <3>2 DEF JobOK, CurrentJob
    <2> QED BY <2>2, <2>3
  <1>5. ASSUME NEW c \in Clients, PushCheck(c) PROVE JobInv'
    <2> SUFFICES ASSUME NEW j \in Jobs PROVE JobOK(j)'
      BY DEF JobInv
    <2> DEFINE k == <<c, sent[c] + 1>>
    <2>1. JobOK(j) /\ j[1] \in Clients /\ j[2] \in Int
      BY SMT DEF IInv, JobInv, Jobs
    <2>2. UNCHANGED <<queue, cb, answer, main>> /\ sent' = [sent EXCEPT ![c] = @ + 1]
          /\ pc[c] = "idle" /\ pc' \in {[pc EXCEPT ![c] = "clone"], [pc EXCEPT ![c] = "idle"]}
      BY <1>5 DEF PushCheck, Refuse
    <2>3. (ret' = ret /\ pc'[c] = "clone") \/ (ret' = [ret EXCEPT ![k] = "refused"] /\ pc'[c] = "idle")
      BY <1>5 DEF PushCheck, Refuse, IInv, TypeOK
    <2>4. sent[c] \in Int /\ sent'[c] = sent[c] + 1
      BY <2>2, SMT DEF IInv, TypeOK
    <2>5. CASE j[1] # c
      <3>1. sent'[j[1]] = sent[j[1]] /\ pc'[j[1]] = pc[j[1]] /\ ret'[j] = ret[j]
        BY <2>1, <2>2, <2>3, <2>5 DEF IInv, TypeOK
      <3> QED BY <2>1, <2>2, <3>1 DEF JobOK, InQueue, CurrentJob
    <2>6. CASE j[1] = c /\ j # k
      <3>1. ret'[j] = ret[j] /\ j # CurrentJob(c)'
        BY <2>3, <2>4, <2>6 DEF IInv, TypeOK, CurrentJob
      <3>2. j[2] > sent'[c] => j[2] > sent[c]
        BY <2>1, <2>4, SMT
      <3>3. pc[c] # "join"
        BY <2>2
      <3> QED BY <2>1, <2>2, <2>6, <3>1, <3>2, <3>3 DEF JobOK, InQueue, CurrentJob
    <2>7. CASE j = k
      <3>1. j[1] = c /\ j[2] > sent[c] /\ ~(j[2] > sent'[c])
        BY <2>4, <2>7, SMT
      <3>2. ret[j] = "none" /\ answer[j] = <<>> /\ ~cb[j] /\ ~InQueue(j) /\ Len(answer[j]) <= 1
        BY <2>1, <2>2, <3>1 DEF JobOK
      <3>3. ret'[j] # "queued" /\ (pc'[c] # "idle" => ret'[j] = "none")
        BY <2>3, <2>7, <3>2 DEF IInv, TypeOK
      <3> QED BY <2>2, <3>1, <3>2, <3>3 DEF JobOK, InQueue
    <2> QED BY <2>5, <2>6, <2>7 DEF Jobs
  <1>6. ASSUME NEW c \in Clients, CloneFrame(c) PROVE JobInv'
    <2>1. UNCHANGED <<queue, cb, answer, sent, main>> /\ pc[c] = "clone"
      BY <1>6 DEF CloneFrame
    <2>2. CASE Refuse(c, CurrentJob(c))
      BY <2>1, <2>2, RefuseJob
    <2>3. CASE ret' = ret /\ pc' = [pc EXCEPT ![c] = "push"]
      <3> SUFFICES ASSUME NEW j \in Jobs PROVE JobOK(j)'
        BY DEF JobInv
      <3>1. JobOK(j) /\ j[1] \in Clients
        BY DEF IInv, JobInv, Jobs
      <3>2. (pc'[j[1]] = "join" <=> pc[j[1]] = "join") /\ (pc'[j[1]] # "idle" => pc[j[1]] # "idle")
        BY <2>1, <2>3, <3>1 DEF IInv, TypeOK
      <3> QED BY <2>1, <2>3, <3>1, <3>2 DEF JobOK, InQueue, CurrentJob
    <2> QED BY <1>6, <2>2, <2>3 DEF CloneFrame
  <1>7. ASSUME NEW c \in Clients, PushFull(c) PROVE JobInv'
    BY <1>7, RefuseJob DEF PushFull
  <1>8. ASSUME NEW c \in Clients, Push(c) PROVE JobInv'
    <2> SUFFICES ASSUME NEW j \in Jobs PROVE JobOK(j)'
      BY DEF JobInv
    <2> DEFINE k == CurrentJob(c)
    <2>1. JobOK(j) /\ JobOK(k) /\ j[1] \in Clients /\ k \in Jobs /\ k[1] = c /\ k[2] = sent[c]
      BY <1>8, CurrentJobIsJob DEF IInv, JobInv, Jobs, Push, CurrentJob
    <2>2. UNCHANGED <<sent, answer, main>> /\ pc[c] = "push" /\ queue' = Append(queue, k)
          /\ cb' = [cb EXCEPT ![k] = TRUE]
      BY <1>8 DEF Push
    <2>3. InQueue(j)' <=> InQueue(j) \/ j = k
      BY <2>1, <2>2, QueueAppend DEF IInv
    <2>4. (ret' = [ret EXCEPT ![k] = "queued"] /\ pc' = [pc EXCEPT ![c] = "idle"])
          \/ (ret' = ret /\ pc' = [pc EXCEPT ![c] = "join"])
      BY <1>8 DEF Push, Accept
    <2>5. ~(sent[c] > sent[c])
      BY SMT DEF IInv, TypeOK
    <2>6. CASE j = k
      <3>1. answer[j] = <<>> /\ ret[j] = "none" /\ cb'[j] /\ InQueue(j)'
        BY <2>1, <2>2, <2>3, <2>6 DEF JobOK, IInv, TypeOK
      <3>2. (ret'[j] = "queued" /\ pc'[c] = "idle") \/ (ret'[j] = "none" /\ pc'[c] = "join")
        BY <2>1, <2>4, <2>6, <3>1 DEF IInv, TypeOK
      <3> QED BY <2>1, <2>2, <2>5, <2>6, <3>1, <3>2 DEF JobOK, CurrentJob
    <2>7. CASE j # k
      <3>1. ret'[j] = ret[j] /\ cb'[j] = cb[j]
        BY <2>2, <2>4, <2>7 DEF IInv, TypeOK
      <3>2. j[1] # c => pc'[j[1]] = pc[j[1]]
        BY <2>1, <2>4 DEF IInv, TypeOK
      <3>3. j[1] = c => j # CurrentJob(j[1])
        BY <2>7
      <3> QED BY <2>1, <2>2, <2>3, <2>7, <3>1, <3>2, <3>3 DEF JobOK, CurrentJob
    <2> QED BY <2>6, <2>7
  <1>9. ASSUME NEW c \in Clients, PushJoin(c) PROVE JobInv'
    <2> SUFFICES ASSUME NEW j \in Jobs PROVE JobOK(j)'
      BY DEF JobInv
    <2> DEFINE k == CurrentJob(c)
    <2>1. JobOK(j) /\ JobOK(k) /\ j[1] \in Clients /\ k \in Jobs /\ k[1] = c /\ k[2] = sent[c]
      BY <1>9, CurrentJobIsJob DEF IInv, JobInv, Jobs, PushJoin, CurrentJob
    <2>2. UNCHANGED <<sent, answer, cb, queue, main>> /\ pc[c] = "join" /\ cb[k]
          /\ ret' = [ret EXCEPT ![k] = "queued"] /\ pc' = [pc EXCEPT ![c] = "idle"]
      BY <1>9 DEF PushJoin, Accept, nodeVars, IInv, WorkerInv
    <2>3. ~(sent[c] > sent[c])
      BY SMT DEF IInv, TypeOK
    <2>4. CASE j = k
      <3>1. ret'[j] = "queued" /\ pc'[c] = "idle" /\ answer[j] = <<>>
        BY <2>1, <2>2, <2>4 DEF IInv, TypeOK, JobOK
      <3> QED BY <2>1, <2>2, <2>3, <2>4, <3>1 DEF JobOK, InQueue, CurrentJob
    <2>5. CASE j # k
      <3>1. ret'[j] = ret[j] /\ (j[1] # c => pc'[j[1]] = pc[j[1]]) /\ (j[1] = c => j # CurrentJob(j[1]))
        BY <2>1, <2>2, <2>5 DEF IInv, TypeOK
      <3> QED BY <2>1, <2>2, <3>1 DEF JobOK, InQueue, CurrentJob
    <2> QED BY <2>4, <2>5
  <1>10. ASSUME NEW c \in Clients,
                CancelCall(c) \/ CancelBegin(c) \/ CancelSkip(c) \/ CancelEnd(c) \/ Destroyed(c)
         PROVE  JobInv'
    BY <1>1, <1>10 DEF CancelCall, CancelBegin, CancelSkip, CancelEnd, Destroyed, clientVars, nodeVars
  <1>11. ASSUME NEW c \in Clients, CancelNode(c) PROVE JobInv'
    <2> DEFINE k == queue[cursor[c]]
    <2>1. k \in Jobs
      BY <1>11, SMT DEF CancelNode, IInv, TypeOK
    <2>2. UNCHANGED <<queue, pc, sent, ret, main>> /\ \A d \in Clients : pc[d] # "join"
      BY <1>11 DEF CancelNode, clientVars, IInv, LockInv
    <2>3. UNCHANGED <<cb, answer>> \/ (cb[k] /\ Call(k, "error"))
      BY <1>11 DEF CancelNode
    <2> QED BY <1>1, <2>1, <2>2, <2>3, CallJob DEF Results
  <1>12. CASE ExitClear
    <2>1. UNCHANGED <<answer, cb, ret, sent, pc>> /\ main' # "running" /\ \A j : ~InQueue(j)'
      BY <1>12, SMT DEF ExitClear, clientVars, nodeVars, InQueue
    <2> QED BY <2>1 DEF IInv, JobInv, JobOK, CurrentJob
  <1>13. CASE ExitJoin
    BY <1>13 DEF ExitJoin, IInv, JobInv, JobOK, InQueue, CurrentJob, clientVars, nodeVars
  <1> QED
    BY <1>2, <1>3, <1>4, <1>5, <1>6, <1>7, <1>8, <1>9, <1>10, <1>11, <1>12, <1>13
       DEF Next, WorkerStep, SubmitStep, CancelStep

(* The id of an accepted node is its client's: an id is allocated only     *)
(* while the client has none, so no accepted node can have an older one.   *)
LEMMA IdStepInv ==
  ASSUME IInv, Next
  PROVE  IdInv'
  <1> USE DEF IInv, IdInv
  <1>1. CASE UNCHANGED <<pc, sent, sid, ret, detectId>>
    BY <1>1 DEF CurrentJob
  <1>2. CASE WorkerStep \/ ExitClear \/ ExitJoin \/ Terminated
    BY <1>1, <1>2 DEF WorkerStep, Fetch, Claim, Prepare, Infer, Deliver, Callback, Relock,
       TouchFreedNode, ExitClear, ExitJoin, Terminated, vars, clientVars, nodeVars
  <1>3. ASSUME NEW c \in Clients, CancelCall(c) \/ CancelStep(c) PROVE IdInv'
    BY <1>1, <1>3
    DEF CancelCall, CancelStep, CancelBegin, CancelSkip, CancelNode, CancelEnd, Destroyed, clientVars,
        nodeVars
  <1>4. ASSUME NEW c \in Clients, PushCheck(c) \/ PushFull(c) PROVE IdInv'
    <2>1. UNCHANGED <<sid, detectId>> /\ sent' \in {sent, [sent EXCEPT ![c] = @ + 1]}
      BY <1>4 DEF PushCheck, PushFull
    <2>2. pc' \in {[pc EXCEPT ![c] = "clone"], [pc EXCEPT ![c] = "idle"]}
      BY <1>4 DEF PushCheck, PushFull, Refuse
    <2>3. ret' = ret \/ \E k : ret' = [ret EXCEPT ![k] = "refused"]
      BY <1>4 DEF PushCheck, PushFull, Refuse
    <2>4. \A j \in Jobs : ret'[j] = "queued" => ret[j] = "queued"
      BY <2>3 DEF TypeOK
    <2>5. \A d \in Clients : pc'[d] \in {"push", "join"} => d # c /\ pc[d] = pc'[d] /\ sent'[d] = sent[d]
      BY <2>1, <2>2 DEF TypeOK
    <2> QED BY <2>1, <2>4, <2>5 DEF CurrentJob
  <1>5. ASSUME NEW c \in Clients, CloneFrame(c) PROVE IdInv'
    <2> DEFINE k == CurrentJob(c)
    <2>1. UNCHANGED <<sent, detectId>> /\ pc[c] = "clone" /\ k \in Jobs /\ k[1] = c
      BY <1>5, CurrentJobIsJob DEF CloneFrame, CurrentJob
    <2>2. ret[k] = "none"
      BY <2>1 DEF JobInv, JobOK
    <2>3. ret' = ret \/ ret' = [ret EXCEPT ![k] = "refused"]
      BY <1>5 DEF CloneFrame, Refuse
    <2>4. pc' \in {[pc EXCEPT ![c] = "push"], [pc EXCEPT ![c] = "idle"]}
      BY <1>5 DEF CloneFrame, Refuse
    <2>5. \A j \in Jobs \ {k} : sid'[j] = sid[j]
      BY <1>5 DEF CloneFrame, TypeOK
    <2>6. \A j \in Jobs : ret'[j] = "queued" => j # k /\ ret[j] = "queued"
      BY <2>1, <2>2, <2>3 DEF TypeOK
    <2>7. pc'[c] = "push" => sid'[k] >= 0 /\ (detectId[c] >= 0 => sid'[k] = detectId[c])
      <3> SUFFICES ASSUME pc'[c] = "push"
                   PROVE sid'[k] >= 0 /\ (detectId[c] >= 0 => sid'[k] = detectId[c])
        OBVIOUS
      <3>1. sid'[k] = IF detectId[c] < 0 THEN idSeed ELSE detectId[c]
        BY <1>5, <2>1 DEF CloneFrame, Refuse, TypeOK
      <3>2. idSeed \in Nat \ {0} /\ detectId[c] \in Int
        BY DEF TypeOK
      <3> HIDE DEF IInv, IdInv
      <3> QED BY <3>1, <3>2, SMT
    <2>8. \A d \in Clients \ {c} : pc'[d] = pc[d] /\ CurrentJob(d) # k
      BY <2>4 DEF TypeOK, CurrentJob
    <2>9. \A d \in Clients : pc[d] \in {"push", "join"} => CurrentJob(d) \in Jobs
      BY CurrentJobIsJob
    <2>10. \A d \in Clients : pc'[d] \in {"push", "join"} =>
             sid'[CurrentJob(d)] >= 0 /\ (detectId[d] >= 0 => sid'[CurrentJob(d)] = detectId[d])
      <3> SUFFICES ASSUME NEW d \in Clients, pc'[d] \in {"push", "join"}
                   PROVE /\ sid'[CurrentJob(d)] >= 0
                         /\ detectId[d] >= 0 => sid'[CurrentJob(d)] = detectId[d]
        OBVIOUS
      <3>1. CASE d = c
        BY <2>4, <2>7, <3>1 DEF TypeOK
      <3>2. CASE d # c
        BY <2>5, <2>8, <2>9, <3>2
      <3> QED BY <3>1, <3>2
    <2> QED BY <2>1, <2>5, <2>6, <2>10 DEF CurrentJob
  <1>6. ASSUME NEW c \in Clients, Push(c) \/ PushJoin(c) PROVE IdInv'
    <2> DEFINE k == CurrentJob(c)
    <2>1. UNCHANGED <<sent, sid>> /\ pc[c] \in {"push", "join"} /\ k \in Jobs /\ k[1] = c
      BY <1>6, CurrentJobIsJob DEF Push, PushJoin, nodeVars, CurrentJob
    <2>2. Accept(c, k) \/ (UNCHANGED <<ret, detectId>> /\ pc' = [pc EXCEPT ![c] = "join"])
      BY <1>6 DEF Push, PushJoin
    <2>3. CASE Accept(c, k)
      <3>1. ret' = [ret EXCEPT ![k] = "queued"] /\ pc' = [pc EXCEPT ![c] = "idle"]
            /\ detectId' = [detectId EXCEPT ![c] = IF @ < 0 THEN sid[k] ELSE @]
        BY <2>3 DEF Accept
      <3>2. sid[k] >= 0 /\ detectId'[c] = sid[k]
        <4>1. /\ sid[k] \in Int /\ detectId[c] \in Int /\ sid[k] >= 0
              /\ detectId[c] >= 0 => sid[k] = detectId[c]
          BY <2>1 DEF TypeOK
        <4>2. detectId'[c] = IF detectId[c] < 0 THEN sid[k] ELSE detectId[c]
          BY <3>1 DEF TypeOK
        <4> HIDE DEF IInv, IdInv
        <4> QED BY <4>1, <4>2, SMT
      <3>3. \A d \in Clients \ {c} : detectId'[d] = detectId[d] /\ pc'[d] = pc[d]
        BY <3>1 DEF TypeOK
      <3>4. \A j \in Jobs \ {k} : ret'[j] = ret[j]
        BY <3>1 DEF TypeOK
      <3>5. \A j \in Jobs : ret[j] = "queued" /\ j[1] = c => detectId'[c] = sid[j] /\ sid[j] >= 0
        <4> SUFFICES ASSUME NEW j \in Jobs, ret[j] = "queued", j[1] = c
                     PROVE detectId'[c] = sid[j] /\ sid[j] >= 0
          OBVIOUS
        <4>1. sid[j] \in Int /\ sid[j] >= 0 /\ sid[j] = detectId[c]
          BY DEF TypeOK
        <4>2. detectId'[c] = IF detectId[c] < 0 THEN sid[k] ELSE detectId[c]
          BY <3>1 DEF TypeOK
        <4> HIDE DEF IInv, IdInv
        <4> QED BY <4>1, <4>2, SMT
      <3>6. pc'[c] = "idle"
        BY <3>1 DEF TypeOK
      <3>7. \A j \in Jobs : ret'[j] = "queued" => sid'[j] >= 0 /\ sid'[j] = detectId'[j[1]]
        <4> SUFFICES ASSUME NEW j \in Jobs, ret'[j] = "queued"
                     PROVE sid[j] >= 0 /\ sid[j] = detectId'[j[1]]
          BY <2>1
        <4>1. CASE j = k
          BY <2>1, <3>2, <4>1
        <4>2. CASE j # k
          BY <3>3, <3>4, <3>5, <4>2 DEF Jobs
        <4> QED BY <4>1, <4>2
      <3> QED BY <2>1, <3>3, <3>6, <3>7 DEF CurrentJob
    <2>4. CASE UNCHANGED <<ret, detectId>> /\ pc' = [pc EXCEPT ![c] = "join"]
      <3>1. \A d \in Clients : pc'[d] \in {"push", "join"} => pc[d] \in {"push", "join"}
        BY <2>1, <2>4 DEF TypeOK
      <3> QED BY <2>1, <2>4, <3>1 DEF CurrentJob
    <2> QED BY <2>2, <2>3, <2>4
  <1> QED
    BY <1>2, <1>3, <1>4, <1>5, <1>6 DEF Next, SubmitStep

(* What a cancel has passed stays settled: mtx_ keeps the list as it is,   *)
(* and no callback is ever set on a node that is already in it.            *)
LEMMA CancelStepInv ==
  ASSUME IInv, Next
  PROVE  CancelInv'
  <1> USE DEF IInv, CancelInv, NoCallbackAfterCancel
  <1>1. CASE UNCHANGED <<own, cursor, queue, cb>>
    BY <1>1
  <1>2. CASE Fetch \/ Claim \/ Infer \/ TouchFreedNode \/ ExitJoin \/ Terminated
    BY <1>1, <1>2 DEF Fetch, Claim, Infer, TouchFreedNode, ExitJoin, Terminated, vars, ownerVars,
                      nodeVars
  <1>3. CASE Prepare \/ Deliver \/ Callback
    <2>1. UNCHANGED <<own, cursor, queue>> /\ cur \in Jobs
      BY <1>3 DEF Prepare, Deliver, Callback, ownerVars, TypeOK
    <2>2. \A j \in Jobs : cb'[j] => cb[j]
      <3>1. cb' = cb \/ cb' = [cb EXCEPT ![cur] = FALSE]
        BY <1>3 DEF Prepare, Deliver, Callback, Call, nodeVars
      <3> QED BY <3>1 DEF TypeOK
    <2>3. \A i \in 1..Len(queue) : queue[i] \in Jobs
      BY DEF TypeOK
    <2> QED BY <2>1, <2>2, <2>3
  <1>4. CASE Relock \/ ExitClear
    <2>1. UNCHANGED <<own, cb>> /\ \A c \in Clients : own[c] # "cancelling"
      BY <1>4 DEF Relock, ExitClear, MtxFree, ownerVars, nodeVars
    <2> QED BY <2>1
  <1>5. ASSUME NEW c \in Clients, PushCheck(c) \/ CloneFrame(c) \/ PushFull(c) \/ PushJoin(c)
        PROVE  CancelInv'
    BY <1>1, <1>5 DEF PushCheck, CloneFrame, PushFull, PushJoin, ownerVars, nodeVars
  <1>6. ASSUME NEW c \in Clients, Push(c) PROVE CancelInv'
    <2> DEFINE k == CurrentJob(c)
    <2>1. own' = own /\ (\A d \in Clients : own[d] # "cancelling") /\ k[1] = c /\ pc[c] # "idle"
      BY <1>6 DEF Push, MtxFree, ownerVars, CurrentJob
    <2>2. \A j \in Jobs : cb'[j] => cb[j] \/ j = k
      BY <1>6 DEF Push, TypeOK
    <2>3. c \in DecThreads \/ own[c] = "alive"
      BY <2>1 DEF SubmitInv
    <2> QED BY <2>1, <2>2, <2>3 DEF Jobs
  <1>7. ASSUME NEW c \in Clients, CancelBegin(c) PROVE CancelInv'
    <2>1. UNCHANGED <<queue, cb>> /\ \A d \in Clients : own[d] # "cancelling"
      BY <1>7 DEF CancelBegin, MtxFree, nodeVars
    <2>2. own' = [own EXCEPT ![c] = "cancelling"] /\ cursor'[c] = 1
      BY <1>7 DEF CancelBegin, TypeOK
    <2>3. \A d \in Clients : d # c => own'[d] = own[d]
      BY <2>2 DEF TypeOK
    <2>4. own'[c] = "cancelling"
      BY <2>2 DEF TypeOK
    <2>5. \A i \in 1..Len(queue) : ~(i < cursor'[c])
      BY <2>2, SMT
    <2> QED BY <2>1, <2>3, <2>4, <2>5 DEF Jobs
  <1>8. ASSUME NEW c \in Clients, CancelSkip(c) PROVE CancelInv'
    <2>1. UNCHANGED <<own, queue, cb>> /\ own[c] = "cancelling" /\ cursor'[c] = cursor[c] + 1
      BY <1>8 DEF CancelSkip, nodeVars, TypeOK
    <2>2. \A d \in Clients : d # c => own[d] # "cancelling"
      BY <2>1 DEF LockInv
    <2>3. cursor[c] \in 1..Len(queue) /\ queue[cursor[c]] \in Jobs
      BY <1>8, SMT DEF CancelSkip, TypeOK
    <2>4. queue[cursor[c]][1] = c => ~cb[queue[cursor[c]]]
      <3> SUFFICES ASSUME queue[cursor[c]][1] = c, cb[queue[cursor[c]]] PROVE FALSE
        OBVIOUS
      <3>1. pc[c] # "join"
        BY <2>1 DEF LockInv
      <3>2. ret[queue[cursor[c]]] = "queued"
        BY <2>3, <3>1 DEF JobInv, JobOK
      <3> QED BY <1>8, <2>3, <3>2 DEF CancelSkip, IdInv
    <2>5. \A i \in 1..Len(queue) : i < cursor'[c] => i < cursor[c] \/ i = cursor[c]
      BY <2>1, SMT DEF TypeOK
    <2> QED BY <2>1, <2>2, <2>4, <2>5
  <1>9. ASSUME NEW c \in Clients, CancelNode(c) PROVE CancelInv'
    <2> DEFINE k == queue[cursor[c]]
    <2>1. UNCHANGED <<own, queue>> /\ own[c] = "cancelling" /\ cursor'[c] = cursor[c] + 1
      BY <1>9 DEF CancelNode, TypeOK
    <2>2. \A d \in Clients : d # c => own[d] # "cancelling"
      BY <2>1 DEF LockInv
    <2>3. k \in Jobs
      BY <1>9, SMT DEF CancelNode, TypeOK
    <2>4. ~cb'[k] /\ \A j \in Jobs : cb'[j] => cb[j]
      BY <1>9, <2>3 DEF CancelNode, Call, TypeOK
    <2>5. \A i \in 1..Len(queue) : i < cursor'[c] => i < cursor[c] \/ i = cursor[c]
      BY <2>1, SMT DEF TypeOK
    <2>6. \A i \in 1..Len(queue) : queue[i] \in Jobs
      BY DEF TypeOK
    <2> QED BY <2>1, <2>2, <2>4, <2>5, <2>6
  <1>10. ASSUME NEW c \in Clients, CancelEnd(c) PROVE CancelInv'
    <2>1. UNCHANGED <<queue, cb>> /\ own[c] = "cancelling" /\ own' = [own EXCEPT ![c] = "cancelled"]
          /\ cursor[c] > Len(queue) /\ main = "running"
      BY <1>10 DEF CancelEnd, nodeVars, SubmitInv
    <2>2. c \notin DecThreads => \A i \in 1..Len(queue) : queue[i][1] = c => ~cb[queue[i]]
      <3>1. \A i \in 1..Len(queue) : i < cursor[c]
        BY <2>1, SMT DEF TypeOK
      <3> QED BY <2>1, <3>1
    <2>3. c \notin DecThreads => \A j \in Jobs : j[1] = c => ~cb[j]
      BY <2>1, <2>2 DEF JobInv, JobOK, InQueue
    <2>4. \A d \in Clients : d # c => own'[d] = own[d]
      BY <2>1 DEF TypeOK
    <2>5. own'[c] = "cancelled" /\ \A d \in Clients : d # c => own[d] # "cancelling"
      BY <2>1 DEF TypeOK, LockInv
    <2> QED BY <2>1, <2>3, <2>4, <2>5 DEF Jobs
  <1>11. ASSUME NEW c \in Clients, Destroyed(c) PROVE CancelInv'
    <2>1. UNCHANGED <<queue, cb, cursor>> /\ own[c] = "cancelled" /\ own' = [own EXCEPT ![c] = "gone"]
      BY <1>11 DEF Destroyed, nodeVars
    <2>2. \A d \in Clients : own'[d] = own[d] \/ (d = c /\ own'[d] = "gone")
      BY <2>1 DEF TypeOK
    <2> QED BY <2>1, <2>2 DEF Jobs
  <1>12. ASSUME NEW c \in Clients, CancelCall(c) PROVE CancelInv'
    <2>1. UNCHANGED <<queue, cb, cursor>> /\ own[c] = "alive" /\ own' = [own EXCEPT ![c] = "waiting"]
      BY <1>12 DEF CancelCall, nodeVars
    <2>2. \A d \in Clients : own'[d] = own[d] \/ (d = c /\ own'[d] = "waiting")
      BY <2>1 DEF TypeOK
    <2> QED BY <2>1, <2>2 DEF Jobs
  <1> QED
    BY <1>2, <1>3, <1>4, <1>5, <1>6, <1>7, <1>8, <1>9, <1>10, <1>11, <1>12
       DEF Next, WorkerStep, SubmitStep, CancelStep

-----------------------------------------------------------------------------
(* The theorems.                                                           *)

(* The inductive invariant holds before anything has happened.             *)
LEMMA InitIInv == Init => IInv
  <1> SUFFICES ASSUME Init PROVE IInv
    OBVIOUS
  <1>1. TypeOK
    BY TypeInit
  <1>2. LockInv /\ SubmitInv /\ WorkerInv /\ IdInv /\ CancelInv
    BY DEF Init, LockInv, SubmitInv, WorkerInv, IdInv, CancelInv, NoCallbackAfterCancel, Jobs
  <1>3. JobInv
    <2>1. \A j : ~InQueue(j)
      BY SMT DEF Init, InQueue
    <2>2. Len(<<>>) <= 1
      BY SMT
    <2> QED BY <2>1, <2>2 DEF Init, JobInv, JobOK, Jobs
  <1> QED BY <1>1, <1>2, <1>3 DEF IInv

(* Every step, and every stutter, keeps the inductive invariant.           *)
LEMMA NextIInv == IInv /\ [Next]_vars => IInv'
  <1> SUFFICES ASSUME IInv, [Next]_vars PROVE IInv'
    OBVIOUS
  <1>1. CASE Next
    <2>1. TypeOK'
      BY <1>1, TypeStep DEF IInv
    <2> QED
      BY <1>1, <2>1, LockStep, SubmitStepInv, WorkerStepInv, JobStepInv, IdStepInv,
         CancelStepInv DEF IInv
  <1>2. CASE UNCHANGED vars
    <2>1. Terminated => Next
      BY DEF Next
    <2> QED
      BY <1>2 DEF vars, workerVars, clientVars, ownerVars, nodeVars, IInv, TypeOK, LockInv, SubmitInv,
         WorkerInv, JobInv, JobOK, IdInv, CancelInv, NoCallbackAfterCancel, InQueue, CurrentJob
  <1> QED BY <1>1, <1>2

(* The inductive invariant holds in every behaviour of the service, for    *)
(* any clients, any bound of the list and any number of frames.            *)
THEOREM Invariance == Spec => []IInv
  BY InitIInv, NextIInv, PTL DEF Spec

(* Every variable keeps its type, for any number of clients and frames and *)
(* any bound of the list.                                                  *)
THEOREM TypeCorrect == Spec => []TypeOK
  <1>1. IInv => TypeOK
    BY DEF IInv
  <1> QED BY <1>1, Invariance, PTL

(* No push ever joins a worker that still needs the mutex the push holds.  *)
THEOREM PushNeverDeadlocks == Spec => []JoinCannotDeadlock
  <1>1. IInv => JoinCannotDeadlock
    BY DEF IInv, WorkerInv, JoinCannotDeadlock
  <1> QED BY <1>1, Invariance, PTL

(* After netwrok_async_detection_cancel has returned to a client that      *)
(* decodes on the same thread, no callback will reach it.                  *)
THEOREM CancelIsFinal == Spec => []NoCallbackAfterCancel
  <1>1. IInv => NoCallbackAfterCancel
    BY DEF IInv, CancelInv
  <1> QED BY <1>1, Invariance, PTL

(* Every frame that queueTask took is called back exactly once before its  *)
(* node is gone; only the exit of the process drops what a decoding thread *)
(* queued after the cancel of its owner.                                   *)
THEOREM ExactlyOnce == Spec => []AnsweredExactlyOnce
  <1>1. IInv => AnsweredExactlyOnce
    <2> SUFFICES ASSUME IInv, NEW j \in Jobs
                 PROVE /\ Len(answer[j]) <= 1
                       /\ ret[j] = "refused" => answer[j] = <<>>
                       /\ ret[j] = "queued" /\ ~InQueue(j) =>
                            Len(answer[j]) = 1 \/ (main # "running" /\ j[1] \in DecThreads)
      BY DEF AnsweredExactlyOnce
    <2>1. JobOK(j) /\ j[1] \in Clients
      BY DEF IInv, JobInv, Jobs
    <2>2. ~InQueue(j) => ~cb[j] \/ (main # "running" /\ j[1] \in DecThreads)
      BY <2>1 DEF JobOK, IInv, CancelInv, NoCallbackAfterCancel, SubmitInv
    <2>3. answer[j] # <<>> => Len(answer[j]) \in Nat \ {0}
      BY EmptySeq DEF IInv, TypeOK
    <2>4. \A n \in Nat \ {0} : n <= 1 => n = 1
      BY SMT
    <2> QED BY <2>1, <2>2, <2>3, <2>4 DEF JobOK
  <1> QED BY <1>1, Invariance, PTL

(* No lost wakeup: while the process runs, a list that is not empty has a  *)
(* worker that will come to it, whenever mtx_ is free.                     *)
THEOREM NoLostWakeup == Spec => []WorkerCoversQueue
  <1>1. IInv => WorkerCoversQueue
    BY DEF IInv, WorkerInv, WorkerCoversQueue, MtxFree
  <1> QED BY <1>1, Invariance, PTL
=============================================================================
