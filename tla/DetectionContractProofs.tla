----------------------- MODULE DetectionContractProofs -----------------------
(***************************************************************************)
(* More about DetectionService, from the invariant of                      *)
(* DetectionServiceProofs and a second one (Books): pictures and contexts  *)
(* are freed once and boxes leak on one path only, results come in the     *)
(* order of the frames, and the threads and the list implement             *)
(* DetectionContract.                                                      *)
(***************************************************************************)
EXTENDS DetectionServiceProofs, FiniteSetTheorems

-----------------------------------------------------------------------------
(* The second invariant, relative to IInv.                                 *)

(* The clone exists from CloneFrame until somebody frees it: the worker    *)
(* when it has scaled it, or the cancel that takes the callback.           *)
Pictures ==
  /\ \A j \in Jobs :
       /\ cb[j] => frame[j] = "held"
                   \/ (worker \in {"infer", "deliver", "callback", "crashed"} /\ cur = j)
       /\ Settled(j) => frame[j] # "held"
       /\ j[2] > sent[j[1]] => frame[j] = "none"
  /\ \A c \in Clients :
       /\ pc[c] = "clone" => frame[CurrentJob(c)] = "none"
       /\ pc[c] = "push" => frame[CurrentJob(c)] = "held"
  /\ worker \in {"infer", "deliver", "callback"} => frame[cur] # "held"

(* Only a cancel takes the callback away while the network runs.           *)
Boxes ==
  /\ BoxesLostOnlyByCancel
  /\ worker \in {"infer", "deliver"} /\ ~cb[cur] => answer[cur] = <<"error">>

(* queueTask has come to an end for every frame but the last.              *)
Through ==
  \A j \in Jobs :
    j[2] < sent[j[1]] \/ (j[2] = sent[j[1]] /\ pc[j[1]] = "idle") => ret[j] # "none"

(* The frames that a client offered before a frame.                        *)
Before(j) == {k \in Jobs : k[1] = j[1] /\ k[2] < j[2]}

(* The list is in the order of the frames, and so is the worker.           *)
Ordered ==
  /\ \A i \in 1..Len(queue) : \A k \in Before(queue[i]) :
       Settled(k) \/ \E h \in 1..(i - 1) : queue[h] = k
  /\ worker \in {"claim", "prepare", "infer", "deliver", "callback"} => \A k \in Before(cur) : Settled(k)
  /\ \A j \in Jobs : answer[j] \in {<<"empty">>, <<"boxes">>} => \A k \in Before(j) : Settled(k)

Books == Pictures /\ ContextFreedOnce /\ Boxes /\ Through /\ Ordered

(* Nothing has been offered yet.                                           *)
LEMMA InitBooks == Init => Books
<1> SUFFICES ASSUME Init PROVE Books
  OBVIOUS
<1>1. Pictures
  BY DEF Init, Pictures, Settled, Jobs
<1>2. ContextFreedOnce
  BY DEF Init, ContextFreedOnce, Settled
<1>3. Boxes
  BY DEF Init, Boxes, BoxesLostOnlyByCancel
<1>4. Through
  <2> SUFFICES ASSUME NEW j \in Jobs, j[2] < sent[j[1]] \/ j[2] = sent[j[1]] PROVE FALSE
    BY DEF Through
  <2>1. j[1] \in Clients /\ j[2] \in Nat \ {0}
    BY LimitAssumption DEF Jobs
  <2>2. sent[j[1]] = 0
    BY <2>1 DEF Init
  <2> QED
    BY <2>1, <2>2
<1>5. Ordered
  <2>1. \A i \in 1..Len(queue) : FALSE
    BY DEF Init
  <2>2. \A j \in Jobs : answer[j] \notin {<<"empty">>, <<"boxes">>}
    <3>1. <<"empty">> # <<>> /\ <<"boxes">> # <<>>
      OBVIOUS
    <3> QED
      BY <3>1 DEF Init
  <2> QED
    BY <2>1, <2>2 DEF Init, Ordered
<1> QED
  BY <1>1, <1>2, <1>3, <1>4, <1>5 DEF Books

-----------------------------------------------------------------------------
(* What a step does to the jobs.                                           *)

(* The callback of j is called.                                            *)
Answering(j, r) ==
  /\ cb[j] /\ answer[j] = <<>>
  /\ answer' = [answer EXCEPT ![j] = <<r>>]
  /\ ctxFrees' = [ctxFrees EXCEPT ![j] = ctxFrees[j] + 1]
  /\ cb' = [cb EXCEPT ![j] = FALSE]
  /\ UNCHANGED <<ret, sent, pc>>

(* queueTask ends for j without it.                                        *)
Refusing(c, j) ==
  /\ j[1] = c /\ ret[j] = "none" /\ answer[j] = <<>> /\ ~cb[j]
  /\ Refuse(c, j)
  /\ UNCHANGED <<answer, cb>>

(* queueTask ends for j with it.                                           *)
Accepting(c, j) ==
  /\ j = CurrentJob(c) /\ ret[j] = "none" /\ answer[j] = <<>>
  /\ Accept(c, j)
  /\ UNCHANGED <<answer, ctxFrees, sent>>

(* A call is a callback that was owed.                                     *)
LEMMA CallAnswers ==
  ASSUME IInv, NEW j \in Jobs, NEW r \in Results, cb[j], Call(j, r), UNCHANGED <<ret, sent, pc>>
  PROVE  Answering(j, r)
<1>1. answer[j] = <<>>
  BY DEF IInv, JobInv, JobOK
<1>2. Append(answer[j], r) = <<r>>
  BY <1>1
<1> QED
  BY <1>1, <1>2 DEF Call, Answering

(* Every step answers one job, ends queueTask for one, or leaves results,  *)
(* answers and contexts alone; boxes come from the worker's job only.      *)
LEMMA JobSteps ==
  ASSUME IInv, [Next]_vars
  PROVE  \/ \E j \in Jobs, r \in Results : /\ Answering(j, r)
                                           /\ r = "error" \/ (worker = "callback" /\ j = cur)
         \/ \E c \in Clients, j \in Jobs : Refusing(c, j)
         \/ \E c \in Clients, j \in Jobs : Accepting(c, j)
         \/ UNCHANGED <<answer, ctxFrees, ret>>
<1>1. CASE Fetch \/ Claim \/ Infer \/ Deliver \/ Relock \/ TouchFreedNode \/ ExitClear \/ ExitJoin
  BY <1>1
  DEF Fetch, Claim, Infer, Deliver, Relock, TouchFreedNode, ExitClear, ExitJoin, clientVars, nodeVars
<1>2. CASE Prepare \/ Callback
  <2>1. UNCHANGED <<ret, sent, pc>> /\ cur \in Jobs
    BY <1>2 DEF Prepare, Callback, clientVars, IInv, TypeOK
  <2>2. \/ UNCHANGED <<answer, ctxFrees>>
        \/ \E r \in Results : cb[cur] /\ Call(cur, r) /\ (r = "error" \/ worker = "callback")
    BY <1>2 DEF Prepare, Callback, Results, IInv, WorkerInv
  <2> QED
    BY <2>1, <2>2, CallAnswers
<1>3. ASSUME NEW c \in Clients, PushCheck(c)
      PROVE  (\E j \in Jobs : Refusing(c, j)) \/ UNCHANGED <<answer, ctxFrees, ret>>
  <2> DEFINE k == <<c, sent[c] + 1>>
  <2>1. k \in Jobs /\ k[1] = c /\ k[2] > sent[c]
    BY <1>3, LimitAssumption, SMT DEF PushCheck, Jobs, IInv, TypeOK
  <2>2. ret[k] = "none" /\ answer[k] = <<>> /\ ~cb[k]
    BY <2>1 DEF IInv, JobInv, JobOK
  <2>3. UNCHANGED <<answer, cb>> /\ (Refuse(c, k) \/ UNCHANGED <<ret, ctxFrees>>)
    BY <1>3 DEF PushCheck
  <2> QED
    BY <2>1, <2>2, <2>3 DEF Refusing
<1>4. ASSUME NEW c \in Clients, CloneFrame(c) \/ PushFull(c)
      PROVE  (\E j \in Jobs : Refusing(c, j)) \/ UNCHANGED <<answer, ctxFrees, ret>>
  <2> DEFINE k == CurrentJob(c)
  <2>1. pc[c] \in {"clone", "push"} /\ UNCHANGED <<answer, cb>>
        /\ (Refuse(c, k) \/ UNCHANGED <<ret, ctxFrees>>)
    BY <1>4 DEF CloneFrame, PushFull
  <2>2. k \in Jobs /\ k[1] = c
    BY <2>1, CurrentJobIsJob DEF IInv, CurrentJob
  <2>3. ret[k] = "none" /\ answer[k] = <<>> /\ ~cb[k]
    BY <2>1, <2>2 DEF IInv, JobInv, JobOK
  <2> QED
    BY <2>1, <2>2, <2>3 DEF Refusing
<1>5. ASSUME NEW c \in Clients, Push(c) \/ PushJoin(c)
      PROVE  (\E j \in Jobs : Accepting(c, j)) \/ UNCHANGED <<answer, ctxFrees, ret>>
  <2> DEFINE k == CurrentJob(c)
  <2>1. pc[c] # "idle" /\ UNCHANGED <<answer, ctxFrees, sent>>
        /\ (Accept(c, k) \/ UNCHANGED ret)
    BY <1>5 DEF Push, PushJoin, nodeVars
  <2>2. k \in Jobs /\ k[1] = c
    BY <2>1, CurrentJobIsJob DEF IInv, CurrentJob
  <2>3. ret[k] = "none" /\ answer[k] = <<>>
    BY <2>1, <2>2 DEF IInv, JobInv, JobOK
  <2> QED
    BY <2>1, <2>2, <2>3 DEF Accepting
<1>6. ASSUME NEW c \in Clients, CancelNode(c)
      PROVE  (\E j \in Jobs : Answering(j, "error")) \/ UNCHANGED <<answer, ctxFrees, ret>>
  <2> DEFINE k == queue[cursor[c]]
  <2>1. k \in Jobs
    BY <1>6, SMT DEF CancelNode, IInv, TypeOK
  <2>2. UNCHANGED <<ret, sent, pc>>
        /\ (UNCHANGED <<answer, ctxFrees>> \/ (cb[k] /\ Call(k, "error")))
    BY <1>6 DEF CancelNode, clientVars
  <2> QED
    BY <2>1, <2>2, CallAnswers DEF Results
<1>7. CASE \E c \in Clients :
           CancelCall(c) \/ CancelBegin(c) \/ CancelSkip(c) \/ CancelEnd(c) \/ Destroyed(c)
  BY <1>7 DEF CancelCall, CancelBegin, CancelSkip, CancelEnd, Destroyed, clientVars, nodeVars
<1>8. CASE UNCHANGED vars
  BY <1>8 DEF vars, clientVars, nodeVars
<1>9. "error" \in Results
  BY DEF Results
<1> QED
  BY <1>1, <1>2, <1>3, <1>4, <1>5, <1>6, <1>7, <1>8, <1>9
  DEF Next, WorkerStep, SubmitStep, CancelStep, Terminated

(* Results and answers are final.                                          *)
LEMMA SettledStays ==
  ASSUME IInv, [Next]_vars, NEW j \in Jobs
  PROVE  /\ answer[j] # <<>> => answer'[j] = answer[j]
         /\ Settled(j) => Settled(j)'
         /\ ret[j] # "none" => ret'[j] # "none"
<1>0. answer \in [Jobs -> Seq(Results)] /\ ret \in [Jobs -> {"none", "queued", "refused"}]
  BY DEF IInv, TypeOK
<1>1. ASSUME NEW k \in Jobs, NEW r \in Results, Answering(k, r)
      PROVE  /\ answer[j] # <<>> => answer'[j] = answer[j]
             /\ ret' = ret
  BY <1>0, <1>1 DEF Answering
<1>2. ASSUME NEW k \in Jobs, answer' = answer,
             ret[k] = "none",
             ret' = [ret EXCEPT ![k] = "refused"] \/ ret' = [ret EXCEPT ![k] = "queued"]
      PROVE  ret[j] # "none" => ret'[j] = ret[j]
  BY <1>0, <1>2
<1>3. /\ answer[j] # <<>> => answer'[j] = answer[j]
      /\ ret[j] # "none" => ret'[j] = ret[j]
  BY <1>1, <1>2, JobSteps DEF Refusing, Refuse, Accepting, Accept
<1> QED
  BY <1>3 DEF Settled

(* The context of a job is freed by the step that settles it.              *)
LEMMA ContextStep == IInv /\ ContextFreedOnce /\ [Next]_vars => ContextFreedOnce'
<1> SUFFICES ASSUME IInv, ContextFreedOnce, [Next]_vars, NEW j \in Jobs, j[1] \in Decoders
             PROVE  ctxFrees'[j] = IF Settled(j)' THEN 1 ELSE 0
  BY DEF ContextFreedOnce
<1>0. /\ answer \in [Jobs -> Seq(Results)] /\ ret \in [Jobs -> {"none", "queued", "refused"}]
      /\ ctxFrees \in [Jobs -> Nat]
  BY DEF IInv, TypeOK
<1>i. ctxFrees[j] = IF Settled(j) THEN 1 ELSE 0
  BY DEF ContextFreedOnce
<1>1. ASSUME NEW k \in Jobs, NEW r \in Results, Answering(k, r)
      PROVE  ctxFrees'[j] = IF Settled(j)' THEN 1 ELSE 0
  <2>1. CASE j = k
    <3>1. ~Settled(j)
      BY <1>1, <2>1 DEF Answering, Settled, IInv, JobInv, JobOK
    <3>2. answer'[j] = <<r>> /\ <<r>> # <<>> /\ ctxFrees'[j] = ctxFrees[j] + 1
      BY <1>0, <1>1, <2>1 DEF Answering
    <3> QED
      BY <1>i, <3>1, <3>2 DEF Settled
  <2>2. CASE j # k
    <3>1. answer'[j] = answer[j] /\ ctxFrees'[j] = ctxFrees[j] /\ ret'[j] = ret[j]
      BY <1>0, <1>1, <2>2 DEF Answering
    <3> QED
      BY <1>i, <3>1 DEF Settled
  <2> QED
    BY <2>1, <2>2
<1>2. ASSUME NEW c \in Clients, NEW k \in Jobs, Refusing(c, k)
      PROVE  ctxFrees'[j] = IF Settled(j)' THEN 1 ELSE 0
  <2>1. CASE j = k
    <3>1. ~Settled(j) /\ c \in Decoders
      BY <1>2, <2>1 DEF Refusing, Settled
    <3>2. ret'[j] = "refused" /\ ctxFrees'[j] = ctxFrees[j] + 1
      BY <1>0, <1>2, <2>1, <3>1 DEF Refusing, Refuse
    <3> QED
      BY <1>i, <3>1, <3>2 DEF Settled
  <2>2. CASE j # k
    <3>1. answer'[j] = answer[j] /\ ctxFrees'[j] = ctxFrees[j] /\ ret'[j] = ret[j]
      BY <1>0, <1>2, <2>2 DEF Refusing, Refuse
    <3> QED
      BY <1>i, <3>1 DEF Settled
  <2> QED
    BY <2>1, <2>2
<1>3. ASSUME NEW c \in Clients, NEW k \in Jobs, Accepting(c, k)
      PROVE  ctxFrees'[j] = IF Settled(j)' THEN 1 ELSE 0
  <2>1. answer'[j] = answer[j] /\ ctxFrees'[j] = ctxFrees[j]
        /\ (ret'[j] = "refused" <=> ret[j] = "refused")
    BY <1>0, <1>3 DEF Accepting, Accept
  <2> QED
    BY <1>i, <2>1 DEF Settled
<1>4. CASE UNCHANGED <<answer, ctxFrees, ret>>
  BY <1>i, <1>4 DEF Settled
<1> QED
  BY <1>1, <1>2, <1>3, <1>4, JobSteps

-----------------------------------------------------------------------------
(* The parts of Books, one lemma each.                                     *)

(* A job with a callback owes its answer; the job a client works on has    *)
(* none yet.                                                               *)
LEMMA OwedJobs ==
  ASSUME IInv
  PROVE  /\ \A j \in Jobs : cb[j] => ~Settled(j) /\ ~(j[2] > sent[j[1]])
         /\ \A c \in Clients : pc[c] \in {"clone", "push"} =>
              /\ CurrentJob(c) \in Jobs /\ ~cb[CurrentJob(c)] /\ ~Settled(CurrentJob(c))
              /\ ~(CurrentJob(c)[2] > sent[CurrentJob(c)[1]])
<1>1. ASSUME NEW j \in Jobs, cb[j] PROVE ~Settled(j) /\ ~(j[2] > sent[j[1]])
  BY <1>1 DEF IInv, JobInv, JobOK, Settled
<1>2. ASSUME NEW c \in Clients, pc[c] \in {"clone", "push"}
      PROVE  /\ CurrentJob(c) \in Jobs /\ ~cb[CurrentJob(c)] /\ ~Settled(CurrentJob(c))
             /\ ~(CurrentJob(c)[2] > sent[CurrentJob(c)[1]])
  <2>1. CurrentJob(c) \in Jobs /\ CurrentJob(c)[1] = c /\ CurrentJob(c)[2] = sent[c]
    BY <1>2, CurrentJobIsJob DEF IInv, CurrentJob
  <2>2. ~(sent[c] > sent[c])
    BY DEF IInv, TypeOK
  <2> QED
    BY <1>2, <2>1, <2>2 DEF IInv, JobInv, JobOK, Settled
<1> QED
  BY <1>1, <1>2

(* Whoever drops the clone of a job that has a callback settles the job.   *)
LEMMA PictureDropped ==
  ASSUME IInv, Pictures, NEW k \in Jobs, NEW r \in Results, cb[k], FreeFrame(k), Call(k, r),
         UNCHANGED <<ret, sent, pc, cur>>,
         worker' = worker \/ (worker = "prepare" /\ worker' = "relock")
  PROVE  Pictures'
<1>0. /\ frame \in [Jobs -> {"none", "held", "freed"}] /\ cb \in [Jobs -> BOOLEAN]
      /\ answer \in [Jobs -> Seq(Results)] /\ (worker \in {"infer", "deliver", "callback"} => cur \in Jobs)
  BY DEF IInv, TypeOK
<1>1. frame'[k] = "freed" /\ ~cb'[k] /\ ~Settled(k)
  BY <1>0, OwedJobs DEF FreeFrame, Call
<1>2. ASSUME NEW j \in Jobs, j # k
      PROVE  frame'[j] = frame[j] /\ cb'[j] = cb[j] /\ answer'[j] = answer[j] /\ ret'[j] = ret[j]
  BY <1>0, <1>2 DEF FreeFrame, Call
<1>3. ASSUME NEW j \in Jobs
      PROVE  /\ cb'[j] => frame'[j] = "held"
                          \/ (worker' \in {"infer", "deliver", "callback", "crashed"} /\ cur' = j)
             /\ Settled(j)' => frame'[j] # "held"
             /\ j[2] > sent'[j[1]] => frame'[j] = "none"
  <2>1. CASE j = k
    BY <1>1, <2>1, OwedJobs
  <2>2. CASE j # k
    BY <1>2, <2>2 DEF Pictures, Settled
  <2> QED
    BY <2>1, <2>2
<1>4. ASSUME NEW c \in Clients, pc[c] \in {"clone", "push"}
      PROVE  CurrentJob(c)' = CurrentJob(c) /\ frame'[CurrentJob(c)] = frame[CurrentJob(c)]
  BY <1>2, <1>4, OwedJobs DEF CurrentJob
<1>5. worker' \in {"infer", "deliver", "callback"} => frame'[cur'] # "held"
  BY <1>0, <1>1, <1>2 DEF Pictures
<1> QED
  BY <1>3, <1>4, <1>5 DEF Pictures

(* queueTask fails for the job of a client.                                *)
LEMMA PictureRefused ==
  ASSUME IInv, Pictures, NEW c \in Clients, pc[c] \in {"clone", "push"},
         Refuse(c, CurrentJob(c)), UNCHANGED <<cb, answer, sent, worker, cur>>,
         \/ frame' = frame /\ pc[c] = "clone"
         \/ frame' = [frame EXCEPT ![CurrentJob(c)] = "freed"]
  PROVE  Pictures'
<1> DEFINE k == CurrentJob(c)
<1>0. /\ frame \in [Jobs -> {"none", "held", "freed"}] /\ pc \in [Clients -> ClientPcs]
      /\ ret \in [Jobs -> {"none", "queued", "refused"}]
      /\ (worker \in {"infer", "deliver", "callback"} => cur \in Jobs)
  BY DEF IInv, TypeOK
<1>1. k \in Jobs /\ ~cb[k] /\ ~(k[2] > sent[k[1]]) /\ frame'[k] # "held"
  BY <1>0, OwedJobs DEF Pictures
<1>2. ASSUME NEW j \in Jobs, j # k
      PROVE  frame'[j] = frame[j] /\ ret'[j] = ret[j]
  BY <1>0, <1>2 DEF Refuse
<1>3. ASSUME NEW j \in Jobs
      PROVE  /\ cb'[j] => frame'[j] = "held"
                          \/ (worker' \in {"infer", "deliver", "callback", "crashed"} /\ cur' = j)
             /\ Settled(j)' => frame'[j] # "held"
             /\ j[2] > sent'[j[1]] => frame'[j] = "none"
  <2>1. CASE j = k
    BY <1>1, <2>1
  <2>2. CASE j # k
    BY <1>2, <2>2 DEF Pictures, Settled
  <2> QED
    BY <2>1, <2>2
<1>4. ASSUME NEW d \in Clients, pc'[d] \in {"clone", "push"}
      PROVE  /\ pc'[d] = pc[d] /\ CurrentJob(d)' = CurrentJob(d)
             /\ frame'[CurrentJob(d)] = frame[CurrentJob(d)]
  <2>1. d # c /\ pc'[d] = pc[d]
    BY <1>0, <1>4 DEF Refuse
  <2>2. CurrentJob(d) \in Jobs /\ CurrentJob(d) # k
    BY <1>4, <2>1, OwedJobs DEF CurrentJob
  <2> QED
    BY <1>2, <2>1, <2>2 DEF CurrentJob
<1>5. worker' \in {"infer", "deliver", "callback"} => frame'[cur'] # "held"
  BY <1>0, <1>1, <1>2 DEF Pictures
<1> QED
  BY <1>3, <1>4, <1>5 DEF Pictures

(* A clone that queueTask does not change is kept by whoever owns it.      *)
LEMMA PictureAccepted ==
  ASSUME IInv, Pictures, NEW c \in Clients, pc[c] \in {"push", "join"},
         pc' = [pc EXCEPT ![c] = "join"] \/ pc' = [pc EXCEPT ![c] = "idle"],
         ret' = ret \/ ret' = [ret EXCEPT ![CurrentJob(c)] = "queued"],
         \/ cb' = cb
         \/ pc[c] = "push" /\ cb' = [cb EXCEPT ![CurrentJob(c)] = TRUE],
         UNCHANGED <<frame, answer, sent, cur>>,
         worker' = worker \/ (worker \in {"none", "exit"} /\ worker' = "fetch")
  PROVE  Pictures'
<1> DEFINE k == CurrentJob(c)
<1>0. /\ cb \in [Jobs -> BOOLEAN] /\ pc \in [Clients -> ClientPcs]
      /\ ret \in [Jobs -> {"none", "queued", "refused"}] /\ k \in Jobs
  BY CurrentJobIsJob DEF IInv, TypeOK
<1>1. ASSUME NEW j \in Jobs
      PROVE  /\ cb'[j] => frame[j] = "held"
                          \/ (worker' \in {"infer", "deliver", "callback", "crashed"} /\ cur = j)
             /\ Settled(j)' => Settled(j)
  BY <1>0 DEF Pictures, Settled
<1>2. ASSUME NEW d \in Clients, pc'[d] \in {"clone", "push"}
      PROVE  pc'[d] = pc[d] /\ CurrentJob(d)' = CurrentJob(d)
  BY <1>0, <1>2 DEF CurrentJob
<1>3. worker' \in {"infer", "deliver", "callback"} => worker' = worker
  OBVIOUS
<1> QED
  BY <1>1, <1>2, <1>3 DEF Pictures

(* A frame that is offered has no clone until CloneFrame makes it.         *)
LEMMA PictureCloned ==
  ASSUME IInv, Pictures, NEW c \in Clients, PushCheck(c) \/ CloneFrame(c)
  PROVE  Pictures'
<1>0. /\ frame \in [Jobs -> {"none", "held", "freed"}] /\ pc \in [Clients -> ClientPcs]
      /\ ret \in [Jobs -> {"none", "queued", "refused"}] /\ sent \in [Clients -> 0..MaxFrames]
      /\ (worker \in {"infer", "deliver", "callback"} => cur \in Jobs)
  BY DEF IInv, TypeOK
<1>1. CASE PushCheck(c)
  <2> DEFINE k == <<c, sent[c] + 1>>
  <2>1. /\ UNCHANGED <<worker, cur, frame, cb, answer>> /\ sent' = [sent EXCEPT ![c] = sent[c] + 1]
        /\ pc' \in {[pc EXCEPT ![c] = "clone"], [pc EXCEPT ![c] = "idle"]}
        /\ ret' = ret \/ ret' = [ret EXCEPT ![k] = "refused"]
    BY <1>1 DEF PushCheck, Refuse, workerVars
  <2>2. sent[c] + 1 \in 1..MaxFrames /\ sent[c] + 1 > sent[c] /\ ~(sent[c] + 1 > sent'[c])
    BY <1>0, <1>1, <2>1, LimitAssumption DEF PushCheck
  <2>3. k \in Jobs /\ frame[k] = "none"
    BY <2>2 DEF Pictures, Jobs
  <2>4. ASSUME NEW j \in Jobs
        PROVE  /\ cb'[j] => frame'[j] = "held"
                            \/ (worker' \in {"infer", "deliver", "callback", "crashed"} /\ cur' = j)
               /\ Settled(j)' => frame'[j] # "held"
               /\ j[2] > sent'[j[1]] => frame'[j] = "none"
    <3>1. Settled(j)' => frame'[j] # "held"
      BY <1>0, <2>1, <2>3 DEF Pictures, Settled
    <3>2. j[2] > sent'[j[1]] => j[2] > sent[j[1]]
      BY <1>0, <2>1 DEF Jobs
    <3> QED
      BY <2>1, <3>1, <3>2 DEF Pictures
  <2>5. ASSUME NEW d \in Clients
        PROVE  /\ pc'[d] = "clone" => frame'[CurrentJob(d)'] = "none"
               /\ pc'[d] = "push" => frame'[CurrentJob(d)'] = "held"
    <3>1. CASE d = c
      BY <1>0, <2>1, <2>3, <3>1 DEF CurrentJob
    <3>2. CASE d # c
      BY <1>0, <2>1, <3>2 DEF CurrentJob, Pictures
    <3> QED
      BY <3>1, <3>2
  <2> QED
    BY <2>1, <2>4, <2>5 DEF Pictures
<1>2. CASE CloneFrame(c)
  <2> DEFINE k == CurrentJob(c)
  <2>1. pc[c] = "clone" /\ UNCHANGED <<worker, cur, cb, answer, sent>>
    BY <1>2 DEF CloneFrame, workerVars
  <2>2. CASE Refuse(c, k) /\ UNCHANGED frame
    BY <2>1, <2>2, PictureRefused
  <2>3. CASE ~(Refuse(c, k) /\ UNCHANGED frame)
    <3>1. /\ frame' = [frame EXCEPT ![k] = "held"] /\ pc' = [pc EXCEPT ![c] = "push"]
          /\ ret' = ret
      BY <1>2, <2>3 DEF CloneFrame
    <3>2. k \in Jobs /\ ~Settled(k) /\ ~(k[2] > sent[k[1]])
      BY <2>1, OwedJobs
    <3>3. worker \in {"infer", "deliver", "callback"} => cur # k
      <4> SUFFICES ASSUME worker \in {"infer", "deliver", "callback"}, cur = k PROVE FALSE
        OBVIOUS
      <4>1. main = "running"
        BY <2>1 DEF IInv, SubmitInv
      <4>2. InQueue(k)
        BY <4>1, HeadInQueue DEF IInv, WorkerInv
      <4>3. k[1] = c /\ k = CurrentJob(k[1])
        BY DEF CurrentJob
      <4> QED
        BY <2>1, <3>2, <4>2, <4>3 DEF IInv, JobInv, JobOK
    <3>4. ASSUME NEW j \in Jobs
          PROVE  /\ cb'[j] => frame'[j] = "held"
                              \/ (worker' \in {"infer", "deliver", "callback", "crashed"} /\ cur' = j)
                 /\ Settled(j)' => frame'[j] # "held"
                 /\ j[2] > sent'[j[1]] => frame'[j] = "none"
      BY <1>0, <2>1, <3>1, <3>2 DEF Pictures, Settled
    <3>5. ASSUME NEW d \in Clients
          PROVE  /\ pc'[d] = "clone" => frame'[CurrentJob(d)'] = "none"
                 /\ pc'[d] = "push" => frame'[CurrentJob(d)'] = "held"
      <4>1. CASE d = c
        BY <1>0, <2>1, <3>1, <3>2, <4>1 DEF CurrentJob
      <4>2. CASE d # c
        <5>1. pc'[d] = pc[d] /\ CurrentJob(d)' = CurrentJob(d)
          BY <1>0, <2>1, <3>1, <4>2 DEF CurrentJob
        <5>2. pc[d] \in {"clone", "push"} => CurrentJob(d) \in Jobs /\ CurrentJob(d) # k
          BY <4>2, OwedJobs DEF CurrentJob
        <5> QED
          BY <1>0, <3>1, <5>1, <5>2 DEF Pictures
      <4> QED
        BY <4>1, <4>2
    <3>6. worker' \in {"infer", "deliver", "callback"} => frame'[cur'] # "held"
      BY <1>0, <2>1, <3>1, <3>3 DEF Pictures
    <3> QED
      BY <3>4, <3>5, <3>6 DEF Pictures
  <2> QED
    BY <2>2, <2>3
<1> QED
  BY <1>1, <1>2

(* The clone of every frame is freed once, on every path.                  *)
LEMMA PicturesStep == IInv /\ Pictures /\ [Next]_vars => Pictures'
<1> SUFFICES ASSUME IInv, Pictures, [Next]_vars PROVE Pictures'
  OBVIOUS
<1>0. /\ frame \in [Jobs -> {"none", "held", "freed"}] /\ cb \in [Jobs -> BOOLEAN]
      /\ answer \in [Jobs -> Seq(Results)]
      /\ worker \notin {"none", "fetch", "exit"} => cur \in Jobs
  BY DEF IInv, TypeOK
<1>1. ASSUME UNCHANGED <<frame, cb, answer, ret, sent, pc>>,
             worker \in {"infer", "deliver", "callback", "crashed"}
               => worker' \in {"infer", "deliver", "callback", "crashed"} /\ cur' = cur,
             worker' \in {"infer", "deliver", "callback"}
               => worker \in {"infer", "deliver", "callback"} /\ cur' = cur
      PROVE  Pictures'
  BY <1>1 DEF Pictures, Settled, CurrentJob
<1>2. CASE Fetch \/ Claim \/ Infer \/ Relock \/ TouchFreedNode \/ ExitClear \/ ExitJoin
  BY <1>1, <1>2
  DEF Fetch, Claim, Infer, Relock, TouchFreedNode, TouchesNode, ExitClear, ExitJoin, clientVars,
      nodeVars, workerVars
<1>3. CASE UNCHANGED vars
  BY <1>1, <1>3 DEF vars, clientVars, nodeVars, workerVars
<1>4. CASE \E c \in Clients :
           CancelCall(c) \/ CancelBegin(c) \/ CancelSkip(c) \/ CancelEnd(c) \/ Destroyed(c)
  BY <1>1, <1>4
  DEF CancelCall, CancelBegin, CancelSkip, CancelEnd, Destroyed, clientVars, nodeVars, workerVars
<1>5. CASE Prepare
  <2>1. /\ worker = "prepare" /\ cur \in Jobs /\ cb[cur] /\ FreeFrame(cur)
        /\ UNCHANGED <<ret, sent, pc, cur>>
    BY <1>0, <1>5 DEF Prepare, clientVars, IInv, WorkerInv
  <2>2. CASE worker' = "relock" /\ Call(cur, "error")
    BY <2>1, <2>2, PictureDropped DEF Results
  <2>3. CASE worker' = "infer" /\ UNCHANGED <<cb, answer, ctxFrees>>
    <3>1. /\ frame'[cur] = "freed" /\ ~Settled(cur) /\ ~(cur[2] > sent[cur[1]])
          /\ \A j \in Jobs : j # cur => frame'[j] = frame[j]
      BY <1>0, <2>1, OwedJobs DEF FreeFrame
    <3>2. ASSUME NEW j \in Jobs
          PROVE  /\ cb'[j] => frame'[j] = "held"
                              \/ (worker' \in {"infer", "deliver", "callback", "crashed"} /\ cur' = j)
                 /\ Settled(j)' => frame'[j] # "held"
                 /\ j[2] > sent'[j[1]] => frame'[j] = "none"
      BY <2>1, <2>3, <3>1 DEF Pictures, Settled
    <3>3. ASSUME NEW c \in Clients, pc[c] \in {"clone", "push"}
          PROVE  /\ CurrentJob(c)' = CurrentJob(c)
                 /\ frame'[CurrentJob(c)] = frame[CurrentJob(c)]
      BY <2>1, <3>1, <3>3, OwedJobs DEF CurrentJob
    <3> QED
      BY <2>1, <3>1, <3>2, <3>3 DEF Pictures
  <2> QED
    BY <1>5, <2>2, <2>3 DEF Prepare
<1>6. CASE Deliver
  <2>1. CASE worker' = "callback"
    BY <1>1, <1>6, <2>1 DEF Deliver, clientVars, nodeVars
  <2>2. CASE worker' = "relock"
    <3>1. /\ ~cb[cur] /\ worker = "deliver"
          /\ UNCHANGED <<frame, cb, answer, ret, sent, pc>>
      BY <1>6, <2>2 DEF Deliver, clientVars, nodeVars
    <3> QED
      BY <2>2, <3>1 DEF Pictures, Settled, CurrentJob
  <2> QED
    BY <1>6, <2>1, <2>2 DEF Deliver
<1>12. CASE Callback
  <2>1. /\ worker = "callback" /\ worker' = "relock" /\ cur \in Jobs /\ frame[cur] # "held"
        /\ UNCHANGED <<frame, ret, sent, pc, cur>>
    BY <1>0, <1>12 DEF Callback, clientVars, Pictures
  <2>2. /\ \A j \in Jobs : j # cur => answer'[j] = answer[j] /\ cb'[j] = cb[j]
        /\ ~cb'[cur]
    BY <1>0, <1>12, <2>1 DEF Callback, Call
  <2>3. ASSUME NEW j \in Jobs
        PROVE  /\ cb'[j] => frame'[j] = "held"
               /\ Settled(j)' => frame'[j] # "held"
    BY <2>1, <2>2 DEF Pictures, Settled
  <2> QED
    BY <2>1, <2>3 DEF Pictures, CurrentJob
<1>7. ASSUME NEW c \in Clients, CancelNode(c) PROVE Pictures'
  <2> DEFINE k == queue[cursor[c]]
  <2>1. k \in Jobs /\ UNCHANGED <<ret, sent, pc, cur, worker>>
    BY <1>7, SMT DEF CancelNode, clientVars, workerVars, IInv, TypeOK
  <2>2. CASE UNCHANGED <<frame, cb, answer, ctxFrees>>
    BY <1>1, <2>1, <2>2
  <2>3. CASE cb[k] /\ FreeFrame(k) /\ Call(k, "error")
    BY <2>1, <2>3, PictureDropped DEF Results
  <2> QED
    BY <1>7, <2>2, <2>3 DEF CancelNode
<1>8. ASSUME NEW c \in Clients, PushCheck(c) \/ CloneFrame(c) PROVE Pictures'
  BY <1>8, PictureCloned
<1>9. ASSUME NEW c \in Clients, PushFull(c) PROVE Pictures'
  BY <1>9, PictureRefused DEF PushFull, workerVars
<1>10. ASSUME NEW c \in Clients, Push(c) PROVE Pictures'
  <2>1. /\ pc' = [pc EXCEPT ![c] = "join"] \/ pc' = [pc EXCEPT ![c] = "idle"]
        /\ ret' = ret \/ ret' = [ret EXCEPT ![CurrentJob(c)] = "queued"]
        /\ worker' = worker \/ (worker = "none" /\ worker' = "fetch")
    BY <1>10 DEF Push, Accept
  <2> QED
    BY <1>10, <2>1, PictureAccepted DEF Push
<1>11. ASSUME NEW c \in Clients, PushJoin(c) PROVE Pictures'
  BY <1>11, PictureAccepted DEF PushJoin, Accept, nodeVars
<1> QED
  BY <1>2, <1>3, <1>4, <1>5, <1>6, <1>7, <1>8, <1>9, <1>10, <1>11,
     <1>12
  DEF Next, WorkerStep, SubmitStep, CancelStep, Terminated

(* The array of detections is lost only for a job a cancel has answered.   *)
LEMMA BoxesStep == IInv /\ Boxes /\ [Next]_vars => Boxes'
<1> SUFFICES ASSUME IInv, Boxes, [Next]_vars PROVE Boxes'
  OBVIOUS
<1>0. /\ cb \in [Jobs -> BOOLEAN] /\ answer \in [Jobs -> Seq(Results)]
      /\ lostBoxes \in SUBSET Jobs
      /\ worker \notin {"none", "fetch", "exit"} => cur \in Jobs
  BY DEF IInv, TypeOK
<1>a. <<"error">> # <<>>
  OBVIOUS
<1>b. ASSUME NEW j \in Jobs, answer[j] = <<"error">> PROVE answer'[j] = <<"error">>
  BY <1>a, <1>b, SettledStays
<1>1. BoxesLostOnlyByCancel'
  <2>1. \/ lostBoxes' = lostBoxes
        \/ worker = "deliver" /\ ~cb[cur] /\ lostBoxes' = lostBoxes \cup {cur}
    BY DEF Next, WorkerStep, SubmitStep, CancelStep, Fetch, Claim, Prepare, Infer, Deliver, Callback,
           Relock, TouchFreedNode, ExitClear, ExitJoin, Terminated, PushCheck, CloneFrame, PushFull,
           Push, PushJoin, CancelCall, CancelBegin, CancelSkip, CancelNode, CancelEnd, Destroyed,
           workerVars, vars
  <2>2. \A j \in lostBoxes' : j \in Jobs /\ answer[j] = <<"error">>
    BY <1>0, <2>1 DEF Boxes, BoxesLostOnlyByCancel
  <2> QED
    BY <1>b, <2>2 DEF BoxesLostOnlyByCancel
<1>2. ASSUME worker' \in {"infer", "deliver"}, ~cb'[cur'] PROVE answer'[cur'] = <<"error">>
  <2>1. CASE worker \in {"infer", "deliver"} /\ cur' = cur /\ ~cb[cur]
    BY <1>0, <1>b, <2>1 DEF Boxes
  <2>2. CASE ~(worker \in {"infer", "deliver"} /\ cur' = cur /\ ~cb[cur])
    <3>1. CASE \E c \in Clients : CancelNode(c)
      <4> PICK c \in Clients : CancelNode(c)
        BY <3>1
      <4> DEFINE k == queue[cursor[c]]
      <4>1. k \in Jobs /\ worker' = worker /\ cur' = cur /\ cur \in Jobs
        BY <1>0, <1>2, SMT DEF CancelNode, workerVars, IInv, TypeOK
      <4>2. cb[cur]
        BY <1>2, <2>2, <4>1
      <4>3. cb[k] /\ Call(k, "error") /\ cur = k
        BY <1>0, <1>2, <4>1, <4>2 DEF CancelNode, Call
      <4>4. answer[k] = <<>>
        BY <4>1, <4>3 DEF IInv, JobInv, JobOK
      <4>5. Append(answer[k], "error") = <<"error">>
        BY <4>4
      <4> QED
        BY <1>0, <4>1, <4>3, <4>5 DEF Call
    <3>2. CASE Prepare
      <4>1. cb[cur] /\ cur' = cur /\ UNCHANGED cb
        BY <1>2, <3>2 DEF Prepare, IInv, WorkerInv
      <4> QED
        BY <1>2, <4>1
    <3>3. CASE Infer
      BY <1>2, <2>2, <3>3 DEF Infer, nodeVars
    <3>4. CASE \E c \in Clients :
               CancelCall(c) \/ CancelBegin(c) \/ CancelSkip(c) \/ CancelEnd(c) \/ Destroyed(c)
      BY <1>2, <2>2, <3>4
      DEF CancelCall, CancelBegin, CancelSkip, CancelEnd, Destroyed, workerVars, nodeVars
    <3>5. ASSUME NEW c \in Clients, SubmitStep(c)
          PROVE  /\ worker' = worker /\ cur' = cur
                 /\ cb' = cb \/ \E k : cb' = [cb EXCEPT ![k] = TRUE]
      BY <1>2, <3>5
      DEF SubmitStep, PushCheck, CloneFrame, PushFull, Push, PushJoin, workerVars, nodeVars
    <3>6. CASE \E c \in Clients : SubmitStep(c)
      BY <1>0, <1>2, <2>2, <3>5, <3>6
    <3>7. CASE Fetch \/ Claim \/ Deliver \/ Callback \/ Relock \/ TouchFreedNode \/ ExitJoin
      BY <1>2, <3>7 DEF Fetch, Claim, Deliver, Callback, Relock, TouchFreedNode, ExitJoin
    <3>8. CASE ExitClear \/ UNCHANGED vars
      BY <1>2, <2>2, <3>8 DEF ExitClear, vars, workerVars, nodeVars
    <3> QED
      BY <3>1, <3>2, <3>3, <3>4, <3>6, <3>7, <3>8 DEF Next, WorkerStep, CancelStep, Terminated
  <2> QED
    BY <2>1, <2>2
<1> QED
  BY <1>1, <1>2 DEF Boxes

(* queueTask has come to an end for every frame but the last.              *)
LEMMA ThroughStep == IInv /\ Through /\ [Next]_vars => Through'
<1> SUFFICES ASSUME IInv, Through, [Next]_vars, NEW j \in Jobs,
                    j[2] < sent'[j[1]] \/ (j[2] = sent'[j[1]] /\ pc'[j[1]] = "idle")
             PROVE  ret'[j] # "none"
  BY DEF Through
<1>0. /\ pc \in [Clients -> ClientPcs] /\ sent \in [Clients -> 0..MaxFrames]
      /\ ret \in [Jobs -> {"none", "queued", "refused"}]
      /\ j[1] \in Clients /\ j[2] \in Nat /\ j = <<j[1], j[2]>>
  BY LimitAssumption DEF IInv, TypeOK, Jobs
<1>1. CASE j[2] < sent[j[1]] \/ (j[2] = sent[j[1]] /\ pc[j[1]] = "idle")
  BY <1>1, SettledStays DEF Through
<1>2. CASE ~(j[2] < sent[j[1]] \/ (j[2] = sent[j[1]] /\ pc[j[1]] = "idle"))
  <2> DEFINE c == j[1]
  <2>1. sent' # sent \/ pc' # pc
    BY <1>2
  <2>2. \E d \in Clients : SubmitStep(d)
    BY <2>1
    DEF Next, WorkerStep, CancelStep, Fetch, Claim, Prepare, Infer, Deliver, Callback, Relock,
        TouchFreedNode, ExitClear, ExitJoin, Terminated, CancelCall, CancelBegin, CancelSkip,
        CancelNode, CancelEnd, Destroyed, clientVars, vars
  <2> PICK d \in Clients : SubmitStep(d)
    BY <2>2
  <2>3. \/ PushCheck(d)
        \/ /\ sent' = sent /\ pc[d] # "idle"
           /\ pc'[d] = "idle" => ret' \in {[ret EXCEPT ![CurrentJob(d)] = "refused"],
                                           [ret EXCEPT ![CurrentJob(d)] = "queued"]}
           /\ \A e \in Clients : e # d => pc'[e] = pc[e]
    BY <1>0 DEF SubmitStep, CloneFrame, PushFull, Push, PushJoin, Refuse, Accept
  <2>4. CASE PushCheck(d)
    <3>1. /\ sent' = [sent EXCEPT ![d] = sent[d] + 1] /\ pc[d] = "idle"
          /\ \A e \in Clients : e # d => pc'[e] = pc[e]
          /\ pc'[d] = "idle" => ret' = [ret EXCEPT ![<<d, sent[d] + 1>>] = "refused"]
      BY <1>0, <2>4 DEF PushCheck, Refuse
    <3>2. d = c
      BY <1>0, <1>2, <3>1
    <3>3. \A m, n \in Nat : m < n + 1 => m < n \/ m = n
      OBVIOUS
    <3>4. sent[d] \in Nat /\ sent'[d] = sent[d] + 1
      BY <1>0, <3>1
    <3>5. j[2] = sent[d] + 1 /\ pc'[d] = "idle"
      BY <1>0, <1>2, <3>1, <3>2, <3>3, <3>4
    <3> QED
      BY <1>0, <3>1, <3>2, <3>5
  <2>5. CASE ~PushCheck(d)
    <3>1. j = CurrentJob(d) /\ pc'[d] = "idle"
      BY <1>0, <1>2, <2>3, <2>5 DEF CurrentJob
    <3> QED
      BY <1>0, <2>3, <2>5, <3>1
  <2> QED
    BY <2>4, <2>5
<1> QED
  BY <1>1, <1>2

(* The head of the list is settled when the worker pops it.                *)
LEMMA HeadSettled ==
  ASSUME IInv, Relock, queue # <<>>
  PROVE  Settled(Head(queue))
<1> DEFINE k == Head(queue)
<1>1. main = "running" /\ worker = "relock"
  BY DEF IInv, WorkerInv, Relock
<1>2. k = cur /\ ~cb[k]
  BY <1>1 DEF IInv, WorkerInv
<1>3. InQueue(k) /\ k \in Jobs /\ k[1] \in Clients
  BY HeadInQueue DEF IInv, Jobs
<1>4. pc[k[1]] # "join"
  BY <1>3 DEF Relock, MtxFree
<1> QED
  BY <1>2, <1>3, <1>4 DEF IInv, JobInv, JobOK, Settled

(* The list stays in the order of the frames, whoever pushes and pops.     *)
LEMMA ListOrderStep ==
  ASSUME IInv, Through, Ordered, [Next]_vars,
         NEW i \in 1..Len(queue'), NEW k \in Before(queue'[i])
  PROVE  Settled(k)' \/ \E h \in 1..(i - 1) : queue'[h] = k
<1>0. queue \in Seq(Jobs) /\ Len(queue) \in Nat /\ k \in Jobs /\ i \in Nat \ {0}
  BY DEF IInv, TypeOK, Before
<1>o. \A n \in 1..Len(queue) : \A m \in Before(queue[n]) :
        Settled(m) \/ \E h \in 1..(n - 1) : queue[h] = m
  BY DEF Ordered
<1>1. CASE queue' = queue
  BY <1>0, <1>o, <1>1, SettledStays
<1>2. CASE queue' = <<>>
  BY <1>2
<1>3. CASE Relock /\ queue # <<>>
  <2>1. queue' = Tail(queue) /\ Len(queue) > 0
    BY <1>0, <1>3, EmptySeq DEF Relock
  <2>2. /\ Len(queue') = Len(queue) - 1 /\ Head(queue) = queue[1]
        /\ \A n \in 1..(Len(queue) - 1) : queue'[n] = queue[n + 1]
    BY <1>0, <2>1
  <2>3. i + 1 \in 1..Len(queue) /\ queue'[i] = queue[i + 1] /\ i + 1 - 1 = i
    BY <1>0, <2>2
  <2>4. Settled(k) \/ \E h \in 1..i : queue[h] = k
    BY <1>o, <2>3
  <2>5. CASE Settled(k)
    BY <1>0, <2>5, SettledStays
  <2>6. ASSUME NEW h \in 1..i, queue[h] = k
        PROVE  Settled(k) \/ \E g \in 1..(i - 1) : queue'[g] = k
    <3>1. CASE h = 1
      BY <1>3, <2>2, <2>6, <3>1, HeadSettled
    <3>2. CASE h # 1
      <4>1. h - 1 \in 1..(i - 1) /\ h - 1 \in 1..(Len(queue) - 1) /\ h - 1 + 1 = h
        BY <1>0, <2>2, <3>2
      <4>2. queue'[h - 1] = k
        BY <2>2, <2>6, <4>1
      <4> QED
        BY <4>1, <4>2
    <3> QED
      BY <3>1, <3>2
  <2> QED
    BY <1>0, <2>4, <2>5, <2>6, SettledStays
<1>4. ASSUME NEW c \in Clients, Push(c)
      PROVE  Settled(k)' \/ \E h \in 1..(i - 1) : queue'[h] = k
  <2> DEFINE j == CurrentJob(c)
  <2>1. j \in Jobs /\ queue' = Append(queue, j) /\ main = "running" /\ pc[c] = "push"
    BY <1>4, CurrentJobIsJob DEF Push, IInv, SubmitInv
  <2>2. /\ Len(queue') = Len(queue) + 1 /\ \A n \in 1..Len(queue) : queue'[n] = queue[n]
        /\ queue'[Len(queue) + 1] = j
    BY <1>0, <2>1
  <2>3. CASE i \in 1..Len(queue)
    <3>1. Settled(k) \/ \E h \in 1..(i - 1) : queue[h] = k
      BY <1>o, <2>2, <2>3
    <3>2. \A h \in 1..(i - 1) : h \in 1..Len(queue)
      BY <1>0, <2>3
    <3> QED
      BY <1>0, <2>2, <3>1, <3>2, SettledStays
  <2>4. CASE i = Len(queue) + 1
    <3>1. k \in Jobs /\ k[1] = c /\ k[2] < sent[c]
      BY <2>2, <2>4 DEF Before, CurrentJob
    <3>2. ret[k] # "none"
      BY <3>1 DEF Through
    <3>3. cb[k] => InQueue(k)
      BY <1>0, <2>1 DEF IInv, JobInv, JobOK
    <3>4. Settled(k) \/ cb[k]
      BY <1>0, <3>2 DEF IInv, JobInv, JobOK, TypeOK, Settled
    <3>5. InQueue(k) => \E h \in 1..(i - 1) : queue'[h] = k
      BY <1>0, <2>2, <2>4 DEF InQueue
    <3> QED
      BY <1>0, <3>3, <3>4, <3>5, SettledStays
  <2> QED
    BY <1>0, <2>2, <2>3, <2>4
<1>5. queue' = queue \/ queue' = <<>> \/ (Relock /\ queue # <<>>) \/ \E c \in Clients : Push(c)
  BY DEF Next, WorkerStep, SubmitStep, CancelStep, Fetch, Claim, Prepare, Infer, Deliver, Callback,
         Relock, TouchFreedNode, ExitClear, ExitJoin, Terminated, PushCheck, CloneFrame, PushFull,
         PushJoin, CancelCall, CancelBegin, CancelSkip, CancelNode, CancelEnd, Destroyed, vars
<1> QED
  BY <1>1, <1>2, <1>3, <1>4, <1>5

(* Neither the list nor the worker nor the results overtake a frame.       *)
LEMMA OrderedStep == IInv /\ Through /\ Ordered /\ [Next]_vars => Ordered'
<1> SUFFICES ASSUME IInv, Through, Ordered, [Next]_vars PROVE Ordered'
  OBVIOUS
<1>0. answer \in [Jobs -> Seq(Results)] /\ \A j : Before(j) \subseteq Jobs
  BY DEF IInv, TypeOK, Before
<1>1. \A i \in 1..Len(queue') : \A k \in Before(queue'[i]) :
        Settled(k)' \/ \E h \in 1..(i - 1) : queue'[h] = k
  BY ListOrderStep
<1>2. ASSUME worker' \in {"claim", "prepare", "infer", "deliver", "callback"}, NEW k \in Before(cur')
      PROVE  Settled(k)'
  <2>1. CASE Fetch
    <3>1. queue # <<>> /\ cur' = Head(queue)
      BY <1>2, <2>1 DEF Fetch
    <3>2. queue \in Seq(Jobs) /\ 1 \in 1..Len(queue) /\ Head(queue) = queue[1]
      BY <3>1, EmptySeq DEF IInv, TypeOK
    <3>3. Settled(k)
      BY <1>2, <3>1, <3>2 DEF Ordered
    <3> QED
      BY <1>0, <3>3, SettledStays
  <2>2. CASE ~Fetch
    <3>1. worker \in {"claim", "prepare", "infer", "deliver", "callback"} /\ cur' = cur
      BY <1>2, <2>2
      DEF Next, WorkerStep, SubmitStep, CancelStep, Claim, Prepare, Infer, Deliver, Callback, Relock,
          TouchFreedNode, ExitClear, ExitJoin, Terminated, PushCheck, CloneFrame, PushFull, Push,
          PushJoin, CancelCall, CancelBegin, CancelSkip, CancelNode, CancelEnd, Destroyed, workerVars,
          vars
    <3> QED
      BY <1>0, <1>2, <3>1, SettledStays DEF Ordered
  <2> QED
    BY <2>1, <2>2
<1>3. ASSUME NEW j \in Jobs, answer'[j] \in {<<"empty">>, <<"boxes">>}, NEW k \in Before(j)
      PROVE  Settled(k)'
  <2>1. CASE answer[j] \in {<<"empty">>, <<"boxes">>}
    BY <1>0, <1>3, <2>1, SettledStays DEF Ordered
  <2>2. CASE answer[j] \notin {<<"empty">>, <<"boxes">>}
    <3>1. answer'[j] # answer[j]
      BY <1>3, <2>2
    <3>2. PICK m \in Jobs, r \in Results : /\ Answering(m, r)
                                           /\ r = "error" \/ (worker = "callback" /\ m = cur)
      BY <3>1, JobSteps DEF Refusing, Accepting
    <3>3. m = j /\ answer'[j] = <<r>>
      BY <1>0, <3>1, <3>2 DEF Answering
    <3>4. r # "error"
      <4>1. <<"error">> # <<"empty">> /\ <<"error">> # <<"boxes">>
        OBVIOUS
      <4> QED
        BY <1>3, <3>3, <4>1
    <3> QED
      BY <1>0, <1>3, <3>2, <3>3, <3>4, SettledStays DEF Ordered
  <2> QED
    BY <2>1, <2>2
<1> QED
  BY <1>1, <1>2, <1>3 DEF Ordered

-----------------------------------------------------------------------------
(* The theorems.                                                           *)

(* Pictures, contexts, boxes and the order are kept by every step: Books   *)
(* is inductive relative to IInv.                                          *)
LEMMA NextBooks == IInv /\ Books /\ [Next]_vars => Books'
  BY PicturesStep, ContextStep, BoxesStep, ThroughStep, OrderedStep DEF Books

(* The second invariant holds in every behaviour of the service, for any   *)
(* clients, any bound of the list and any number of frames.                *)
THEOREM BooksAreKept == Spec => []Books
  BY Invariance, InitBooks, NextBooks, PTL DEF Spec

(* Picture and context of every job are freed, each once, on every path of *)
(* queueTask, the worker and a cancel, and never used after; the boxes     *)
(* leak on one path only, where a cancel answers while the network runs.   *)
THEOREM FreedOnce == Spec => []FreedOnceButForBoxes
<1>1. IInv /\ Books => FreedOnceButForBoxes
  <2> SUFFICES ASSUME IInv, Books PROVE FreedOnceButForBoxes
    OBVIOUS
  <2>1. worker = "prepare" => frame[cur] = "held"
    BY DEF IInv, TypeOK, WorkerInv, Books, Pictures
  <2>2. \A j \in Jobs : Settled(j) => frame[j] # "held"
    BY DEF Books, Pictures
  <2> QED
    BY <2>1, <2>2 DEF Books, Boxes, FreedOnceButForBoxes, FramesBalanced
<1> QED
  BY <1>1, Invariance, BooksAreKept, PTL

(* Detections reach a client in the order of its frames: when one is fed,  *)
(* every earlier frame has been refused or answered.                       *)
THEOREM ResultsInOrder == Spec => []FedInOrder
<1>1. Books => FedInOrder
  <2> SUFFICES ASSUME Books, NEW c \in Clients, NEW n \in 1..MaxFrames, NEW m \in 1..(n - 1),
                      answer[<<c, n>>] \in {<<"empty">>, <<"boxes">>}
               PROVE  Settled(<<c, m>>)
    BY DEF FedInOrder
  <2>1. m \in 1..MaxFrames /\ m < n
    BY LimitAssumption
  <2>2. <<c, n>> \in Jobs /\ <<c, m>> \in Before(<<c, n>>)
    BY <2>1 DEF Jobs, Before
  <2> QED
    BY <2>2 DEF Books, Ordered
<1> QED
  BY <1>1, BooksAreKept, PTL

-----------------------------------------------------------------------------
(* The refinement of DetectionContract.                                    *)

(* The phase of a job from its flags.                                      *)
LEMMA PhaseFacts ==
  ASSUME IInv, NEW j \in Jobs
  PROVE  /\ answer[j] # <<>> => PhaseOf(j) = "answered"
         /\ ret[j] = "refused" => PhaseOf(j) = "refused"
         /\ cb[j] => PhaseOf(j) = "pending"
         /\ answer[j] = <<>> /\ ret[j] # "refused" /\ ~cb[j] =>
              PhaseOf(j) = IF j[2] <= sent[j[1]] THEN "asked" ELSE "unsent"
<1>1. /\ cb[j] => answer[j] = <<>> /\ ret[j] # "refused"
      /\ ret[j] = "refused" => answer[j] = <<>>
  BY DEF IInv, JobInv, JobOK
<1>2. cb[j] \in BOOLEAN /\ j[2] \in Int /\ sent[j[1]] \in Int
  BY DEF IInv, TypeOK, Jobs
<1> QED
  BY <1>1, <1>2 DEF PhaseOf

(* A job whose flags stay keeps its phase.                                 *)
LEMMA PhaseKept ==
  ASSUME NEW j \in Jobs, answer'[j] = answer[j], cb'[j] = cb[j],
         ret'[j] = "refused" <=> ret[j] = "refused",
         j[2] <= sent'[j[1]] <=> j[2] <= sent[j[1]]
  PROVE  PhaseOf(j)' = PhaseOf(j)
  BY DEF PhaseOf

(* One job moves in the abstract service.                                  *)
LEMMA MoveFacts ==
  ASSUME NEW k \in Jobs, NEW from, NEW to, own' = own, PhaseOf(k) \in from, PhaseOf(k)' = to,
         \A j \in Jobs : j # k => PhaseOf(j)' = PhaseOf(j)
  PROVE  Contract!Move(k, from, to)
<1> DEFINE f == [j \in Jobs |-> PhaseOf(j)]
<1>1. f[k] \in from
  OBVIOUS
<1>2. f' = [f EXCEPT ![k] = to]
  OBVIOUS
<1>3. UNCHANGED {c \in Clients : own[c] = "gone"}
  OBVIOUS
<1> QED
  BY <1>1, <1>2, <1>3 DEF Contract!Move

(* As many answers are owed as the list has nodes, at the most.            *)
LEMMA PendingFits ==
  ASSUME IInv, main = "running", HasRoom
  PROVE  Cardinality({j \in Jobs : PhaseOf(j) = "pending"}) < Limit
<1> DEFINE P == {j \in Jobs : PhaseOf(j) = "pending"}
           Q == {queue[i] : i \in 1..Len(queue)}
           f == [i \in 1..Len(queue) |-> queue[i]]
<1>1. Len(queue) \in Nat /\ Len(queue) < Limit
  BY DEF IInv, TypeOK, HasRoom
<1>2. P \in SUBSET Q
  <2> SUFFICES ASSUME NEW j \in Jobs, PhaseOf(j) = "pending" PROVE j \in Q
    OBVIOUS
  <2>1. cb[j]
    BY DEF PhaseOf
  <2>2. InQueue(j)
    BY <2>1 DEF IInv, JobInv, JobOK
  <2> QED
    BY <2>2 DEF InQueue
<1>3. f \in Surjection(1..Len(queue), Q)
  BY DEF Surjection
<1>4. IsFiniteSet(1..Len(queue)) /\ Cardinality(1..Len(queue)) = Len(queue)
  BY <1>1, FS_Interval
<1>5. IsFiniteSet(Q) /\ Cardinality(Q) <= Len(queue)
  BY <1>3, <1>4, FS_Surjection
<1>6. IsFiniteSet(P) /\ Cardinality(P) <= Cardinality(Q)
  BY <1>2, <1>5, FS_Subset
<1>7. Cardinality(P) \in Nat /\ Cardinality(Q) \in Nat
  BY <1>5, <1>6, FS_CardinalityType
<1>8. Limit \in Nat
  BY LimitAssumption
<1> QED
  BY <1>1, <1>5, <1>6, <1>7, <1>8

(* The abstract service starts in its initial state.                       *)
LEMMA InitMap == Init => Contract!Init
<1> SUFFICES ASSUME Init PROVE Contract!Init
  OBVIOUS
<1>1. ASSUME NEW j \in Jobs PROVE PhaseOf(j) = "unsent"
  <2>1. j[1] \in Clients /\ j[2] \in Nat \ {0}
    BY LimitAssumption DEF Jobs
  <2>2. sent[j[1]] = 0 /\ answer[j] = <<>> /\ ret[j] = "none" /\ cb[j] = FALSE
    BY <2>1 DEF Init
  <2>3. ~(j[2] <= sent[j[1]])
    BY <2>1, <2>2
  <2> QED
    BY <2>2, <2>3 DEF PhaseOf
<1>2. {c \in Clients : own[c] = "gone"} = {}
  BY DEF Init
<1> QED
  BY <1>1, <1>2 DEF Contract!Init, Contract!Jobs, Jobs

(* A call of the callback is Answer, to a client that is still there.      *)
LEMMA AnswerMaps ==
  ASSUME IInv, IInv', NEW k \in Jobs, NEW r \in Results, Answering(k, r),
         own' = own
  PROVE  Contract!Next
<1>0. /\ answer \in [Jobs -> Seq(Results)] /\ cb \in [Jobs -> BOOLEAN] /\ k[1] \in Clients
      /\ own \in [Clients -> OwnerPcs]
  BY DEF IInv, TypeOK, Jobs
<1>1. PhaseOf(k) = "pending"
  BY PhaseFacts DEF Answering
<1>2. PhaseOf(k)' = "answered"
  <2>1. answer'[k] = <<r>> /\ <<r>> # <<>>
    BY <1>0 DEF Answering
  <2> QED
    BY <2>1 DEF PhaseOf
<1>3. ASSUME NEW j \in Jobs, j # k PROVE PhaseOf(j)' = PhaseOf(j)
  BY <1>0, <1>3, PhaseKept DEF Answering
<1>4. Contract!Move(k, {"pending"}, "answered")
  BY <1>1, <1>2, <1>3, MoveFacts
<1>5. own[k[1]] # "gone" \/ k[1] \in DecThreads
  BY <1>0 DEF Answering, IInv, CancelInv, NoCallbackAfterCancel
<1> QED
  BY <1>4, <1>5 DEF Contract!Next, Contract!Answer, Contract!Jobs, Jobs

(* The end of queueTask without the frame is Refuse.                       *)
LEMMA RefuseMaps ==
  ASSUME IInv, NEW c \in Clients, pc[c] \in {"clone", "push"}, Refuse(c, CurrentJob(c)),
         UNCHANGED <<answer, cb, sent, own>>
  PROVE  Contract!Next
<1> PICK k \in Jobs : k = CurrentJob(c)
  BY CurrentJobIsJob DEF IInv
<1>0. /\ ret \in [Jobs -> {"none", "queued", "refused"}] /\ k[1] = c /\ k[2] = sent[c]
      /\ sent[c] \in Int
  BY DEF IInv, TypeOK, CurrentJob
<1>1. answer[k] = <<>> /\ ret[k] = "none" /\ ~cb[k] /\ own[c] # "gone"
  BY <1>0 DEF IInv, JobInv, JobOK, SubmitInv
<1>2. PhaseOf(k) = "asked"
  BY <1>0, <1>1, PhaseFacts
<1>3. PhaseOf(k)' = "refused"
  BY <1>0, <1>1 DEF PhaseOf, Refuse
<1>4. ASSUME NEW j \in Jobs, j # k PROVE PhaseOf(j)' = PhaseOf(j)
  BY <1>0, <1>4, PhaseKept DEF Refuse
<1>5. Contract!Move(k, {"unsent", "asked"}, "refused")
  BY <1>2, <1>3, <1>4, MoveFacts
<1> QED
  BY <1>0, <1>1, <1>5 DEF Contract!Next, Contract!Refuse, Contract!Jobs, Jobs

(* Offering a frame is Ask, or Refuse when the list is full.               *)
LEMMA OfferMaps ==
  ASSUME IInv, NEW c \in Clients, PushCheck(c)
  PROVE  Contract!Next
<1>j. <<c, sent[c] + 1>> \in Jobs
  BY LimitAssumption, SMT DEF PushCheck, IInv, TypeOK, Jobs
<1> PICK k \in Jobs : k = <<c, sent[c] + 1>>
  BY <1>j
<1>0. /\ ret \in [Jobs -> {"none", "queued", "refused"}] /\ sent \in [Clients -> 0..MaxFrames]
      /\ sent[c] \in Int
  BY DEF IInv, TypeOK
<1>1. /\ UNCHANGED <<answer, cb, own>> /\ sent' = [sent EXCEPT ![c] = sent[c] + 1]
      /\ ret' = ret \/ ret' = [ret EXCEPT ![k] = "refused"]
      /\ sent[c] < MaxFrames
  BY DEF PushCheck, Refuse, ownerVars
<1>2. k[1] = c /\ k[2] = sent[c] + 1
  OBVIOUS
<1>3. own[c] # "gone"
  BY DEF PushCheck, MayDecode
<1>4. k[2] > sent[k[1]] /\ ~(k[2] <= sent[k[1]]) /\ k[2] <= sent'[k[1]]
  BY <1>0, <1>1, <1>2
<1>5. answer[k] = <<>> /\ ret[k] = "none" /\ ~cb[k]
  BY <1>2, <1>4 DEF IInv, JobInv, JobOK
<1>6. PhaseOf(k) = "unsent"
  BY <1>2, <1>4, <1>5, PhaseFacts
<1>7. ASSUME NEW j \in Jobs, j # k PROVE PhaseOf(j)' = PhaseOf(j)
  <2>1. ret'[j] = ret[j]
    BY <1>0, <1>1, <1>7
  <2>2. j[2] <= sent'[j[1]] <=> j[2] <= sent[j[1]]
    <3>1. CASE j[1] = c
      <4>1. j[2] # sent[c] + 1 /\ j[2] \in Int
        BY <1>7, <3>1 DEF Jobs
      <4>2. sent'[c] = sent[c] + 1
        BY <1>0, <1>1
      <4> QED
        BY <1>0, <3>1, <4>1, <4>2
    <3>2. CASE j[1] # c
      BY <1>0, <1>1, <3>2 DEF Jobs
    <3> QED
      BY <3>1, <3>2
  <2> QED
    BY <1>1, <2>1, <2>2, PhaseKept
<1>8. PhaseOf(k)' = IF ret'[k] = "refused" THEN "refused" ELSE "asked"
  BY <1>1, <1>4, <1>5 DEF PhaseOf
<1>9. CASE ret'[k] = "refused"
  <2>1. Contract!Move(k, {"unsent", "asked"}, "refused")
    BY <1>1, <1>2, <1>6, <1>7, <1>8, <1>9, MoveFacts
  <2> QED
    BY <1>2, <1>3, <2>1 DEF Contract!Next, Contract!Refuse, Contract!Jobs, Jobs
<1>10. CASE ret'[k] # "refused"
  <2>1. Contract!Move(k, {"unsent"}, "asked")
    BY <1>1, <1>2, <1>6, <1>7, <1>8, <1>10, MoveFacts
  <2> QED
    BY <1>2, <1>3, <2>1 DEF Contract!Next, Contract!Ask, Contract!Jobs, Jobs
<1> QED
  BY <1>9, <1>10

(* A node that enters the list is Accept: there was room for one more.     *)
LEMMA PushMaps ==
  ASSUME IInv, NEW c \in Clients, Push(c)
  PROVE  Contract!Next
<1> PICK k \in Jobs : k = CurrentJob(c)
  BY CurrentJobIsJob DEF IInv, Push
<1>0. /\ ret \in [Jobs -> {"none", "queued", "refused"}] /\ cb \in [Jobs -> BOOLEAN]
      /\ k[1] = c /\ k[2] = sent[c] /\ sent[c] \in Int
  BY DEF IInv, TypeOK, CurrentJob
<1>1. answer[k] = <<>> /\ ret[k] = "none" /\ ~cb[k] /\ own[c] # "gone" /\ main = "running"
  BY <1>0 DEF IInv, JobInv, JobOK, SubmitInv, Push
<1>2. /\ UNCHANGED <<answer, sent, own>> /\ cb' = [cb EXCEPT ![k] = TRUE]
      /\ ret' = ret \/ ret' = [ret EXCEPT ![k] = "queued"]
  BY DEF Push, Accept, ownerVars
<1>3. PhaseOf(k) = "asked"
  BY <1>0, <1>1, PhaseFacts
<1>4. PhaseOf(k)' = "pending"
  BY <1>0, <1>1, <1>2 DEF PhaseOf
<1>5. ASSUME NEW j \in Jobs, j # k PROVE PhaseOf(j)' = PhaseOf(j)
  BY <1>0, <1>2, <1>5, PhaseKept
<1>6. Contract!Move(k, {"asked"}, "pending")
  BY <1>0, <1>2, <1>3, <1>4, <1>5, MoveFacts
<1>7. Contract!Cardinality(Contract!Pending) < Limit
  <2>1. {j \in Jobs : [i \in Jobs |-> PhaseOf(i)][j] = "pending"}
          = {j \in Jobs : PhaseOf(j) = "pending"}
    OBVIOUS
  <2>2. Cardinality({j \in Jobs : PhaseOf(j) = "pending"}) < Limit
    BY <1>1, PendingFits DEF Push
  <2>3. \A S : Contract!Cardinality(S) = Cardinality(S)
    BY DEF Contract!Cardinality, Cardinality
  <2> QED
    BY <2>1, <2>2, <2>3 DEF Contract!Pending, Contract!Jobs, Jobs
<1> QED
  BY <1>0, <1>1, <1>6, <1>7 DEF Contract!Next, Contract!Accept, Contract!Jobs, Jobs

(* A client that is destroyed owes no answer and asks for nothing.         *)
LEMMA LeaveMaps ==
  ASSUME IInv, Through, NEW c \in Clients, Destroyed(c)
  PROVE  Contract!Next
<1>0. own \in [Clients -> OwnerPcs] /\ own[c] = "cancelled" /\ pc[c] = "idle"
      /\ own' = [own EXCEPT ![c] = "gone"]
      /\ UNCHANGED <<answer, ret, cb, sent>>
  BY DEF Destroyed, clientVars, nodeVars, IInv, TypeOK
<1>1. ASSUME NEW j \in Jobs, j[1] = c
      PROVE  PhaseOf(j) # "asked" /\ (c \notin DecThreads => PhaseOf(j) # "pending")
  <2>1. c \notin DecThreads => ~cb[j]
    BY <1>0, <1>1 DEF IInv, CancelInv, NoCallbackAfterCancel
  <2>2. j[2] <= sent[c] => ret[j] # "none"
    <3>1. j[2] \in Int /\ sent[c] \in Int
      BY DEF IInv, TypeOK, Jobs
    <3> QED
      BY <1>0, <1>1, <3>1 DEF Through
  <2>3. cb[j] => PhaseOf(j) = "pending" /\ ret[j] = "queued"
    BY <1>0, <1>1, PhaseFacts DEF IInv, JobInv, JobOK
  <2>4. ret[j] = "queued" /\ answer[j] = <<>> => cb[j]
    BY DEF IInv, JobInv, JobOK
  <2>r. ret[j] \in {"none", "queued", "refused"}
    BY DEF IInv, TypeOK
  <2>5. CASE answer[j] # <<>>
    BY <2>5, PhaseFacts
  <2>6. CASE answer[j] = <<>> /\ ret[j] = "refused"
    BY <2>6, PhaseFacts
  <2>7. CASE answer[j] = <<>> /\ ret[j] = "none"
    BY <1>1, <2>2, <2>3, <2>7, PhaseFacts
  <2> QED
    BY <2>1, <2>3, <2>4, <2>r, <2>5, <2>6, <2>7
<1>2. [j \in Jobs |-> PhaseOf(j)]' = [j \in Jobs |-> PhaseOf(j)]
  BY <1>0, PhaseKept
<1>3. {d \in Clients : own[d] = "gone"}' = {d \in Clients : own[d] = "gone"} \cup {c}
  BY <1>0
<1>4. Contract!Leave(c)
  BY <1>0, <1>1, <1>2, <1>3 DEF Contract!Leave, Contract!Jobs, Jobs
<1> QED
  BY <1>4 DEF Contract!Next

(* What is not a step of the abstract service changes nothing it has.      *)
LEMMA StutterMaps ==
  ASSUME UNCHANGED <<answer, cb, sent>>,
         \A j \in Jobs : ret'[j] = "refused" <=> ret[j] = "refused",
         \A c \in Clients : own'[c] = "gone" <=> own[c] = "gone"
  PROVE  /\ [j \in Jobs |-> PhaseOf(j)]' = [j \in Jobs |-> PhaseOf(j)]
         /\ {c \in Clients : own[c] = "gone"}' = {c \in Clients : own[c] = "gone"}
  BY PhaseKept

(* Every step of the threads is a step of the abstract service or a        *)
(* stutter.                                                                *)
LEMMA StepMap ==
  ASSUME IInv, IInv', Through, [Next]_vars
  PROVE  [Contract!Next]_<<[j \in Jobs |-> PhaseOf(j)], {c \in Clients : own[c] = "gone"}>>
<1> DEFINE view == <<[j \in Jobs |-> PhaseOf(j)], {c \in Clients : own[c] = "gone"}>>
<1> SUFFICES Contract!Next \/ view' = view
  OBVIOUS
<1>1. CASE UNCHANGED <<answer, cb, sent, ret, own>>
  BY <1>1, StutterMaps
<1>2. CASE Fetch \/ Claim \/ Infer \/ Deliver \/ Relock \/ TouchFreedNode \/ ExitClear \/ ExitJoin
  BY <1>1, <1>2
  DEF Fetch, Claim, Infer, Deliver, Relock, TouchFreedNode, ExitClear, ExitJoin, clientVars,
      nodeVars, ownerVars
<1>3. CASE UNCHANGED vars
  BY <1>1, <1>3 DEF vars, clientVars, nodeVars, ownerVars
<1>4. CASE Prepare \/ Callback
  <2>1. UNCHANGED <<ret, sent, pc, own>> /\ cur \in Jobs
    BY <1>4 DEF Prepare, Callback, clientVars, ownerVars, IInv, TypeOK
  <2>2. \/ UNCHANGED <<answer, cb>>
        \/ \E r \in Results : cb[cur] /\ Call(cur, r)
    BY <1>4 DEF Prepare, Callback, Results, IInv, WorkerInv
  <2> QED
    BY <1>1, <2>1, <2>2, CallAnswers, AnswerMaps
<1>5. ASSUME NEW c \in Clients, CancelNode(c) PROVE Contract!Next \/ view' = view
  <2>1. queue[cursor[c]] \in Jobs
    BY <1>5, SMT DEF CancelNode, IInv, TypeOK
  <2>2. UNCHANGED <<ret, sent, pc, own>>
        /\ (UNCHANGED <<answer, cb>>
            \/ (cb[queue[cursor[c]]] /\ Call(queue[cursor[c]], "error")))
    BY <1>5 DEF CancelNode, clientVars
  <2> QED
    BY <1>1, <2>1, <2>2, CallAnswers, AnswerMaps DEF Results
<1>6. ASSUME NEW c \in Clients, CancelCall(c) \/ CancelBegin(c) \/ CancelSkip(c) \/ CancelEnd(c)
      PROVE  view' = view
  <2>1. UNCHANGED <<answer, cb, sent, ret>>
    BY <1>6 DEF CancelCall, CancelBegin, CancelSkip, CancelEnd, clientVars, nodeVars
  <2>2. \A d \in Clients : own'[d] = "gone" <=> own[d] = "gone"
    BY <1>6 DEF CancelCall, CancelBegin, CancelSkip, CancelEnd, IInv, TypeOK
  <2> QED
    BY <2>1, <2>2, StutterMaps
<1>7. ASSUME NEW c \in Clients, CloneFrame(c) \/ PushFull(c)
      PROVE  Contract!Next \/ view' = view
  <2>1. /\ pc[c] \in {"clone", "push"} /\ UNCHANGED <<answer, cb, sent, own>>
        /\ Refuse(c, CurrentJob(c)) \/ UNCHANGED ret
    BY <1>7 DEF CloneFrame, PushFull, ownerVars
  <2> QED
    BY <1>1, <2>1, RefuseMaps
<1>8. ASSUME NEW c \in Clients, PushJoin(c) PROVE view' = view
  <2>1. /\ UNCHANGED <<answer, cb, sent, own>> /\ pc[c] # "idle"
        /\ ret' = [ret EXCEPT ![CurrentJob(c)] = "queued"]
    BY <1>8 DEF PushJoin, Accept, nodeVars, ownerVars
  <2>2. CurrentJob(c) \in Jobs /\ CurrentJob(c)[1] = c
    BY <2>1, CurrentJobIsJob DEF IInv, CurrentJob
  <2>3. ret[CurrentJob(c)] = "none"
    BY <2>1, <2>2 DEF IInv, JobInv, JobOK
  <2>4. \A j \in Jobs : ret'[j] = "refused" <=> ret[j] = "refused"
    BY <2>1, <2>2, <2>3 DEF IInv, TypeOK
  <2> QED
    BY <2>1, <2>4, StutterMaps
<1> QED
  BY <1>2, <1>3, <1>4, <1>5, <1>6, <1>7, <1>8, OfferMaps, PushMaps, LeaveMaps
  DEF Next, WorkerStep, SubmitStep, CancelStep, Terminated

(* The threads, the locks and the list implement the promise of            *)
(* DetectionContract, for any clients, any bound of the list and any       *)
(* number of frames.                                                       *)
THEOREM Refinement == Spec => ImplementsContract
<1>1. Init => Contract!Init
  BY InitMap
<1>2. IInv /\ IInv' /\ Books /\ [Next]_vars =>
        [Contract!Next]_<<[j \in Jobs |-> PhaseOf(j)], {c \in Clients : own[c] = "gone"}>>
  BY StepMap DEF Books
<1> QED
  BY <1>1, <1>2, Invariance, BooksAreKept, PTL DEF Spec, ImplementsContract, Contract!Spec
=============================================================================
