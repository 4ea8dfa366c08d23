------------------------- MODULE DetectionInvariant -------------------------
(***************************************************************************)
(* The inductive invariant behind the theorems of DetectionServiceProofs:  *)
(* what the two locks exclude, what the worker knows of the list, what a   *)
(* job's flags say together, and what a cancel has already settled.        *)
(***************************************************************************)
EXTENDS DetectionService

(* mtx_ has one holder at a time.                                          *)
LockInv ==
  /\ \A c, d \in Clients : pc[c] = "join" /\ pc[d] = "join" => c = d
  /\ \A c, d \in Clients : own[c] = "cancelling" /\ own[d] = "cancelling" => c = d
  /\ \A c, d \in Clients : ~(pc[c] = "join" /\ own[d] = "cancelling")

(* A client inside queueTask works on its last frame; its memory lives.    *)
SubmitInv ==
  /\ \A c \in Clients : pc[c] # "idle" => sent[c] \in 1..MaxFrames /\ own[c] # "gone"
  /\ \A c \in Clients : c \notin DecThreads /\ own[c] # "alive" => pc[c] = "idle"
  /\ main # "running" => \A c \in Clients : own[c] = "gone"

(* Until the process exits the worker executes the head of the list, and   *)
(* without a worker the list is empty, except while a push joins.          *)
WorkerInv ==
  /\ \A c \in Clients : pc[c] = "join" =>
       worker = "exit" /\ queue = <<CurrentJob(c)>> /\ cb[CurrentJob(c)]
  /\ main = "running" =>
       /\ worker # "crashed"
       /\ worker \in {"none", "exit"} /\ queue # <<>> => \E c \in Clients : pc[c] = "join"
       /\ worker \notin {"none", "exit"} => queue # <<>>
       /\ worker \notin {"none", "exit", "fetch"} => cur = Head(queue)
       /\ worker = "relock" => ~cb[cur]
  /\ worker \in {"prepare", "callback"} => cb[cur]
  /\ main # "running" => queue = <<>>

(* The node's callback, the callback's calls and queueTask's result.       *)
JobOK(j) ==
  /\ Len(answer[j]) <= 1
  /\ cb[j] => answer[j] = <<>>
  /\ cb[j] => ret[j] = "queued" \/ (j = CurrentJob(j[1]) /\ pc[j[1]] = "join")
  /\ cb[j] /\ main = "running" => InQueue(j)
  /\ InQueue(j) => ret[j] = "queued" \/ (j = CurrentJob(j[1]) /\ pc[j[1]] = "join")
  /\ ret[j] = "refused" => answer[j] = <<>>
  /\ ret[j] = "queued" /\ answer[j] = <<>> => cb[j]
  /\ j[2] > sent[j[1]] => ret[j] = "none" /\ answer[j] = <<>> /\ ~cb[j]
  /\ j = CurrentJob(j[1]) /\ pc[j[1]] # "idle" =>
       ret[j] = "none" /\ answer[j] = <<>> /\ (pc[j[1]] # "join" => ~cb[j])

JobInv == \A j \in Jobs : JobOK(j)

(* A node carries the id its client will cancel with.                      *)
IdInv ==
  /\ \A j \in Jobs : ret[j] = "queued" => sid[j] >= 0 /\ sid[j] = detectId[j[1]]
  /\ \A c \in Clients : pc[c] \in {"push", "join"} =>
       sid[CurrentJob(c)] >= 0 /\ (detectId[c] >= 0 => sid[CurrentJob(c)] = detectId[c])

(* The nodes a cancel has passed are settled, and after it all are.        *)
CancelInv ==
  /\ \A c \in Clients : own[c] = "cancelling" /\ c \notin DecThreads =>
       \A i \in 1..Len(queue) : i < cursor[c] /\ queue[i][1] = c => ~cb[queue[i]]
  /\ NoCallbackAfterCancel

IInv == TypeOK /\ LockInv /\ SubmitInv /\ WorkerInv /\ JobInv /\ IdInv /\ CancelInv
=============================================================================
