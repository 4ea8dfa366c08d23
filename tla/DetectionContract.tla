-------------------------- MODULE DetectionContract --------------------------
(***************************************************************************)
(* What the detection service promises its clients, without threads, locks *)
(* or a list: every frame that is asked for is refused or becomes pending, *)
(* at most Limit are pending at a time, no pending one is answered twice,  *)
(* and a client leaves only when none of its frames is pending, so that no *)
(* answer ever reaches a client that is gone.  The last is not promised to *)
(* a client that asks on a thread of its own (DecThreads): it may ask once *)
(* more while the thread that owns it has already cancelled.               *)
(***************************************************************************)
EXTENDS Naturals, FiniteSets

CONSTANTS Clients, DecThreads, Limit, MaxFrames

Jobs == Clients \X (1..MaxFrames)

VARIABLES phase,  \* the life of each job
          left    \* the clients that are gone

Phases == {"unsent", "asked", "refused", "pending", "answered"}

Init == phase = [j \in Jobs |-> "unsent"] /\ left = {}

Pending == {j \in Jobs : phase[j] = "pending"}

Move(j, from, to) ==
  /\ phase[j] \in from
  /\ phase' = [phase EXCEPT ![j] = to]
  /\ UNCHANGED left

Ask(j) == j[1] \notin left /\ Move(j, {"unsent"}, "asked")
Refuse(j) == j[1] \notin left /\ Move(j, {"unsent", "asked"}, "refused")
Accept(j) == j[1] \notin left /\ Cardinality(Pending) < Limit /\ Move(j, {"asked"}, "pending")
Answer(j) == j[1] \notin (left \ DecThreads) /\ Move(j, {"pending"}, "answered")

Leave(c) ==
  /\ c \notin left
  /\ \A j \in Jobs : j[1] = c => phase[j] # "asked"
  /\ \A j \in Jobs : j[1] = c /\ c \notin DecThreads => phase[j] # "pending"
  /\ left' = left \cup {c}
  /\ UNCHANGED phase

Next == \/ \E j \in Jobs : Ask(j) \/ Refuse(j) \/ Accept(j) \/ Answer(j)
        \/ \E c \in Clients : Leave(c)

Spec == Init /\ [][Next]_<<phase, left>>

(* The liveness half: no answer is owed for ever.                          *)
Served == \A j \in Jobs :
            j[1] \notin DecThreads => (phase[j] = "pending" ~> phase[j] = "answered")
=============================================================================
