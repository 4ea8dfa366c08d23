--------------------------- MODULE EventPumpProofs ---------------------------
(***************************************************************************)
(* Proofs about EventPump for every size of the ring, every number of      *)
(* properties, events, requests and hooks, whatever the rendering changes  *)
(* and whatever the page has registered: the type invariant, RepliesKept,  *)
(* LossIsReported, NoLostWakeup, HookSeesProperties and, of the values     *)
(* themselves, PageHasValues.                                              *)
(*                                                                         *)
(* NoLostWakeup needs the most: its premise visiting = 0 hides what        *)
(* happens while the core is reading properties.  There, something         *)
(* deliverable without a task is covered by newProps, which will make the  *)
(* core wake the client when it is done; and a hook that could become      *)
(* deliverable because a read found nothing new cannot be one that the     *)
(* pump has not yet looked at, because such a hook still has its task      *)
(* (Woken).                                                                *)
(*                                                                         *)
(* The last two rest on Fresh: what a stamp of a property says of the      *)
(* value it stands beside.  For what the rendering changes it says less.   *)
(***************************************************************************)
EXTENDS EventPump, FiniteSetTheorems, WellFoundedInduction, TLAPS

-----------------------------------------------------------------------------
(* The ring.                                                               *)

RingEvents == ({"sent"} \X (1..MaxSent)) \cup ({"reply"} \X Calls) \cup ({"hook"} \X Nat)
Replied(n) == {<<"reply", n>>}
HookEvents == {"hook"} \X Nat

Holds(s, E) == \E i \in DOMAIN s : s[i] \in E
Once(s, E) == \A i, k \in DOMAIN s : s[i] \in E /\ s[k] \in E => i = k

(* What is left of a kind of event when the first one is taken.            *)
LEMMA TakeEvent ==
  ASSUME NEW S, NEW s \in Seq(S), s # <<>>, NEW E
  PROVE  /\ Tail(s) \in Seq(S) /\ Len(Tail(s)) = Len(s) - 1 /\ Head(s) \in S
         /\ Holds(Tail(s), E) => Holds(s, E)
         /\ Head(s) \in E => Holds(s, E)
         /\ Head(s) \notin E => (Holds(Tail(s), E) <=> Holds(s, E))
         /\ Once(s, E) => Once(Tail(s), E)
         /\ Head(s) \in E /\ Once(s, E) => ~Holds(Tail(s), E)
<1>1. /\ Len(s) \in Nat \ {0} /\ DOMAIN s = 1..Len(s)
      /\ Tail(s) \in Seq(S) /\ Head(s) = s[1] /\ Head(s) \in S
      /\ Len(Tail(s)) = Len(s) - 1 /\ DOMAIN Tail(s) = 1..(Len(s) - 1)
      /\ \A i \in 1..(Len(s) - 1) : Tail(s)[i] = s[i + 1]
  OBVIOUS
<1>2. 1 \in DOMAIN s
      /\ \A i \in DOMAIN s : i = 1 \/ (i - 1 \in DOMAIN Tail(s) /\ Tail(s)[i - 1] = s[i])
  BY <1>1
<1>3. \A i \in DOMAIN Tail(s) : i + 1 \in DOMAIN s /\ i + 1 # 1 /\ Tail(s)[i] = s[i + 1]
  BY <1>1
<1>4. /\ Holds(Tail(s), E) => Holds(s, E)
      /\ Head(s) \in E => Holds(s, E)
  BY <1>1, <1>2, <1>3 DEF Holds
<1>5. Head(s) \notin E => (Holds(Tail(s), E) <=> Holds(s, E))
  BY <1>1, <1>2, <1>3 DEF Holds
<1>6. Once(s, E) => Once(Tail(s), E)
  <2> SUFFICES ASSUME Once(s, E), NEW i \in DOMAIN Tail(s), NEW k \in DOMAIN Tail(s),
                      Tail(s)[i] \in E, Tail(s)[k] \in E
               PROVE  i = k
    BY DEF Once
  <2>1. i + 1 = k + 1
    BY <1>3 DEF Once
  <2> QED
    BY <2>1, <1>1
<1>7. Head(s) \in E /\ Once(s, E) => ~Holds(Tail(s), E)
  <2> SUFFICES ASSUME Head(s) \in E, Once(s, E), NEW i \in DOMAIN Tail(s), Tail(s)[i] \in E
               PROVE  FALSE
    BY DEF Holds
  <2>1. 1 \in DOMAIN s /\ s[1] \in E /\ i + 1 \in DOMAIN s /\ s[i + 1] \in E /\ i + 1 # 1
    BY <1>1, <1>2, <1>3
  <2> QED
    BY <2>1 DEF Once
<1> QED
  BY <1>1, <1>4, <1>5, <1>6, <1>7

(* What a new event adds to its kind.                                      *)
LEMMA AddEvent ==
  ASSUME NEW S, NEW s \in Seq(S), NEW e \in S, NEW E
  PROVE  /\ Append(s, e) \in Seq(S) /\ Len(Append(s, e)) = Len(s) + 1
         /\ s # <<>> => Head(Append(s, e)) = Head(s)
         /\ s = <<>> => Head(Append(s, e)) = e
         /\ Append(s, e) # <<>>
         /\ Holds(Append(s, e), E) <=> Holds(s, E) \/ e \in E
         /\ Once(s, E) /\ (e \notin E \/ ~Holds(s, E)) => Once(Append(s, e), E)
<1>1. /\ Len(s) \in Nat /\ DOMAIN s = 1..Len(s)
      /\ Append(s, e) \in Seq(S) /\ Len(Append(s, e)) = Len(s) + 1
      /\ DOMAIN Append(s, e) = 1..(Len(s) + 1)
      /\ \A i \in 1..Len(s) : Append(s, e)[i] = s[i]
      /\ Append(s, e)[Len(s) + 1] = e
  OBVIOUS
<1>2. \A i \in DOMAIN Append(s, e) :
        \/ i \in DOMAIN s /\ Append(s, e)[i] = s[i]
        \/ i = Len(s) + 1 /\ Append(s, e)[i] = e
  BY <1>1
<1>3. \A i \in DOMAIN s : i \in DOMAIN Append(s, e) /\ Append(s, e)[i] = s[i]
  BY <1>1
<1>4. Len(s) + 1 \in DOMAIN Append(s, e)
  BY <1>1
<1>5. Holds(Append(s, e), E) <=> Holds(s, E) \/ e \in E
  BY <1>1, <1>2, <1>3, <1>4 DEF Holds
<1>6. Once(s, E) /\ (e \notin E \/ ~Holds(s, E)) => Once(Append(s, e), E)
  BY <1>2 DEF Holds, Once
<1>7. /\ s # <<>> => Head(Append(s, e)) = Head(s)
      /\ s = <<>> => Head(Append(s, e)) = e
      /\ Append(s, e) # <<>>
  BY <1>1
<1> QED
  BY <1>1, <1>5, <1>6, <1>7

(* The events by themselves.                                               *)
LEMMA EventFacts ==
  ASSUME NEW e \in RingEvents
  PROVE  /\ e[1] \in RingKinds /\ e[2] \in Nat /\ e = <<e[1], e[2]>>
         /\ e[1] = "sent" => e[2] \in 1..MaxSent
         /\ e[1] = "reply" => e[2] \in Calls
         /\ e \in HookEvents <=> e[1] = "hook"
         /\ \A n : e \in Replied(n) <=> e[1] = "reply" /\ e[2] = n
BY BoundsAssumption DEF RingEvents, RingKinds, Calls, HookEvents, Replied

(* The events that are produced.                                           *)
LEMMA NewEvents ==
  /\ \A n \in 1..MaxSent : <<"sent", n>> \in RingEvents /\ <<"sent", n>> \notin HookEvents
  /\ \A n \in Calls : <<"reply", n>> \in RingEvents /\ <<"reply", n>> \notin HookEvents
  /\ \A n \in Nat : <<"hook", n>> \in RingEvents /\ <<"hook", n>> \in HookEvents
  /\ \A m, n : /\ <<"sent", m>> \notin Replied(n) /\ <<"hook", m>> \notin Replied(n)
               /\ <<"reply", m>> \in Replied(n) <=> m = n
BY DEF RingEvents, HookEvents, Replied

-----------------------------------------------------------------------------
(* The properties.                                                         *)

(* Sets of naturals have a least element, so the round robin finds one.    *)
LEMMA LeastExists ==
  ASSUME NEW S \in SUBSET Nat, S # {}
  PROVE  Least(S) \in S
<1> DEFINE R == OpToRel(<, Nat)
<1>1. IsWellFoundedOn(R, Nat)
  BY NatLessThanWellFounded
<1>2. \A x, y \in Nat : y < x => <<y, x>> \in R
  <2> SUFFICES ASSUME NEW x \in Nat, NEW y \in Nat, y < x PROVE <<y, x>> \in R
    OBVIOUS
  <2>1. <<y, x>> \in Nat \X Nat /\ <<y, x>>[1] = y /\ <<y, x>>[2] = x
    OBVIOUS
  <2> QED
    BY <2>1 DEF OpToRel
<1> HIDE DEF R
<1>3. PICK x \in S : \A y \in S : ~(<<y, x>> \in R)
  BY <1>1, WFMin
<1>4. \A q \in S : x <= q
  <2> SUFFICES ASSUME NEW q \in S, q < x PROVE FALSE
    OBVIOUS
  <2> QED
    BY <1>2, <1>3
<1> QED
  BY <1>4 DEF Least

-----------------------------------------------------------------------------
(* The inductive invariant.                                                *)

Typed ==
  /\ events \in Seq(RingEvents)
  /\ reserved \in Nat /\ wakeups \in Nat
  /\ choked \in BOOLEAN /\ needWakeup \in BOOLEAN /\ hookPending \in BOOLEAN
  /\ newProps \in BOOLEAN /\ pendingProps \in BOOLEAN
  /\ hookState \in {"none", "sent", "posted"}
  /\ pump \in {"idle", "scan", "wait"}
  /\ value \in [Props -> Values]
  /\ read \in [Props -> Values \cup {-1}] /\ page \in [Props -> Values \cup {-1}]
  /\ changeTs \in [Props -> Nat] /\ valueTs \in [Props -> Nat]
  /\ retTs \in [Props -> Nat] /\ hookMark \in [Props -> Nat]
  /\ readAt \in [Props -> Nat] /\ knownAt \in [Props -> Nat]
  /\ waiting \in [Props -> BOOLEAN]
  /\ propIndex \in 0..NumProps
  /\ visiting \in 0..NumProps /\ fetched \in Values \X Nat
  /\ sent \in 0..MaxSent /\ calls \in 0..MaxCalls /\ hooks \in 0..MaxHooks
  /\ answers \in [Calls -> Nat]
  /\ seen \in 0..MaxSent /\ unfinished \in BOOLEAN

(* The ring has a slot for every reply that is owed.                       *)
Slots ==
  /\ outstanding \subseteq 1..calls /\ IsFiniteSet(outstanding)
  /\ reserved = Cardinality(outstanding)
  /\ Len(events) + reserved <= MaxEvents

(* A request is with the core, in the ring or answered.                    *)
Answered ==
  \A n \in Calls :
    /\ Once(events, Replied(n))
    /\ n \in outstanding => ~Holds(events, Replied(n)) /\ answers[n] = 0
    /\ Holds(events, Replied(n)) => n <= calls /\ answers[n] = 0
    /\ n > calls => answers[n] = 0
    /\ "reply" \in Registered /\ n <= calls /\ n \notin outstanding
         /\ ~Holds(events, Replied(n)) => answers[n] = 1

(* A loss that has not been reported is younger than all the page has seen *)
(* and will see from the ring.                                             *)
Losses ==
  /\ lost \subseteq 1..sent /\ reported \subseteq lost /\ seen <= sent
  /\ lost # reported => choked
  /\ \A i \in DOMAIN events : events[i][1] = "sent" => events[i][2] <= sent
  /\ \A n \in lost \ reported :
       seen < n /\ \A i \in DOMAIN events : events[i][1] = "sent" => events[i][2] < n

(* What the page was given, what was read and what has changed; a property *)
(* is only visited when it has changed since it was last read.             *)
Stamped ==
  \A p \in Props : /\ retTs[p] <= valueTs[p] /\ valueTs[p] <= changeTs[p]
                   /\ hookMark[p] <= changeTs[p] /\ 0 < changeTs[p]
                   /\ visiting = p => valueTs[p] < changeTs[p]

(* A value that is as young as the last change is the core's; the page has *)
(* the value that was read if that was returned; and of what the rendering *)
(* does not change, the value is as young as its stamp says.               *)
Fresh ==
  \A p \in Props :
    /\ readAt[p] <= changeTs[p] /\ (readAt[p] = changeTs[p] => read[p] = value[p])
    /\ visiting = p => /\ fetched[2] <= changeTs[p]
                       /\ fetched[2] = changeTs[p] => fetched[1] = value[p]
    /\ "change" \in Registered /\ 0 < valueTs[p] /\ retTs[p] = valueTs[p]
         => page[p] = read[p]
    /\ p \notin Rendered => /\ readAt[p] = valueTs[p] /\ knownAt[p] = retTs[p]
                            /\ visiting = p => fetched[2] = changeTs[p]

(* A hook that has been marked waits for every property that had changed   *)
(* when it was sent.                                                       *)
Marked ==
  /\ Once(events, HookEvents)
  /\ Holds(events, HookEvents) => hookState = "sent"
  /\ hookPending => HookAtHead
  /\ hookPending /\ hookState = "sent" =>
       \A p \in Props : waiting[p] \/ hookMark[p] <= retTs[p]

(* What can be delivered has a task, or the core will wake the client.     *)
Woken ==
  /\ needWakeup => Covered
  /\ HookAtHead /\ ~hookPending => Covered
  /\ Deliverable => Covered \/ (visiting # 0 /\ newProps)

IInv == Typed /\ Slots /\ Answered /\ Losses /\ Stamped /\ Fresh /\ Marked /\ Woken

(* A property can be given to the page when it has been read and is not    *)
(* what was given last; the round robin takes one if there is one.         *)
LEMMA CandidateFacts ==
  ASSUME Typed
  PROVE  /\ Candidates \subseteq {p \in Props : Ready(p)}
         /\ Candidates # {} <=> \/ \E p \in Props : p > propIndex /\ Ready(p)
                                \/ newProps /\ \E p \in Props : Ready(p)
         /\ Candidates # {} => Least(Candidates) \in Candidates
<1>1. propIndex \in Nat /\ Props \subseteq Nat /\ \A p \in Props : p > 0
  BY RingAssumption DEF Typed, Props
<1>2. /\ ReadyFrom(propIndex) = {p \in Props : p > propIndex /\ Ready(p)}
      /\ ReadyFrom(0) = {p \in Props : Ready(p)}
  BY <1>1 DEF ReadyFrom
<1>3. Candidates \subseteq {p \in Props : Ready(p)}
  BY <1>2 DEF Candidates
<1>4. Candidates # {} <=> \/ \E p \in Props : p > propIndex /\ Ready(p)
                          \/ newProps /\ \E p \in Props : Ready(p)
  BY <1>2 DEF Candidates
<1>5. Candidates \subseteq Nat
  BY <1>1, <1>3
<1> QED
  BY <1>3, <1>4, <1>5, LeastExists

(* Marking keeps every property that is waited for already.                *)
LEMMA MarkFacts ==
  ASSUME Typed
  PROVE  /\ WaitingAfterMark \in [Props -> BOOLEAN]
         /\ \A p \in Props : WaitingAfterMark[p] <=>
              waiting[p] \/ (HookAtHead /\ ~hookPending /\ retTs[p] # changeTs[p])
<1>1. CASE HookAtHead /\ ~hookPending
  BY <1>1 DEF Typed, WaitingAfterMark, MarkPending
<1>2. CASE ~(HookAtHead /\ ~hookPending)
  BY <1>2 DEF Typed, WaitingAfterMark
<1> QED
  BY <1>1, <1>2

(* Whether a hook at the head is delayed.                                  *)
LEMMA DelayFacts ==
  ASSUME Typed
  PROVE  HookDelayed <=> /\ HookAtHead
                         /\ \E p \in Props :
                              waiting[p] \/ (~hookPending /\ retTs[p] # changeTs[p])
BY MarkFacts DEF HookDelayed

(* The initial state satisfies the invariant.                              *)
LEMMA InitIInv == Init => IInv
<1> SUFFICES ASSUME Init PROVE IInv
  OBVIOUS
<1>0. /\ events = <<>> /\ DOMAIN events = {} /\ Len(events) = 0 /\ events \in Seq(RingEvents)
      /\ ~HookAtHead
  BY DEF Init, HookAtHead
<1>1. Typed
  <2>1. /\ 0 \in 0..NumProps /\ 0 \in Values /\ fetched \in Values \X Nat
        /\ 0 \in 0..MaxSent /\ 0 \in 0..MaxCalls /\ 0 \in 0..MaxHooks
    BY BoundsAssumption, RingAssumption DEF Init, Values
  <2>2. /\ reserved \in Nat /\ wakeups \in Nat /\ hookState \in {"none", "sent", "posted"}
        /\ pump \in {"idle", "scan", "wait"}
    BY DEF Init
  <2>3. /\ choked \in BOOLEAN /\ needWakeup \in BOOLEAN /\ hookPending \in BOOLEAN
        /\ newProps \in BOOLEAN /\ pendingProps \in BOOLEAN /\ unfinished \in BOOLEAN
    BY DEF Init
  <2>4. waiting \in [Props -> BOOLEAN] /\ answers \in [Calls -> Nat]
    BY DEF Init
  <2> QED
    BY <1>0, <2>1, <2>2, <2>3, <2>4 DEF Init, Typed
<1>2. Slots
  BY <1>0, RingAssumption, FS_EmptySet DEF Init, Slots
<1>3. Answered /\ Losses
  BY <1>0, BoundsAssumption DEF Init, Answered, Losses, Once, Holds, Calls
<1>4. Stamped /\ Fresh
  <2>1. \A p \in Props : visiting # p
    BY DEF Init, Props
  <2> QED
    BY <2>1 DEF Init, Stamped, Fresh
<1>5. Marked
  BY <1>0 DEF Init, Marked, Once, Holds
<1>6. Woken
  BY DEF Init, Woken, Covered
<1> QED
  BY <1>1, <1>2, <1>3, <1>4, <1>5, <1>6 DEF IInv
-----------------------------------------------------------------------------
(* Every step preserves the invariant: types and slots.                    *)

(* Waking the client, sending an event.                                    *)
LEMMA SendTypes ==
  ASSUME Typed, NEW e \in RingEvents
  PROVE  /\ WakeupClient => needWakeup' \in BOOLEAN /\ wakeups' \in Nat
         /\ SendSucceeds(e) \/ SendFails =>
              /\ events' \in Seq(RingEvents) /\ reserved' \in Nat /\ choked' \in BOOLEAN
              /\ needWakeup' \in BOOLEAN /\ wakeups' \in Nat
         /\ Append(events, e) \in Seq(RingEvents)
<1>1. WakeupClient => needWakeup' \in BOOLEAN /\ wakeups' \in Nat
  BY DEF Typed, WakeupClient
<1>2. Append(events, e) \in Seq(RingEvents)
  BY DEF Typed
<1>3. SendSucceeds(e) => /\ events' \in Seq(RingEvents) /\ reserved' \in Nat
                         /\ choked' \in BOOLEAN
                         /\ needWakeup' \in BOOLEAN /\ wakeups' \in Nat
  BY <1>1, <1>2 DEF Typed, SendSucceeds
<1>4. SendFails => /\ events' \in Seq(RingEvents) /\ reserved' \in Nat /\ choked' \in BOOLEAN
                   /\ needWakeup' \in BOOLEAN /\ wakeups' \in Nat
  BY DEF Typed, SendFails
<1> QED
  BY <1>1, <1>2, <1>3, <1>4

(* What a change on the core thread does.                                  *)
LEMMA CoreChangesFacts ==
  ASSUME Typed, NEW S \in SUBSET Props, CoreChanges(S)
  PROVE  /\ visiting = 0 /\ pendingProps' \in BOOLEAN
         /\ changeTs' \in [Props -> Nat] /\ value' \in [Props -> Values]
         /\ \A p \in Props : \/ changeTs'[p] = changeTs[p] + 1
                             \/ changeTs'[p] = changeTs[p] /\ value'[p] = value[p]
<1>1. /\ changeTs' = [p \in Props |-> IF p \in S THEN changeTs[p] + 1 ELSE changeTs[p]]
      /\ value' \in [Props -> Values] /\ visiting = 0
      /\ \A p \in Props : p \notin S \ Rendered => value'[p] = value[p]
  BY DEF CoreChanges
<1>2. \A p \in Props : changeTs'[p] = IF p \in S THEN changeTs[p] + 1 ELSE changeTs[p]
  BY <1>1
<1>3. \A p \in Props : changeTs[p] \in Nat
  BY DEF Typed
<1>4. changeTs' \in [Props -> Nat]
  BY <1>1, <1>3
<1>5. pendingProps' \in BOOLEAN
  BY DEF CoreChanges
<1> QED
  BY <1>1, <1>2, <1>4, <1>5

(* Which property send_client_property_changes visits next.                *)
LEMMA VisitFacts ==
  ASSUME Typed, NEW S \in SUBSET Props, Visit(S), newProps' \in BOOLEAN
  PROVE  /\ visiting' \in 0..NumProps /\ fetched' \in Values \X Nat
         /\ needWakeup' \in BOOLEAN /\ wakeups' \in Nat
         /\ \/ visiting' = 0 /\ newProps' /\ WakeupClient
            \/ visiting' = 0 /\ ~newProps' /\ UNCHANGED wakeVars
            \/ /\ visiting' \in S /\ visiting' # 0 /\ UNCHANGED wakeVars
               /\ fetched'[1] = value[visiting'] /\ fetched'[2] = changeTs[visiting']
<1>1. CASE S = {}
  <2>1. visiting' = 0 /\ fetched' = <<0, 0>> /\ WakeupIfNew
    BY <1>1 DEF Visit
  <2>2. visiting' \in 0..NumProps /\ fetched' \in Values \X Nat
    BY <2>1, RingAssumption DEF Values
  <2>3. \/ newProps' /\ WakeupClient
        \/ ~newProps' /\ UNCHANGED wakeVars
    BY <2>1 DEF WakeupIfNew
  <2>4. needWakeup' \in BOOLEAN /\ wakeups' \in Nat
    <3>1. CASE WakeupClient
      BY <3>1 DEF WakeupClient, Typed
    <3>2. CASE UNCHANGED wakeVars
      BY <3>2 DEF wakeVars, Typed
    <3> QED
      BY <2>3, <3>1, <3>2
  <2> QED
    BY <2>1, <2>2, <2>3, <2>4
<1>2. CASE S # {}
  <2>1. Least(S) \in S
    BY <1>2, LeastExists DEF Props
  <2>2. /\ visiting' = Least(S) /\ UNCHANGED wakeVars
        /\ fetched' = <<value[Least(S)], changeTs[Least(S)]>>
    BY <1>2 DEF Visit
  <2>3. Least(S) \in Props /\ Least(S) \in 0..NumProps /\ Least(S) # 0
    <3>1. \A p \in Props : p \in 0..NumProps /\ p # 0
      BY RingAssumption DEF Props
    <3> QED
      BY <2>1, <3>1
  <2>4. value[Least(S)] \in Values /\ changeTs[Least(S)] \in Nat
    BY <2>3 DEF Typed
  <2> QED
    BY <2>1, <2>2, <2>3, <2>4 DEF wakeVars, Typed
<1> QED
  BY <1>1, <1>2

(* The types of what the core does.                                        *)
LEMMA TypedCore ==
  ASSUME IInv,
         \/ Broadcast \/ RunHook \/ ContinueHook \/ Request
         \/ \E n \in Calls : Reply(n)
         \/ \E p \in Props : Change(p) \/ Resize(p)
         \/ SendChanges
  PROVE  Typed'
<1> USE DEF IInv
<1>1. CASE Broadcast
  <2>1. sent' = sent + 1 /\ sent + 1 \in 1..MaxSent /\ sent' \in 0..MaxSent
    BY <1>1, BoundsAssumption DEF Broadcast, Typed
  <2>2. SendSucceeds(<<"sent", sent + 1>>) \/ SendFails
    BY <1>1 DEF Broadcast
  <2>3. <<"sent", sent + 1>> \in RingEvents
    BY <2>1, NewEvents
  <2>4. /\ events' \in Seq(RingEvents) /\ reserved' \in Nat /\ choked' \in BOOLEAN
        /\ needWakeup' \in BOOLEAN /\ wakeups' \in Nat
    BY <2>2, <2>3, SendTypes
  <2>5. /\ changeTs' \in [Props -> Nat] /\ value' \in [Props -> Values]
        /\ pendingProps' \in BOOLEAN
    BY <1>1, CoreChangesFacts DEF Broadcast
  <2> QED
    BY <1>1, <2>1, <2>4, <2>5 DEF Broadcast, Typed, clientVars, propVars, pageVars
<1>2. CASE RunHook
  <2>1. hooks' = hooks + 1 /\ hooks + 1 \in Nat /\ hooks' \in 0..MaxHooks
    BY <1>2, BoundsAssumption DEF RunHook, Typed
  <2>2. SendSucceeds(<<"hook", hooks + 1>>) \/ SendFails
    BY <1>2 DEF RunHook
  <2>3. <<"hook", hooks + 1>> \in RingEvents
    BY <2>1, NewEvents
  <2>4. /\ events' \in Seq(RingEvents) /\ reserved' \in Nat /\ choked' \in BOOLEAN
        /\ needWakeup' \in BOOLEAN /\ wakeups' \in Nat
    BY <2>2, <2>3, SendTypes
  <2>5. hookState' \in {"none", "sent", "posted"} /\ hookMark' \in [Props -> Nat]
    BY <1>2 DEF RunHook, Typed
  <2> QED
    BY <1>2, <2>1, <2>4, <2>5 DEF RunHook, Typed, clientVars, propVars, pageVars
<1>3. CASE ContinueHook
  <2>1. hookState' \in {"none", "sent", "posted"}
    BY <1>3 DEF ContinueHook
  <2> QED
    BY <1>3, <2>1 DEF ContinueHook, Typed, ringVars, wakeVars, clientVars, propVars, coreVars,
                      pageVars
<1>4. CASE Request
  <2>1. reserved' \in Nat /\ calls' \in 0..MaxCalls
    BY <1>4, BoundsAssumption DEF Request, Typed
  <2> QED
    BY <1>4, <2>1 DEF Request, Typed, wakeVars, clientVars, propVars, pageVars
<1>5. ASSUME NEW n \in Calls, Reply(n) PROVE Typed'
  <2>1. n \in outstanding /\ reserved' = reserved - 1
    BY <1>5 DEF Reply
  <2>2. reserved - 1 \in Nat
    <3>1. Cardinality(outstanding) # 0
      BY <2>1, FS_EmptySet DEF Slots
    <3> QED
      BY <3>1 DEF Slots, Typed
  <2>3. /\ events' \in Seq(RingEvents) /\ needWakeup' \in BOOLEAN /\ wakeups' \in Nat
    BY <1>5, NewEvents, SendTypes DEF Reply
  <2> QED
    BY <1>5, <2>1, <2>2, <2>3 DEF Reply, Typed, clientVars, propVars, pageVars
<1>6. ASSUME NEW p \in Props, Change(p) PROVE Typed'
  <2>1. /\ changeTs' \in [Props -> Nat] /\ value' \in [Props -> Values]
        /\ pendingProps' \in BOOLEAN
    BY <1>6, CoreChangesFacts DEF Change
  <2> QED
    BY <1>6, <2>1 DEF Change, Typed, ringVars, wakeVars, clientVars, propVars, pageVars
<1>7. ASSUME NEW p \in Props, Resize(p) PROVE Typed'
  <2>1. changeTs' = [changeTs EXCEPT ![p] = changeTs[p] + 1] /\ changeTs' \in [Props -> Nat]
    BY <1>7 DEF Resize, Typed
  <2>3. value' \in [Props -> Values]
    <3>1. PICK v \in Values : value' = [value EXCEPT ![p] = v]
      BY <1>7 DEF Resize
    <3> QED
      BY <3>1 DEF Typed
  <2>2. pendingProps' \in BOOLEAN
    BY <1>7 DEF Resize
  <2> QED
    BY <1>7, <2>1, <2>2, <2>3 DEF Resize, Typed, ringVars, wakeVars, clientVars, propVars, pageVars
<1>8. CASE SendBegin
  <2>1. pendingProps' \in BOOLEAN
    BY <1>8 DEF SendBegin
  <2>2. newProps' \in BOOLEAN
    BY <1>8 DEF SendBegin, Typed
  <2>3. /\ visiting' \in 0..NumProps /\ fetched' \in Values \X Nat
        /\ needWakeup' \in BOOLEAN /\ wakeups' \in Nat
    BY <1>8, <2>2, VisitFacts DEF SendBegin
  <2> QED
    BY <1>8, <2>1, <2>3 DEF SendBegin, Typed, ringVars, propVars, pageVars
<1>9. ASSUME NEW p \in Props, SendProp(p) PROVE Typed'
  <2>1. /\ read' \in [Props -> Values \cup {-1}] /\ valueTs' \in [Props -> Nat]
        /\ readAt' \in [Props -> Nat]
    BY <1>9 DEF SendProp, Typed
  <2>2. retTs' \in [Props -> Nat] /\ knownAt' \in [Props -> Nat]
    BY <1>9 DEF SendProp, Typed
  <2>3. newProps' \in BOOLEAN
    BY <1>9 DEF SendProp
  <2>4. waiting' \in [Props -> BOOLEAN]
    BY <1>9 DEF SendProp, DoneWaiting, Typed
  <2>5. /\ visiting' \in 0..NumProps /\ fetched' \in Values \X Nat
        /\ needWakeup' \in BOOLEAN /\ wakeups' \in Nat
    BY <1>9, <2>3, VisitFacts DEF SendProp
  <2> QED
    BY <1>9, <2>1, <2>2, <2>3, <2>4, <2>5 DEF SendProp, Typed, ringVars, pageVars
<1> QED
  BY <1>1, <1>2, <1>3, <1>4, <1>5, <1>6, <1>7, <1>8, <1>9 DEF SendChanges

(* The types of what the pump does.                                        *)
LEMMA TypedPump ==
  ASSUME IInv, PumpStep
  PROVE  Typed'
<1> USE DEF IInv
<1>1. CASE PumpBegin
  <2>1. wakeups' \in Nat /\ pump' \in {"idle", "scan", "wait"}
    BY <1>1 DEF PumpBegin, Typed
  <2> QED
    BY <1>1, <2>1 DEF PumpBegin, Typed, ringVars, clientVars, propVars, coreVars, pageVars
<1>2. CASE PumpOverflow
  <2>1. choked' \in BOOLEAN /\ unfinished' \in BOOLEAN
    BY <1>2 DEF PumpOverflow
  <2> QED
    BY <1>2, <2>1 DEF PumpOverflow, Typed, wakeVars, clientVars, propVars, coreVars
<1>3. CASE PumpRing
  <2>1. events # <<>> /\ events' = Tail(events) /\ Head(events) \in RingEvents
        /\ events' \in Seq(RingEvents)
    BY <1>3, TakeEvent DEF PumpRing, Typed
  <2>2. seen' \in 0..MaxSent
    BY <1>3, <2>1, EventFacts, BoundsAssumption DEF PumpRing, PostRingEvent, Typed
  <2>3. answers' \in [Calls -> Nat]
    BY <1>3, <2>1, EventFacts DEF PumpRing, PostRingEvent, Typed
  <2>4. hookState' \in {"none", "sent", "posted"}
    BY <1>3 DEF PumpRing, PostRingEvent, Typed
  <2>5. unfinished' \in BOOLEAN /\ hookPending' \in BOOLEAN
    BY <1>3 DEF PumpRing
  <2>6. waiting' \in [Props -> BOOLEAN]
    BY <1>3, MarkFacts DEF PumpRing
  <2> QED
    BY <1>3, <2>1, <2>2, <2>3, <2>4, <2>5, <2>6 DEF PumpRing, Typed, wakeVars, propVars, coreVars
<1>4. CASE PumpProp
  <2> DEFINE p == Least(Candidates)
  <2>1. p \in Props
    BY <1>4, CandidateFacts DEF PumpProp
  <2>2. propIndex' \in 0..NumProps
    BY <1>4, <2>1, RingAssumption DEF PumpProp, Props
  <2>3. waiting' \in [Props -> BOOLEAN]
    BY <1>4, MarkFacts DEF PumpProp
  <2>4. retTs' \in [Props -> Nat] /\ knownAt' \in [Props -> Nat]
    BY <1>4, <2>1 DEF PumpProp, Typed
  <2>5. page' \in [Props -> Values \cup {-1}]
    BY <1>4, <2>1 DEF PumpProp, Typed
  <2>6. hookPending' \in BOOLEAN /\ newProps' \in BOOLEAN /\ unfinished' \in BOOLEAN
    BY <1>4 DEF PumpProp
  <2> QED
    BY <1>4, <2>2, <2>3, <2>4, <2>5, <2>6 DEF PumpProp, Typed, ringVars, wakeVars, propVars,
                                              coreVars
<1>5. CASE PumpEmpty
  <2>1. propIndex' \in 0..NumProps
    BY <1>5, RingAssumption DEF PumpEmpty
  <2>2. waiting' \in [Props -> BOOLEAN]
    BY <1>5, MarkFacts DEF PumpEmpty
  <2>3. hookPending' \in BOOLEAN /\ newProps' \in BOOLEAN /\ pump' \in {"idle", "scan", "wait"}
    BY <1>5 DEF PumpEmpty
  <2> QED
    BY <1>5, <2>1, <2>2, <2>3 DEF PumpEmpty, Typed, ringVars, wakeVars, propVars, coreVars,
                                  pageVars
<1>6. CASE PumpAgain
  <2>1. needWakeup' \in BOOLEAN /\ pump' \in {"idle", "scan", "wait"}
    BY <1>6 DEF PumpAgain
  <2> QED
    BY <1>6, <2>1 DEF PumpAgain, Typed, ringVars, clientVars, propVars, coreVars, pageVars
<1>7. CASE PumpEnd
  <2>1. unfinished' \in BOOLEAN /\ pump' \in {"idle", "scan", "wait"}
    BY <1>7 DEF PumpEnd, Typed
  <2> QED
    BY <1>7, <2>1 DEF PumpEnd, Typed, ringVars, wakeVars, clientVars, propVars, coreVars
<1> QED
  BY <1>1, <1>2, <1>3, <1>4, <1>5, <1>6, <1>7 DEF PumpStep

(* What a step does to the ring, its slots and its requests.               *)
LEMMA RingSteps ==
  ASSUME IInv, [Next]_vars
  PROVE  \/ \E e \in RingEvents : /\ Accepts /\ SendSucceeds(e)
                                  /\ (e = <<"sent", sent + 1>> \/ e \in HookEvents)
                                  /\ UNCHANGED <<outstanding, calls, answers>>
         \/ Request
         \/ \E n \in Calls : Reply(n)
         \/ PumpRing
         \/ UNCHANGED <<events, reserved, outstanding, calls, answers>>
<1> USE DEF IInv
<1>1. CASE Broadcast
  <2>1. sent + 1 \in 1..MaxSent
    BY <1>1, BoundsAssumption DEF Broadcast, Typed
  <2>2. <<"sent", sent + 1>> \in RingEvents
    BY <2>1, NewEvents
  <2> QED
    BY <1>1, <2>2 DEF Broadcast, SendSucceeds, SendFails, pageVars
<1>2. CASE RunHook
  <2>1. hooks + 1 \in Nat
    BY DEF Typed
  <2>2. <<"hook", hooks + 1>> \in RingEvents /\ <<"hook", hooks + 1>> \in HookEvents
    BY <2>1, NewEvents
  <2> QED
    BY <1>2, <2>2 DEF RunHook, SendSucceeds, SendFails, pageVars
<1>3. CASE ContinueHook
  BY <1>3 DEF ContinueHook, ringVars, coreVars, pageVars
<1>4. CASE \E p \in Props : Change(p) \/ Resize(p)
  BY <1>4 DEF Change, Resize, ringVars, pageVars
<1>5. CASE SendChanges
  BY <1>5 DEF SendChanges, SendBegin, SendProp, ringVars, pageVars
<1>6. CASE PumpStep
  BY <1>6 DEF PumpStep, PumpBegin, PumpOverflow, PumpProp, PumpEmpty, PumpAgain, PumpEnd, ringVars,
              coreVars, pageVars
<1>7. CASE UNCHANGED vars
  BY <1>7 DEF vars, ringVars, coreVars, pageVars
<1> QED
  BY <1>1, <1>2, <1>3, <1>4, <1>5, <1>6, <1>7 DEF Next, Stopped

(* A slot is reserved with the request and used by the reply.              *)
LEMMA SlotsStep == IInv /\ [Next]_vars => Slots'
<1> SUFFICES ASSUME IInv, [Next]_vars PROVE Slots'
  OBVIOUS
<1> USE DEF IInv
<1>0. events \in Seq(RingEvents) /\ Len(events) \in Nat /\ reserved \in Nat /\ MaxEvents \in Nat
      /\ calls \in Nat
  BY RingAssumption, BoundsAssumption DEF Typed
<1>1. ASSUME NEW e \in RingEvents, Accepts, SendSucceeds(e), UNCHANGED <<outstanding, calls>>
      PROVE  Slots'
  <2>1. Len(events') = Len(events) + 1 /\ reserved' = reserved
    BY <1>0, <1>1, AddEvent DEF SendSucceeds
  <2>2. Len(events) + reserved < MaxEvents
    BY <1>1 DEF Accepts, Room
  <2>3. Len(events') + reserved' <= MaxEvents
    BY <1>0, <2>1, <2>2
  <2> QED
    BY <1>1, <2>1, <2>3 DEF Slots
<1>2. CASE Request
  <2>1. /\ calls' = calls + 1 /\ outstanding' = outstanding \cup {calls + 1}
        /\ reserved' = reserved + 1 /\ events' = events
        /\ Len(events) + reserved < MaxEvents
    BY <1>2 DEF Request, Accepts, Room
  <2>2. calls + 1 \notin outstanding /\ outstanding' \subseteq 1..calls'
    BY <1>0, <2>1 DEF Slots
  <2>3. IsFiniteSet(outstanding') /\ Cardinality(outstanding') = Cardinality(outstanding) + 1
    BY <2>1, <2>2, FS_AddElement DEF Slots
  <2>4. Len(events') + reserved' <= MaxEvents
    BY <1>0, <2>1
  <2> QED
    BY <2>1, <2>2, <2>3, <2>4 DEF Slots
<1>3. ASSUME NEW n \in Calls, Reply(n) PROVE Slots'
  <2>1. /\ n \in outstanding /\ outstanding' = outstanding \ {n} /\ calls' = calls
        /\ reserved' = reserved - 1 /\ events' = Append(events, <<"reply", n>>)
    BY <1>3 DEF Reply
  <2>2. IsFiniteSet(outstanding') /\ Cardinality(outstanding') = Cardinality(outstanding) - 1
    BY <2>1, FS_RemoveElement DEF Slots
  <2>3. Len(events') = Len(events) + 1
    BY <1>0, <2>1, NewEvents, AddEvent
  <2>4. Len(events') + reserved' <= MaxEvents
    BY <1>0, <2>1, <2>3 DEF Slots
  <2> QED
    BY <2>1, <2>2, <2>4 DEF Slots
<1>4. CASE PumpRing
  <2>1. Len(events') = Len(events) - 1 /\ UNCHANGED <<reserved, outstanding, calls>>
    BY <1>0, <1>4, TakeEvent DEF PumpRing, coreVars
  <2>2. Len(events') + reserved' <= MaxEvents
    BY <1>0, <2>1 DEF Slots
  <2> QED
    BY <2>1, <2>2 DEF Slots
<1>5. CASE UNCHANGED <<events, reserved, outstanding, calls>>
  BY <1>5 DEF Slots
<1> QED
  BY <1>1, <1>2, <1>3, <1>4, <1>5, RingSteps

(* A request moves from the core to the ring to the page.                  *)
LEMMA AnsweredStep == IInv /\ [Next]_vars => Answered'
<1> SUFFICES ASSUME IInv, [Next]_vars PROVE Answered'
  OBVIOUS
<1> USE DEF IInv
<1>0. events \in Seq(RingEvents) /\ calls \in 0..MaxCalls
  BY DEF Typed
<1>1. ASSUME NEW e \in RingEvents, SendSucceeds(e), e = <<"sent", sent + 1>> \/ e \in HookEvents,
             UNCHANGED <<outstanding, calls, answers>>
      PROVE  Answered'
  <2>1. events' = Append(events, e)
    BY <1>1 DEF SendSucceeds
  <2>2. \A n : e \notin Replied(n)
    BY <1>1, EventFacts DEF Replied, HookEvents
  <2>3. \A n : /\ Holds(events', Replied(n)) <=> Holds(events, Replied(n))
               /\ Once(events, Replied(n)) => Once(events', Replied(n))
    BY <1>0, <2>1, <2>2, AddEvent
  <2> QED
    BY <1>1, <2>3 DEF Answered
<1>2. CASE Request
  <2>1. /\ calls' = calls + 1 /\ outstanding' = outstanding \cup {calls + 1}
        /\ UNCHANGED <<events, answers>>
    BY <1>2 DEF Request, pageVars
  <2>2. \A n \in Calls : /\ n \in Nat
                         /\ n \in outstanding' /\ n \notin outstanding => n > calls
                         /\ n > calls' => n > calls
                         /\ n <= calls => n <= calls'
                         /\ n <= calls' /\ n \notin outstanding' => n <= calls
    BY <1>0, <2>1, BoundsAssumption DEF Calls
  <2>3. \A n \in Calls : ~(n <= calls /\ n > calls)
    BY <1>0, BoundsAssumption DEF Calls
  <2> QED
    BY <2>1, <2>2, <2>3 DEF Answered
<1>3. ASSUME NEW m \in Calls, Reply(m) PROVE Answered'
  <2>1. /\ m \in outstanding /\ outstanding' = outstanding \ {m}
        /\ events' = Append(events, <<"reply", m>>) /\ UNCHANGED <<calls, answers>>
    BY <1>3 DEF Reply, pageVars
  <2>2. \A n : /\ Holds(events', Replied(n)) <=> Holds(events, Replied(n)) \/ m = n
               /\ Once(events, Replied(n)) /\ (m # n \/ ~Holds(events, Replied(n)))
                    => Once(events', Replied(n))
    <3> DEFINE e == <<"reply", m>>
    <3>1. e \in RingEvents /\ \A n : e \in Replied(n) <=> m = n
      BY NewEvents
    <3> HIDE DEF e
    <3>2. events' = Append(events, e)
      BY <2>1 DEF e
    <3> QED
      BY <1>0, <3>1, <3>2, AddEvent
  <2>3. m <= calls
    BY <1>0, <2>1, BoundsAssumption DEF Slots
  <2> QED
    BY <2>1, <2>2, <2>3 DEF Answered
<1>4. CASE PumpRing
  <2>1. /\ events # <<>> /\ events' = Tail(events) /\ UNCHANGED <<outstanding, calls>>
        /\ Head(events) \in RingEvents
    BY <1>0, <1>4, TakeEvent DEF PumpRing, coreVars
  <2>2. \A n : /\ Head(events) \in Replied(n) => Holds(events, Replied(n))
               /\ Head(events) \notin Replied(n)
                    => (Holds(events', Replied(n)) <=> Holds(events, Replied(n)))
               /\ Once(events, Replied(n)) => Once(events', Replied(n))
               /\ Head(events) \in Replied(n) /\ Once(events, Replied(n))
                    => ~Holds(events', Replied(n))
    BY <1>0, <2>1, TakeEvent
  <2>3. CASE Head(events)[1] # "reply"
    <3>1. \A n : Head(events) \notin Replied(n)
      BY <2>1, <2>3, EventFacts
    <3>2. answers' = answers
      BY <1>4, <2>3 DEF PumpRing, PostRingEvent
    <3> QED
      BY <2>1, <2>2, <3>1, <3>2 DEF Answered
  <2>4. CASE Head(events)[1] = "reply"
    <3> DEFINE m == Head(events)[2]
    <3>1. m \in Calls /\ \A n : Head(events) \in Replied(n) <=> m = n
      BY <2>1, <2>4, EventFacts
    <3>2. /\ "reply" \in Registered => answers' = [answers EXCEPT ![m] = @ + 1]
          /\ "reply" \notin Registered => answers' = answers
      BY <1>4, <2>4 DEF PumpRing, PostRingEvent
    <3> HIDE DEF m
    <3>3. answers \in [Calls -> Nat]
      BY DEF Typed
    <3>4. \A n \in Calls : /\ n # m => answers'[n] = answers[n]
                           /\ "reply" \in Registered => answers'[m] = answers[m] + 1
                           /\ "reply" \notin Registered => answers'[n] = answers[n]
      BY <3>1, <3>2, <3>3
    <3>5. Holds(events, Replied(m)) /\ ~Holds(events', Replied(m)) /\ Once(events', Replied(m))
      BY <2>2, <3>1 DEF Answered
    <3>6. m \notin outstanding /\ m <= calls /\ answers[m] = 0
      BY <3>1, <3>5 DEF Answered
    <3>7. ~(m > calls)
      BY <1>0, <3>1, <3>6, BoundsAssumption DEF Calls
    <3> QED
      BY <2>1, <2>2, <3>1, <3>4, <3>5, <3>6, <3>7 DEF Answered
  <2> QED
    BY <2>3, <2>4
<1>5. CASE UNCHANGED <<events, outstanding, calls, answers>>
  BY <1>5 DEF Answered
<1> QED
  BY <1>1, <1>2, <1>3, <1>4, <1>5, RingSteps
-----------------------------------------------------------------------------
(* Every step preserves the invariant: losses.                             *)

(* Where an event of the ring comes from.                                  *)
LEMMA RingOrigins ==
  ASSUME NEW S, NEW s \in Seq(S), NEW e \in S
  PROVE  /\ \A i \in DOMAIN Append(s, e) :
              Append(s, e)[i] = e \/ \E j \in DOMAIN s : Append(s, e)[i] = s[j]
         /\ s # <<>> => /\ \E j \in DOMAIN s : Head(s) = s[j]
                        /\ \A i \in DOMAIN Tail(s) : \E j \in DOMAIN s : Tail(s)[i] = s[j]
<1>1. /\ Len(s) \in Nat /\ DOMAIN s = 1..Len(s)
      /\ DOMAIN Append(s, e) = 1..(Len(s) + 1)
      /\ \A i \in 1..Len(s) : Append(s, e)[i] = s[i]
      /\ Append(s, e)[Len(s) + 1] = e
  OBVIOUS
<1>2. \A i \in DOMAIN Append(s, e) :
        Append(s, e)[i] = e \/ \E j \in DOMAIN s : Append(s, e)[i] = s[j]
  BY <1>1
<1>3. ASSUME s # <<>>
      PROVE  /\ \E j \in DOMAIN s : Head(s) = s[j]
             /\ \A i \in DOMAIN Tail(s) : \E j \in DOMAIN s : Tail(s)[i] = s[j]
  <2>1. /\ DOMAIN Tail(s) = 1..(Len(s) - 1) /\ 1 \in DOMAIN s /\ Head(s) = s[1]
        /\ \A i \in 1..(Len(s) - 1) : i + 1 \in DOMAIN s /\ Tail(s)[i] = s[i + 1]
    BY <1>1, <1>3
  <2> QED
    BY <2>1
<1> QED
  BY <1>2, <1>3

(* While a loss has not been reported nothing is sent, so nothing younger  *)
(* reaches the page.                                                       *)
LEMMA LossesStep == IInv /\ [Next]_vars => Losses'
<1> SUFFICES ASSUME IInv, [Next]_vars PROVE Losses'
  OBVIOUS
<1> USE DEF IInv
<1>0. /\ events \in Seq(RingEvents) /\ sent \in Nat /\ seen \in Nat /\ lost \subseteq Nat
      /\ MaxEvents \in Nat
      /\ \A i \in DOMAIN events : events[i] \in RingEvents /\ events[i][2] \in Nat
  BY BoundsAssumption, RingAssumption, EventFacts DEF Typed, Losses
<1>1. CASE Broadcast
  <2> DEFINE e == <<"sent", sent + 1>>
  <2>0. e \in RingEvents /\ e[1] = "sent" /\ e[2] = sent + 1
    BY <1>0, <1>1, BoundsAssumption, NewEvents DEF Broadcast
  <2>1. sent' = sent + 1 /\ UNCHANGED <<seen, reported>>
    BY <1>1 DEF Broadcast, pageVars
  <2>2. CASE SendSucceeds(e) /\ UNCHANGED lost
    <3>1. /\ events' = Append(events, e) /\ choked' = choked /\ lost = reported
      BY <2>2 DEF SendSucceeds, Accepts, Losses
    <3> HIDE DEF e
    <3>2. \A i \in DOMAIN events' :
            events'[i] = e \/ \E j \in DOMAIN events : events'[i] = events[j]
      BY <1>0, <2>0, <3>1, RingOrigins
    <3>3. \A i \in DOMAIN events' : events'[i][1] = "sent" => events'[i][2] <= sent'
      BY <1>0, <2>0, <2>1, <3>2 DEF Losses
    <3> QED
      BY <1>0, <2>1, <2>2, <3>1, <3>3 DEF Losses
  <2>3. CASE SendFails /\ lost' = lost \cup {sent + 1}
    <3>1. choked' = TRUE /\ events' = events
      BY <2>3 DEF SendFails
    <3>2. lost' \subseteq 1..sent' /\ reported' \subseteq lost' /\ seen' <= sent'
      <4>1. 1..sent \subseteq 1..sent' /\ sent + 1 \in 1..sent'
        BY <1>0, <2>1
      <4>2. seen' <= sent'
        BY <1>0, <2>1 DEF Losses
      <4> QED
        BY <2>1, <2>3, <4>1, <4>2 DEF Losses
    <3>3. \A i \in DOMAIN events : events[i][1] = "sent" =>
             events[i][2] <= sent' /\ events[i][2] < sent + 1
      BY <1>0, <2>1 DEF Losses
    <3>4. seen' < sent + 1
      BY <1>0, <2>1 DEF Losses
    <3> QED
      BY <2>1, <2>3, <3>1, <3>2, <3>3, <3>4 DEF Losses
  <2> QED
    BY <1>1, <2>2, <2>3 DEF Broadcast
<1>2. ASSUME NEW e \in RingEvents, e[1] # "sent", events' = Append(events, e),
             UNCHANGED <<choked, lost, sent, seen, reported>>
      PROVE  Losses'
  <2>1. \A i \in DOMAIN events' : events'[i] = e \/ \E j \in DOMAIN events : events'[i] = events[j]
    BY <1>0, <1>2, RingOrigins
  <2> QED
    BY <1>2, <2>1 DEF Losses
<1>3. CASE RunHook
  <2>0. UNCHANGED <<lost, sent, seen, reported>>
    BY <1>3 DEF RunHook, pageVars
  <2> DEFINE e == <<"hook", hooks + 1>>
  <2>1. e \in RingEvents /\ e[1] # "sent"
    BY NewEvents DEF Typed
  <2>2. CASE SendSucceeds(e)
    <3>1. events' = Append(events, e) /\ choked' = choked
      BY <2>2 DEF SendSucceeds
    <3> QED
      BY <1>2, <2>0, <2>1, <3>1
  <2>3. CASE SendFails
    BY <2>0, <2>3 DEF SendFails, Losses
  <2> QED
    BY <1>3, <2>2, <2>3 DEF RunHook
<1>4. ASSUME NEW n \in Calls, Reply(n) PROVE Losses'
  <2> DEFINE e == <<"reply", n>>
  <2>1. e \in RingEvents /\ e[1] # "sent"
    BY NewEvents
  <2>2. events' = Append(events, e) /\ UNCHANGED <<choked, lost, sent, seen, reported>>
    BY <1>4 DEF Reply, pageVars
  <2> QED
    BY <1>2, <2>1, <2>2
<1>5. CASE PumpRing
  <2>1. events # <<>> /\ events' = Tail(events) /\ UNCHANGED <<choked, lost, sent, reported>>
    BY <1>5 DEF PumpRing, coreVars
  <2>2. Head(events) \in RingEvents
    BY <1>0, <2>1, TakeEvent
  <2>3. /\ \E j \in DOMAIN events : Head(events) = events[j]
        /\ \A i \in DOMAIN events' : \E j \in DOMAIN events : events'[i] = events[j]
    BY <1>0, <2>1, <2>2, RingOrigins
  <2>4. \/ seen' = seen
        \/ Head(events)[1] = "sent" /\ seen' = Head(events)[2]
    BY <1>5 DEF PumpRing, PostRingEvent
  <2>5. seen' <= sent /\ \A n \in lost \ reported : seen' < n
    BY <2>3, <2>4 DEF Losses
  <2> QED
    BY <2>1, <2>3, <2>5 DEF Losses
<1>6. CASE PumpOverflow
  <2>1. reported' = lost /\ UNCHANGED <<events, lost, sent, seen>>
    BY <1>6 DEF PumpOverflow, coreVars
  <2> QED
    BY <2>1 DEF Losses
<1>7. CASE UNCHANGED <<events, choked, lost, sent, seen, reported>>
  BY <1>7 DEF Losses
<1>8. \/ Broadcast \/ RunHook \/ (\E n \in Calls : Reply(n)) \/ PumpRing \/ PumpOverflow
      \/ UNCHANGED <<events, choked, lost, sent, seen, reported>>
  <2>1. CASE ContinueHook \/ Request
    BY <2>1 DEF ContinueHook, Request, ringVars, coreVars, pageVars
  <2>2. CASE \E p \in Props : Change(p) \/ Resize(p)
    BY <2>2 DEF Change, Resize, ringVars, pageVars
  <2>3. CASE SendChanges
    BY <2>3 DEF SendChanges, SendBegin, SendProp, ringVars, pageVars
  <2>4. CASE PumpStep
    BY <2>4 DEF PumpStep, PumpBegin, PumpProp, PumpEmpty, PumpAgain, PumpEnd, ringVars, coreVars,
                pageVars
  <2>5. CASE UNCHANGED vars
    BY <2>5 DEF vars, ringVars, coreVars, pageVars
  <2> QED
    BY <2>1, <2>2, <2>3, <2>4, <2>5 DEF Next, Stopped
<1> QED
  BY <1>1, <1>3, <1>4, <1>5, <1>6, <1>7, <1>8

-----------------------------------------------------------------------------
(* Every step preserves the invariant: properties and hooks.               *)

(* Properties change: on the core thread while none is sent, and those of  *)
(* the rendering at any time.                                              *)
Raised ==
  /\ \A q \in Props :
       \/ changeTs'[q] = changeTs[q] + 1 /\ (q \in Rendered \/ visiting = 0)
       \/ changeTs'[q] = changeTs[q] /\ value'[q] = value[q]
  /\ UNCHANGED <<hookMark, propVars, clientVars, visiting, fetched, page>>

LEMMA RaisedFacts ==
  ASSUME IInv, Broadcast \/ \E p \in Props : Change(p) \/ Resize(p)
  PROVE  Raised
<1> USE DEF IInv
<1>1. CASE Broadcast
  BY <1>1, CoreChangesFacts DEF Broadcast, Raised, pageVars
<1>2. ASSUME NEW p \in Props, Change(p) PROVE Raised
  BY <1>2, CoreChangesFacts DEF Change, Raised, pageVars
<1>3. ASSUME NEW p \in Props, Resize(p) PROVE Raised
  <2>1. /\ p \in Rendered /\ changeTs' = [changeTs EXCEPT ![p] = changeTs[p] + 1]
        /\ \A q \in Props : q # p => value'[q] = value[q]
    BY <1>3 DEF Resize, Typed
  <2>2. \A q \in Props : changeTs'[q] = IF q = p THEN changeTs[q] + 1 ELSE changeTs[q]
    BY <2>1 DEF Typed
  <2> QED
    BY <1>3, <2>1, <2>2 DEF Resize, Raised, pageVars
<1> QED
  BY <1>1, <1>2, <1>3

(* What reading a property does to its stamps.                             *)
LEMMA SendPropStamps ==
  ASSUME IInv, NEW p \in Props, SendProp(p)
  PROVE  /\ visiting = p /\ UNCHANGED <<changeTs, value, hookMark, page>>
         /\ valueTs'[p] = changeTs[p] /\ readAt'[p] = fetched[2] /\ read'[p] = fetched[1]
         /\ \A q \in Props : q # p => /\ valueTs'[q] = valueTs[q] /\ retTs'[q] = retTs[q]
                                      /\ waiting'[q] = waiting[q] /\ read'[q] = read[q]
                                      /\ readAt'[q] = readAt[q] /\ knownAt'[q] = knownAt[q]
         /\ \/ /\ retTs'[p] = retTs[p] /\ knownAt'[p] = knownAt[p]
               /\ waiting'[p] = waiting[p] /\ newProps'
            \/ /\ retTs'[p] = changeTs[p] /\ knownAt'[p] = fetched[2]
               /\ 0 < valueTs[p] /\ read[p] = fetched[1] /\ retTs[p] = valueTs[p]
               /\ ~waiting'[p] /\ (newProps' <=> newProps \/ waiting[p])
         /\ \A q \in Props : visiting' = q =>
              /\ valueTs[q] # changeTs[q] /\ q # p
              /\ fetched'[1] = value[q] /\ fetched'[2] = changeTs[q]
<1>0. /\ valueTs \in [Props -> Nat] /\ retTs \in [Props -> Nat] /\ knownAt \in [Props -> Nat]
      /\ readAt \in [Props -> Nat] /\ read \in [Props -> Values \cup {-1}]
      /\ waiting \in [Props -> BOOLEAN]
  BY DEF IInv, Typed
<1> DEFINE silent == ~Changed(p) /\ retTs[p] = valueTs[p]
<1>1. /\ visiting = p
      /\ valueTs' = [valueTs EXCEPT ![p] = changeTs[p]]
      /\ read' = [read EXCEPT ![p] = fetched[1]] /\ readAt' = [readAt EXCEPT ![p] = fetched[2]]
      /\ retTs' = IF silent THEN [retTs EXCEPT ![p] = changeTs[p]] ELSE retTs
      /\ knownAt' = IF silent THEN [knownAt EXCEPT ![p] = fetched[2]] ELSE knownAt
      /\ newProps' = (newProps \/ waiting[p] \/ ~silent)
      /\ waiting' = IF silent THEN [waiting EXCEPT ![p] = FALSE] ELSE waiting
      /\ UNCHANGED <<changeTs, value, hookMark, page>>
  BY DEF SendProp, DoneWaiting, pageVars
<1>2. silent => 0 < valueTs[p] /\ read[p] = fetched[1] /\ retTs[p] = valueTs[p]
  BY <1>0 DEF Changed
<1>3. \A q \in Props : visiting' = q =>
         /\ valueTs[q] # changeTs[q] /\ q # p
         /\ fetched'[1] = value[q] /\ fetched'[2] = changeTs[q]
  <2> DEFINE S == {q \in Props : q > p /\ Stale(q, valueTs)}
  <2>1. Visit(S) /\ newProps' \in BOOLEAN
    BY <1>1 DEF SendProp
  <2>2. \A q \in S : valueTs[q] # changeTs[q] /\ q # p
    BY DEF Stale, Props
  <2>3. \A q \in Props : q # 0
    BY DEF Props
  <2> HIDE DEF S
  <2>4. \/ visiting' = 0
        \/ /\ visiting' \in S /\ fetched'[1] = value[visiting']
           /\ fetched'[2] = changeTs[visiting']
    <3>1. S \in SUBSET Props
      BY DEF S
    <3> QED
      BY <2>1, <3>1, VisitFacts DEF IInv
  <2> QED
    BY <2>2, <2>3, <2>4
<1> HIDE DEF silent
<1>4. CASE silent
  BY <1>0, <1>1, <1>2, <1>3, <1>4
<1>5. CASE ~silent
  BY <1>0, <1>1, <1>3, <1>5
<1> QED
  BY <1>4, <1>5

(* Beginning to send only chooses the first property to read.              *)
LEMMA SendBeginStamps ==
  ASSUME IInv, SendBegin
  PROVE  /\ UNCHANGED <<changeTs, value, hookMark, propVars, clientVars, page>>
         /\ \A q \in Props : visiting' = q =>
              /\ valueTs[q] # changeTs[q]
              /\ fetched'[1] = value[q] /\ fetched'[2] = changeTs[q]
<1> DEFINE S == {p \in Props : Stale(p, valueTs)}
<1>1. /\ Visit(S) /\ newProps' = newProps
      /\ UNCHANGED <<changeTs, value, hookMark, propVars, clientVars, page>>
  BY DEF SendBegin, clientVars, pageVars
<1>2. /\ S \in SUBSET Props /\ \A q \in S : valueTs[q] # changeTs[q]
      /\ \A q \in Props : q # 0
  BY DEF Stale, Props
<1> HIDE DEF S
<1>3. \/ visiting' = 0
      \/ /\ visiting' \in S /\ fetched'[1] = value[visiting']
         /\ fetched'[2] = changeTs[visiting']
  BY <1>1, <1>2, VisitFacts DEF IInv, Typed
<1> QED
  BY <1>1, <1>2, <1>3

(* What giving a property to the page does to its stamps.                  *)
LEMMA PumpPropStamps ==
  ASSUME IInv, PumpProp
  PROVE  \E p \in Props :
           /\ Ready(p)
           /\ UNCHANGED <<changeTs, value, hookMark, propVars, visiting, fetched, events, hookState>>
           /\ retTs'[p] = valueTs[p] /\ knownAt'[p] = readAt[p]
           /\ "change" \in Registered => page'[p] = read[p]
           /\ \A q \in Props : q # p => /\ retTs'[q] = retTs[q] /\ knownAt'[q] = knownAt[q]
                                        /\ page'[q] = page[q]
                                        /\ waiting'[q] = WaitingAfterMark[q]
<1> DEFINE p == Least(Candidates)
<1>1. p \in Props /\ Ready(p)
  BY CandidateFacts DEF PumpProp, IInv
<1>2. /\ waiting' = [WaitingAfterMark EXCEPT ![p] = FALSE]
      /\ retTs' = [retTs EXCEPT ![p] = valueTs[p]]
      /\ knownAt' = [knownAt EXCEPT ![p] = readAt[p]]
      /\ page' = IF "change" \in Registered THEN [page EXCEPT ![p] = read[p]] ELSE page
      /\ UNCHANGED <<changeTs, value, hookMark, propVars, visiting, fetched, events, hookState>>
  BY DEF PumpProp, ringVars, propVars, coreVars
<1>3. /\ WaitingAfterMark \in [Props -> BOOLEAN] /\ retTs \in [Props -> Nat]
      /\ knownAt \in [Props -> Nat] /\ page \in [Props -> Values \cup {-1}]
  BY MarkFacts DEF IInv, Typed
<1> HIDE DEF p
<1> QED
  BY <1>1, <1>2, <1>3

(* What a step does to the stamps and the values.                          *)
LEMMA StampSteps ==
  ASSUME IInv, [Next]_vars
  PROVE  \/ Raised \/ RunHook \/ SendBegin \/ (\E p \in Props : SendProp(p)) \/ PumpProp
         \/ UNCHANGED <<changeTs, value, propVars, retTs, knownAt, hookMark, visiting, fetched, page>>
<1>1. CASE Broadcast \/ \E p \in Props : Change(p) \/ Resize(p)
  BY <1>1, RaisedFacts
<1>2. CASE ContinueHook \/ Request \/ \E n \in Calls : Reply(n)
  BY <1>2 DEF ContinueHook, Request, Reply, clientVars, coreVars, pageVars
<1>3. CASE PumpStep
  BY <1>3 DEF PumpStep, PumpBegin, PumpOverflow, PumpRing, PumpEmpty, PumpAgain, PumpEnd,
              clientVars, coreVars, pageVars
<1>4. CASE UNCHANGED vars
  BY <1>4 DEF vars, clientVars, coreVars, pageVars
<1> QED
  BY <1>1, <1>2, <1>3, <1>4 DEF Next, SendChanges, Stopped

(* The types of the stamps, one by one.                                    *)
LEMMA StampTypes ==
  ASSUME IInv, NEW q \in Props
  PROVE  /\ changeTs[q] \in Nat /\ valueTs[q] \in Nat /\ retTs[q] \in Nat
         /\ hookMark[q] \in Nat /\ readAt[q] \in Nat /\ knownAt[q] \in Nat
         /\ fetched[2] \in Nat
BY DEF IInv, Typed

(* The page is given what was read, and what was read had changed.         *)
LEMMA StampedStep == IInv /\ [Next]_vars => Stamped'
<1> SUFFICES ASSUME IInv, [Next]_vars, NEW q \in Props
             PROVE  /\ retTs'[q] <= valueTs'[q] /\ valueTs'[q] <= changeTs'[q]
                    /\ hookMark'[q] <= changeTs'[q] /\ 0 < changeTs'[q]
                    /\ visiting' = q => valueTs'[q] < changeTs'[q]
  BY DEF Stamped
<1>n. /\ changeTs[q] \in Nat /\ valueTs[q] \in Nat /\ retTs[q] \in Nat /\ hookMark[q] \in Nat
  BY StampTypes
<1>s. /\ retTs[q] <= valueTs[q] /\ valueTs[q] <= changeTs[q]
      /\ hookMark[q] <= changeTs[q] /\ 0 < changeTs[q]
      /\ visiting = q => valueTs[q] < changeTs[q]
  BY DEF IInv, Stamped
<1>1. CASE Raised
  BY <1>1, <1>n, <1>s DEF Raised, propVars, clientVars
<1>2. CASE RunHook
  <2>1. hookMark' \in {hookMark, changeTs} /\ UNCHANGED <<changeTs, valueTs, retTs, visiting>>
    BY <1>2 DEF RunHook, clientVars, propVars
  <2> QED
    BY <1>n, <1>s, <2>1
<1>3. CASE SendBegin
  BY <1>3, <1>n, <1>s, SendBeginStamps DEF clientVars, propVars
<1>4. ASSUME NEW p \in Props, SendProp(p)
      PROVE  /\ retTs'[q] <= valueTs'[q] /\ valueTs'[q] <= changeTs'[q]
             /\ hookMark'[q] <= changeTs'[q] /\ 0 < changeTs'[q]
             /\ visiting' = q => valueTs'[q] < changeTs'[q]
  <2>1. /\ changeTs' = changeTs /\ hookMark' = hookMark
        /\ valueTs'[q] = IF q = p THEN changeTs[q] ELSE valueTs[q]
        /\ retTs'[q] = retTs[q] \/ (q = p /\ retTs'[q] = changeTs[q])
        /\ visiting' = q => valueTs[q] # changeTs[q] /\ q # p
    BY <1>4, SendPropStamps
  <2> QED
    BY <1>n, <1>s, <2>1
<1>5. CASE PumpProp
  <2>1. /\ UNCHANGED <<changeTs, hookMark, valueTs, visiting>>
        /\ retTs'[q] \in {retTs[q], valueTs[q]}
    BY <1>5, PumpPropStamps DEF propVars
  <2> QED
    BY <1>n, <1>s, <2>1
<1>6. CASE UNCHANGED <<changeTs, propVars, retTs, hookMark, visiting>>
  BY <1>6, <1>s DEF propVars
<1> QED
  BY <1>1, <1>2, <1>3, <1>4, <1>5, <1>6, StampSteps

(* A value keeps its age, and only a resize can come between reading a     *)
(* value and stamping it.                                                  *)
LEMMA FreshStep == IInv /\ [Next]_vars => Fresh'
<1> DEFINE FreshAt(q) ==
      /\ readAt[q] <= changeTs[q] /\ (readAt[q] = changeTs[q] => read[q] = value[q])
      /\ visiting = q => /\ fetched[2] <= changeTs[q]
                         /\ fetched[2] = changeTs[q] => fetched[1] = value[q]
      /\ "change" \in Registered /\ 0 < valueTs[q] /\ retTs[q] = valueTs[q]
           => page[q] = read[q]
      /\ q \notin Rendered => /\ readAt[q] = valueTs[q] /\ knownAt[q] = retTs[q]
                              /\ visiting = q => fetched[2] = changeTs[q]
<1> SUFFICES ASSUME IInv, [Next]_vars, NEW q \in Props PROVE FreshAt(q)'
  BY DEF Fresh
<1>n. /\ changeTs[q] \in Nat /\ valueTs[q] \in Nat /\ retTs[q] \in Nat
      /\ readAt[q] \in Nat /\ knownAt[q] \in Nat /\ fetched[2] \in Nat
  BY StampTypes
<1>s. /\ retTs[q] <= valueTs[q] /\ valueTs[q] <= changeTs[q]
      /\ visiting = q => valueTs[q] < changeTs[q]
      /\ FreshAt(q)
  BY DEF IInv, Stamped, Fresh
<1>1. CASE Raised
  <2>1. visiting = 0 => visiting # q
    BY DEF Props
  <2>2. UNCHANGED <<valueTs, read, readAt, retTs, knownAt, visiting, fetched, page>>
    BY <1>1 DEF Raised, propVars, clientVars
  <2>3. CASE changeTs'[q] = changeTs[q] + 1 /\ (q \in Rendered \/ visiting = 0)
    BY <1>n, <1>s, <2>1, <2>2, <2>3
  <2>4. CASE changeTs'[q] = changeTs[q] /\ value'[q] = value[q]
    BY <1>s, <2>2, <2>4
  <2> QED
    BY <1>1, <2>3, <2>4 DEF Raised
<1>2. CASE RunHook
  <2>1. UNCHANGED <<changeTs, value, valueTs, read, readAt, retTs, knownAt, visiting, fetched, page>>
    BY <1>2 DEF RunHook, propVars, clientVars, pageVars
  <2> QED
    BY <1>s, <2>1
<1>3. CASE SendBegin
  <2>1. /\ UNCHANGED <<changeTs, value, valueTs, read, readAt, retTs, knownAt, page>>
        /\ visiting' = q => fetched'[1] = value[q] /\ fetched'[2] = changeTs[q]
    BY <1>3, SendBeginStamps DEF propVars, clientVars
  <2> QED
    BY <1>n, <1>s, <2>1
<1>4. ASSUME NEW p \in Props, SendProp(p), p # q PROVE FreshAt(q)'
  <2>1. /\ UNCHANGED <<changeTs, value, page>>
        /\ valueTs'[q] = valueTs[q] /\ retTs'[q] = retTs[q] /\ read'[q] = read[q]
        /\ readAt'[q] = readAt[q] /\ knownAt'[q] = knownAt[q]
        /\ visiting' = q => fetched'[1] = value[q] /\ fetched'[2] = changeTs[q]
    BY <1>4, SendPropStamps
  <2> QED
    BY <1>n, <1>s, <2>1
<1>5. CASE SendProp(q)
  <2>1. /\ visiting = q /\ visiting' # q /\ UNCHANGED <<changeTs, value, page>>
        /\ valueTs'[q] = changeTs[q] /\ readAt'[q] = fetched[2] /\ read'[q] = fetched[1]
    BY <1>5, SendPropStamps
  <2>2. \/ retTs'[q] = retTs[q] /\ knownAt'[q] = knownAt[q]
        \/ /\ retTs'[q] = changeTs[q] /\ knownAt'[q] = fetched[2]
           /\ 0 < valueTs[q] /\ read[q] = fetched[1] /\ retTs[q] = valueTs[q]
    BY <1>5, SendPropStamps
  <2>3. retTs[q] # changeTs[q]
    BY <1>n, <1>s, <2>1
  <2> QED
    BY <1>n, <1>s, <2>1, <2>2, <2>3
<1>6. CASE PumpProp
  <2>1. UNCHANGED <<changeTs, value, valueTs, read, readAt, visiting, fetched>>
    BY <1>6, PumpPropStamps DEF propVars
  <2>2. \/ /\ retTs'[q] = valueTs[q] /\ knownAt'[q] = readAt[q]
           /\ "change" \in Registered => page'[q] = read[q]
        \/ retTs'[q] = retTs[q] /\ knownAt'[q] = knownAt[q] /\ page'[q] = page[q]
    BY <1>6, PumpPropStamps
  <2> QED
    BY <1>s, <2>1, <2>2
<1>7. CASE UNCHANGED <<changeTs, value, propVars, retTs, knownAt, visiting, fetched, page>>
  BY <1>7, <1>s DEF propVars
<1> QED
  BY <1>1, <1>2, <1>3, <1>4, <1>5, <1>6, <1>7, StampSteps

(* A hook is marked before anything it waits for is given to the page.     *)
LEMMA MarkedStep == IInv /\ [Next]_vars => Marked'
<1> SUFFICES ASSUME IInv, [Next]_vars PROVE Marked'
  OBVIOUS
<1>0. /\ changeTs \in [Props -> Nat] /\ valueTs \in [Props -> Nat]
      /\ retTs \in [Props -> Nat] /\ hookMark \in [Props -> Nat]
      /\ events \in Seq(RingEvents) /\ waiting \in [Props -> BOOLEAN]
  BY DEF IInv, Typed
<1>h. events # <<>> => Head(events) \in RingEvents /\ (HookAtHead <=> Head(events) \in HookEvents)
  BY <1>0, TakeEvent, EventFacts DEF HookAtHead
<1>1. ASSUME NEW e \in RingEvents, e \notin HookEvents, events' = Append(events, e),
             UNCHANGED <<hookState, hookPending, waiting, retTs, hookMark>>
      PROVE  Marked'
  <2>1. /\ Holds(events', HookEvents) <=> Holds(events, HookEvents)
        /\ Once(events, HookEvents) => Once(events', HookEvents)
        /\ events # <<>> => Head(events') = Head(events)
        /\ events' # <<>>
    BY <1>0, <1>1, AddEvent
  <2>2. HookAtHead => HookAtHead'
    BY <2>1 DEF HookAtHead
  <2> QED
    BY <1>1, <2>1, <2>2 DEF IInv, Marked
<1>2. CASE Broadcast
  <2>0. UNCHANGED <<hookState, hookPending, waiting, retTs, hookMark>>
    BY <1>2 DEF Broadcast, clientVars
  <2>1. sent + 1 \in 1..MaxSent
    BY <1>2, BoundsAssumption DEF Broadcast, IInv, Typed
  <2>2. <<"sent", sent + 1>> \in RingEvents /\ <<"sent", sent + 1>> \notin HookEvents
    BY <2>1, NewEvents
  <2>3. CASE SendSucceeds(<<"sent", sent + 1>>)
    BY <1>1, <2>0, <2>2, <2>3 DEF SendSucceeds
  <2>4. CASE SendFails
    BY <2>0, <2>4 DEF SendFails, IInv, Marked, HookAtHead
  <2> QED
    BY <1>2, <2>3, <2>4 DEF Broadcast
<1>3. CASE RunHook
  <2>0. hookState = "none" /\ UNCHANGED <<hookPending, waiting, retTs>>
    BY <1>3 DEF RunHook, clientVars
  <2>1. ~Holds(events, HookEvents)
    BY <2>0 DEF IInv, Marked
  <2>2. ~HookAtHead /\ ~hookPending
    BY <1>0, <1>h, <2>1, TakeEvent DEF IInv, Marked, HookAtHead
  <2>3. CASE SendSucceeds(<<"hook", hooks + 1>>) /\ hookState' = "sent"
    <3>1. <<"hook", hooks + 1>> \in RingEvents
      BY NewEvents DEF IInv, Typed
    <3>2. Once(events', HookEvents)
      BY <1>0, <2>1, <2>3, <3>1, AddEvent DEF SendSucceeds, IInv, Marked
    <3> QED
      BY <2>0, <2>2, <2>3, <3>2 DEF Marked
  <2>4. CASE SendFails /\ UNCHANGED <<hookState, hookMark>>
    BY <2>0, <2>2, <2>4 DEF SendFails, IInv, Marked
  <2> QED
    BY <1>3, <2>3, <2>4 DEF RunHook
<1>4. CASE ContinueHook
  <2>1. hookState = "posted" /\ UNCHANGED <<events, hookPending, waiting, retTs, hookMark>>
        /\ hookState' = "none"
    BY <1>4 DEF ContinueHook, ringVars, clientVars, coreVars
  <2> QED
    BY <2>1 DEF IInv, Marked, HookAtHead
<1>5. ASSUME NEW n \in Calls, Reply(n) PROVE Marked'
  <2>1. events' = Append(events, <<"reply", n>>)
        /\ UNCHANGED <<hookState, hookPending, waiting, retTs, hookMark>>
    BY <1>5 DEF Reply, clientVars
  <2> QED
    BY <1>1, <2>1, NewEvents
<1>6. ASSUME NEW p \in Props, SendProp(p) PROVE Marked'
  <2>1. UNCHANGED <<events, hookState, hookPending, hookMark>>
    BY <1>6 DEF SendProp, ringVars
  <2>2. \A q \in Props : waiting[q] \/ hookMark[q] <= retTs[q]
                           => waiting'[q] \/ hookMark'[q] <= retTs'[q]
    BY <1>0, <1>6, SendPropStamps DEF IInv, Stamped
  <2> QED
    BY <2>1, <2>2 DEF IInv, Marked, HookAtHead
<1>7. CASE PumpRing
  <2>1. /\ events # <<>> /\ events' = Tail(events) /\ hookMark' = hookMark
        /\ hookPending' = (hookPending /\ Head(events)[1] # "hook")
    BY <1>7 DEF PumpRing, coreVars
  <2>2. ~hookPending'
    BY <2>1 DEF IInv, Marked, HookAtHead
  <2>3. Once(events', HookEvents)
    BY <1>0, <2>1, TakeEvent DEF IInv, Marked
  <2>4. CASE Head(events)[1] = "hook"
    <3>1. ~Holds(events', HookEvents)
      BY <1>0, <1>h, <2>1, <2>4, TakeEvent DEF IInv, Marked, HookAtHead
    <3> QED
      BY <2>2, <2>3, <3>1 DEF Marked
  <2>5. CASE Head(events)[1] # "hook"
    <3>1. hookState' = hookState
      BY <1>7, <2>5 DEF PumpRing, PostRingEvent
    <3>2. Holds(events', HookEvents) => Holds(events, HookEvents)
      BY <1>0, <2>1, TakeEvent
    <3> QED
      BY <2>2, <2>3, <3>1, <3>2 DEF IInv, Marked
  <2> QED
    BY <2>4, <2>5
<1>m. hookState = "sent" /\ (hookPending \/ HookAtHead) =>
        \A q \in Props : WaitingAfterMark[q] \/ hookMark[q] <= retTs[q]
  BY <1>0, MarkFacts DEF IInv, Marked, Stamped
<1>8. CASE PumpProp
  <2>1. hookPending' = (hookPending \/ HookAtHead)
    BY <1>8 DEF PumpProp
  <2>2. PICK p \in Props :
           /\ Ready(p)
           /\ UNCHANGED <<hookMark, events, hookState>>
           /\ retTs'[p] = valueTs[p]
           /\ \A q \in Props : q # p => /\ retTs'[q] = retTs[q]
                                        /\ waiting'[q] = WaitingAfterMark[q]
    BY <1>8, PumpPropStamps
  <2>3. hookMark'[p] <= retTs'[p]
    BY <2>2 DEF IInv, Stamped, Ready
  <2> QED
    BY <1>m, <2>1, <2>2, <2>3 DEF IInv, Marked, HookAtHead
<1>9. CASE PumpEmpty
  <2>1. /\ hookPending' = (hookPending \/ HookAtHead) /\ waiting' = WaitingAfterMark
        /\ UNCHANGED <<events, hookState, retTs, hookMark>>
    BY <1>9 DEF PumpEmpty, ringVars, coreVars
  <2> QED
    BY <1>m, <2>1 DEF IInv, Marked, HookAtHead
<1>10. CASE UNCHANGED <<events, hookState, hookPending, waiting, retTs, hookMark>>
  BY <1>10 DEF IInv, Marked, HookAtHead
<1>11. \/ Broadcast \/ RunHook \/ ContinueHook \/ (\E n \in Calls : Reply(n))
       \/ (\E p \in Props : SendProp(p)) \/ PumpRing \/ PumpProp \/ PumpEmpty
       \/ UNCHANGED <<events, hookState, hookPending, waiting, retTs, hookMark>>
  <2>1. CASE Request
    BY <2>1 DEF Request, clientVars
  <2>2. CASE SendBegin
    BY <2>2 DEF SendBegin, ringVars
  <2>5. CASE \E p \in Props : Change(p) \/ Resize(p)
    BY <2>5 DEF Change, Resize, ringVars, clientVars
  <2>3. CASE PumpStep
    BY <2>3 DEF PumpStep, PumpBegin, PumpOverflow, PumpAgain, PumpEnd, ringVars, clientVars,
                coreVars
  <2>4. CASE UNCHANGED vars
    BY <2>4 DEF vars, ringVars, clientVars, coreVars
  <2> QED
    BY <2>1, <2>2, <2>3, <2>4, <2>5 DEF Next, SendChanges, Stopped
<1> QED
  BY <1>2, <1>3, <1>4, <1>5, <1>6, <1>7, <1>8, <1>9, <1>10, <1>11

-----------------------------------------------------------------------------
(* Every step preserves the invariant: tasks.                              *)

(* What can be delivered, without the least of the candidates.             *)
CanDeliver ==
  \/ \E p \in Props : Ready(p) /\ (newProps \/ p > propIndex)
  \/ /\ events # <<>>
     /\ HookAtHead => \A p \in Props : ~waiting[p] /\ (hookPending \/ retTs[p] = changeTs[p])
  \/ choked /\ events = <<>> /\ reserved = 0

(* It is what mpv_wait_event would return.                                 *)
LEMMA DeliverableFacts == Typed => (Deliverable <=> CanDeliver)
<1> SUFFICES ASSUME Typed PROVE Deliverable <=> CanDeliver
  OBVIOUS
<1>1. Candidates # {} <=> \E p \in Props : Ready(p) /\ (newProps \/ p > propIndex)
  BY CandidateFacts
<1>2. ~HookDelayed <=>
        (HookAtHead => \A p \in Props : ~waiting[p] /\ (hookPending \/ retTs[p] = changeTs[p]))
  BY DelayFacts
<1> QED
  BY <1>1, <1>2 DEF Deliverable, CanDeliver

(* A call of the wakeup callback is covered, and a task stays one.         *)
LEMMA CoveredSteps ==
  ASSUME IInv, pump' = pump
  PROVE  /\ WakeupClient => Covered'
         /\ UNCHANGED wakeVars => (Covered' <=> Covered)
<1>1. wakeups \in Nat
  BY DEF IInv, Typed
<1>2. ASSUME WakeupClient PROVE Covered'
  <2>1. CASE needWakeup
    <3>1. Covered /\ needWakeup' /\ wakeups' = wakeups
      BY <1>2, <2>1 DEF WakeupClient, IInv, Woken
    <3> QED
      BY <3>1 DEF Covered
  <2>2. CASE ~needWakeup
    <3>1. wakeups' > 0
      BY <1>1, <1>2, <2>2 DEF WakeupClient
    <3> QED
      BY <3>1 DEF Covered
  <2> QED
    BY <2>1, <2>2
<1>4. UNCHANGED wakeVars => (Covered' <=> Covered)
  BY DEF Covered, wakeVars
<1> QED
  BY <1>2, <1>4

(* A change or a read never makes a hook or a property deliverable that    *)
(* nobody will look at.                                                    *)
LEMMA WokenStep == IInv /\ Typed' /\ [Next]_vars => Woken'
<1> SUFFICES ASSUME IInv, Typed', [Next]_vars PROVE Woken'
  OBVIOUS
<1>0. /\ changeTs \in [Props -> Nat] /\ valueTs \in [Props -> Nat]
      /\ retTs \in [Props -> Nat] /\ waiting \in [Props -> BOOLEAN]
      /\ propIndex \in 0..NumProps /\ newProps \in BOOLEAN
  BY DEF IInv, Typed
<1>1. /\ Deliverable <=> CanDeliver
      /\ Deliverable' <=> CanDeliver'
  <2>1. Deliverable <=> CanDeliver
    BY DeliverableFacts DEF IInv
  <2>2. Typed' => (Deliverable' <=> CanDeliver')
    BY DeliverableFacts, PTL
  <2> QED
    BY <2>1, <2>2
<1>w. /\ needWakeup => Covered
      /\ HookAtHead /\ ~hookPending => Covered
      /\ CanDeliver => Covered \/ (visiting # 0 /\ newProps)
  BY <1>1 DEF IInv, Woken
<1>c. Covered' => Woken'
  BY DEF Woken
<1>p. pump' = "scan" => Woken'
  BY <1>c DEF Covered
<1>s. ASSUME UNCHANGED <<pump, wakeVars, events, hookPending, visiting, newProps>>,
             CanDeliver' => CanDeliver
      PROVE  Woken'
  BY <1>1, <1>w, <1>s, CoveredSteps DEF Woken, HookAtHead, wakeVars
<1>r. ASSUME Raised
      PROVE  \A q \in Props : /\ Ready(q)' => Ready(q)
                              /\ retTs'[q] = changeTs'[q] => retTs[q] = changeTs[q]
  <2> SUFFICES ASSUME NEW q \in Props
               PROVE  /\ Ready(q)' => Ready(q)
                      /\ retTs'[q] = changeTs'[q] => retTs[q] = changeTs[q]
    OBVIOUS
  <2>1. /\ changeTs[q] \in Nat /\ valueTs[q] \in Nat /\ retTs[q] \in Nat
        /\ retTs[q] <= valueTs[q] /\ valueTs[q] <= changeTs[q]
    BY <1>0 DEF IInv, Stamped
  <2>2. changeTs'[q] \in {changeTs[q], changeTs[q] + 1} /\ UNCHANGED <<valueTs, retTs>>
    BY <1>r DEF Raised, propVars, clientVars
  <2> QED
    BY <2>1, <2>2 DEF Ready
<1>2. CASE Broadcast \/ RunHook
  <2>1. /\ UNCHANGED <<pump, hookPending, visiting, newProps, propIndex, waiting>>
        /\ SendFails \/ WakeupClient
    BY <1>2 DEF Broadcast, RunHook, SendSucceeds, clientVars
  <2>2. CASE WakeupClient
    BY <1>c, <2>1, <2>2, CoveredSteps
  <2>3. CASE SendFails
    <3>1. UNCHANGED <<events, reserved, wakeVars>>
      BY <2>3 DEF SendFails, wakeVars
    <3>2. events = <<>> /\ reserved = 0 => choked
      BY <2>3, RingAssumption DEF SendFails, Accepts, Room
    <3>3. \A q \in Props : /\ Ready(q)' => Ready(q)
                           /\ retTs'[q] = changeTs'[q] => retTs[q] = changeTs[q]
      <4>1. CASE Broadcast
        BY <1>r, <4>1, RaisedFacts
      <4>2. CASE RunHook
        BY <4>2 DEF RunHook, Ready, propVars, clientVars
      <4> QED
        BY <1>2, <4>1, <4>2
    <3>4. CanDeliver' => CanDeliver
      BY <2>1, <3>1, <3>2, <3>3 DEF CanDeliver, HookAtHead
    <3> QED
      BY <1>s, <2>1, <3>1, <3>4
  <2> QED
    BY <2>1, <2>2, <2>3
<1>3. CASE ContinueHook
  <2>1. UNCHANGED <<ringVars, wakeVars, pump, clientVars, propVars, coreVars>>
    BY <1>3 DEF ContinueHook
  <2>2. CanDeliver' => CanDeliver
    BY <2>1 DEF CanDeliver, Ready, HookAtHead, ringVars, clientVars, propVars, coreVars
  <2> QED
    BY <1>s, <2>1, <2>2 DEF ringVars, clientVars, coreVars
<1>4. CASE Request
  <2>1. /\ UNCHANGED <<events, choked, wakeVars, pump, clientVars, propVars, visiting, changeTs>>
        /\ reserved' = reserved + 1
    BY <1>4 DEF Request
  <2>2. reserved' # 0
    BY <2>1 DEF IInv, Typed
  <2>3. CanDeliver' => CanDeliver
    BY <2>1, <2>2 DEF CanDeliver, Ready, HookAtHead, clientVars, propVars
  <2> QED
    BY <1>s, <2>1, <2>3 DEF clientVars
<1>5. ASSUME NEW n \in Calls, Reply(n) PROVE Woken'
  BY <1>5, <1>c, CoveredSteps DEF Reply
<1>6. CASE \E p \in Props : Change(p) \/ Resize(p)
  <2>1. UNCHANGED <<ringVars, wakeVars, pump, clientVars, visiting>>
    BY <1>6 DEF Change, Resize
  <2>2. \A q \in Props : /\ Ready(q)' => Ready(q)
                         /\ retTs'[q] = changeTs'[q] => retTs[q] = changeTs[q]
    BY <1>6, <1>r, RaisedFacts
  <2>3. CanDeliver' => CanDeliver
    BY <2>1, <2>2 DEF CanDeliver, HookAtHead, ringVars, clientVars
  <2> QED
    BY <1>s, <2>1, <2>3 DEF ringVars, clientVars
<1>v. ASSUME NEW S \in SUBSET Props, Visit(S), newProps' \in BOOLEAN
      PROVE  \/ newProps' /\ WakeupClient
             \/ newProps' /\ visiting' # 0 /\ UNCHANGED wakeVars
             \/ ~newProps' /\ UNCHANGED wakeVars
  BY <1>v, VisitFacts DEF IInv
<1>7. CASE SendBegin
  <2>1. /\ UNCHANGED <<ringVars, pump, clientVars, propVars, changeTs>> /\ visiting = 0
        /\ UNCHANGED newProps
    BY <1>7 DEF SendBegin, clientVars
  <2>2. CanDeliver' => CanDeliver
    BY <2>1 DEF CanDeliver, Ready, HookAtHead, ringVars, clientVars, propVars
  <2>3. WakeupClient \/ UNCHANGED wakeVars
    <3>1. Visit({p \in Props : Stale(p, valueTs)})
      BY <1>7 DEF SendBegin
    <3> QED
      BY <1>0, <1>v, <2>1, <3>1
  <2>4. CASE WakeupClient
    BY <1>c, <2>1, <2>4, CoveredSteps
  <2>5. CASE UNCHANGED wakeVars
    <3>1. Covered' <=> Covered
      BY <2>1, <2>5, CoveredSteps
    <3> QED
      BY <1>1, <1>w, <2>1, <2>2, <2>5, <3>1 DEF Woken, HookAtHead, ringVars, clientVars, wakeVars
  <2> QED
    BY <2>3, <2>4, <2>5
<1>8. ASSUME NEW p \in Props, SendProp(p) PROVE Woken'
  <2>1. UNCHANGED <<ringVars, pump, hookPending, propIndex, changeTs>>
    BY <1>8 DEF SendProp
  <2>2. \/ newProps' /\ WakeupClient
        \/ newProps' /\ visiting' # 0 /\ UNCHANGED wakeVars
        \/ ~newProps' /\ UNCHANGED wakeVars
    <3>1. Visit({q \in Props : q > p /\ Stale(q, valueTs)}) /\ newProps' \in BOOLEAN
      BY <1>8 DEF SendProp
    <3> QED
      BY <1>v, <3>1
  <2>3. CASE newProps' /\ WakeupClient
    BY <1>c, <2>1, <2>3, CoveredSteps
  <2>4. CASE newProps' /\ visiting' # 0 /\ UNCHANGED wakeVars
    <3>1. Covered' <=> Covered
      BY <2>1, <2>4, CoveredSteps
    <3> QED
      BY <1>w, <2>1, <2>4, <3>1 DEF Woken, HookAtHead, ringVars, wakeVars
  <2>5. CASE ~newProps' /\ UNCHANGED wakeVars
    <3>2. Covered' <=> Covered
      BY <2>1, <2>5, CoveredSteps
    <3>3. /\ ~newProps /\ ~waiting[p] /\ ~Ready(p)'
          /\ \A q \in Props : q # p => /\ Ready(q)' <=> Ready(q)
                                       /\ waiting'[q] <=> waiting[q]
      BY <1>8, <2>5, SendPropStamps DEF Ready
    <3>4. CanDeliver' => CanDeliver \/ (HookAtHead /\ ~hookPending)
      BY <2>1, <2>5, <3>3 DEF CanDeliver, HookAtHead, ringVars
    <3> QED
      BY <1>1, <1>w, <2>1, <2>5, <3>2, <3>3, <3>4 DEF Woken, HookAtHead, ringVars, wakeVars
  <2> QED
    BY <2>2, <2>3, <2>4, <2>5
<1>9. CASE PumpBegin \/ PumpOverflow \/ PumpRing \/ PumpProp \/ PumpAgain
  BY <1>9, <1>p DEF PumpBegin, PumpOverflow, PumpRing, PumpProp, PumpAgain
<1>10. CASE PumpEmpty
  <2>1. /\ ~RingFirst /\ Candidates = {} /\ pump' = "wait"
        /\ hookPending' = (hookPending \/ HookAtHead)
        /\ waiting' = WaitingAfterMark /\ newProps' = FALSE /\ propIndex' = NumProps
        /\ UNCHANGED <<ringVars, wakeVars>>
    BY <1>10 DEF PumpEmpty
  <2>2. \A p \in Props : ~(p > propIndex')
    BY <2>1, RingAssumption DEF Props
  <2>3. events # <<>> => HookAtHead /\ \E p \in Props : waiting'[p]
    BY <2>1 DEF RingFirst, HookDelayed
  <2>4. ~CanDeliver'
    BY <2>1, <2>2, <2>3 DEF CanDeliver, RingFirst, HookAtHead, ringVars
  <2>5. HookAtHead' => hookPending'
    BY <2>1 DEF HookAtHead, ringVars
  <2>6. needWakeup' => Covered'
    BY <2>1 DEF Covered
  <2> QED
    BY <1>1, <2>4, <2>5, <2>6 DEF Woken
<1>11. CASE PumpEnd
  <2>1. /\ pump = "wait" /\ ~needWakeup /\ UNCHANGED <<needWakeup, wakeups>>
        /\ UNCHANGED <<ringVars, clientVars, propVars, coreVars>>
    BY <1>11 DEF PumpEnd, wakeVars
  <2>2. Covered => Covered'
    BY <2>1 DEF Covered
  <2>3. CanDeliver' => CanDeliver
    BY <2>1 DEF CanDeliver, Ready, HookAtHead, ringVars, clientVars, propVars, coreVars
  <2> QED
    BY <1>1, <1>w, <2>1, <2>2, <2>3 DEF Woken, HookAtHead, ringVars, clientVars, coreVars
<1>12. CASE UNCHANGED vars
  <2>1. UNCHANGED <<ringVars, wakeVars, pump, clientVars, propVars, coreVars>>
    BY <1>12 DEF vars
  <2>2. CanDeliver' => CanDeliver
    BY <2>1 DEF CanDeliver, Ready, HookAtHead, ringVars, clientVars, propVars, coreVars
  <2> QED
    BY <1>s, <2>1, <2>2 DEF ringVars, clientVars, coreVars
<1> QED
  BY <1>2, <1>3, <1>4, <1>5, <1>6, <1>7, <1>8, <1>9, <1>10, <1>11, <1>12
  DEF Next, SendChanges, PumpStep, Stopped

-----------------------------------------------------------------------------
(* The theorems.                                                           *)

(* Every step preserves the inductive invariant.                           *)
LEMMA StepIInv == IInv /\ [Next]_vars => IInv'
<1> SUFFICES ASSUME IInv, [Next]_vars PROVE IInv'
  OBVIOUS
<1>1. Typed'
  <2>1. CASE UNCHANGED vars
    BY <2>1 DEF IInv, Typed, vars, ringVars, wakeVars, clientVars, propVars, coreVars, pageVars
  <2> QED
    BY <2>1, TypedCore, TypedPump DEF Next, Stopped
<1> QED
  BY <1>1, SlotsStep, AnsweredStep, LossesStep, StampedStep, FreshStep, MarkedStep, WokenStep
  DEF IInv

(* The inductive invariant holds in every reachable state, whatever the    *)
(* sizes and the bounds.                                                   *)
THEOREM Invariance == Spec => []IInv
BY InitIInv, StepIInv, PTL DEF Spec

(* The variables of the event pump always have their types.                *)
THEOREM TypeCorrect == Spec => []TypeOK
<1>1. IInv => TypeOK
  <2> SUFFICES ASSUME IInv PROVE TypeOK
    OBVIOUS
  <2>1. events \in Seq(RingKinds \X Nat)
    <3>1. RingEvents \subseteq RingKinds \X Nat
      BY BoundsAssumption DEF RingEvents, RingKinds, Calls
    <3> QED
      BY <3>1 DEF IInv, Typed
  <2>2. lost \subseteq 1..MaxSent /\ reported \subseteq 1..MaxSent
    <3>1. 1..sent \subseteq 1..MaxSent
      BY BoundsAssumption DEF IInv, Typed
    <3> QED
      BY <3>1 DEF IInv, Losses
  <2>3. outstanding \subseteq Calls
    <3>1. 1..calls \subseteq Calls
      BY BoundsAssumption DEF IInv, Typed, Calls
    <3> QED
      BY <3>1 DEF IInv, Slots
  <2> QED
    BY <2>1, <2>2, <2>3 DEF IInv, Typed, TypeOK
<1> QED
  BY <1>1, Invariance, PTL

(* Every accepted request is with the core, in the ring or answered, in    *)
(* exactly one of the three, and its reply finds a slot: the abort() of    *)
(* send_reply is never reached.                                            *)
THEOREM RequestsAreAnsweredOnce == Spec => []RepliesKept
<1>1. IInv => RepliesKept
  <2> SUFFICES ASSUME IInv, "reply" \in Registered, NEW n \in 1..calls
               PROVE  LET places == {i \in DOMAIN events : events[i] = <<"reply", n>>}
                      IN Cardinality(places) + answers[n]
                           + (IF n \in outstanding THEN 1 ELSE 0) = 1
    BY DEF IInv, Slots, RepliesKept
  <2> DEFINE places == {i \in DOMAIN events : events[i] = <<"reply", n>>}
  <2>1. n \in Calls /\ n <= calls
    BY BoundsAssumption DEF IInv, Typed, Calls
  <2>2. answers[n] \in Nat
    BY <2>1 DEF IInv, Typed
  <2>3. ASSUME Holds(events, Replied(n))
        PROVE  Cardinality(places) = 1 /\ n \notin outstanding /\ answers[n] = 0
    <3>1. PICK i \in DOMAIN events : events[i] = <<"reply", n>>
      BY <2>3 DEF Holds, Replied
    <3>2. places = {i}
      BY <2>1, <3>1 DEF IInv, Answered, Once, Replied
    <3> QED
      BY <2>1, <2>3, <3>2, FS_Singleton DEF IInv, Answered
  <2>4. ASSUME ~Holds(events, Replied(n))
        PROVE  /\ Cardinality(places) = 0
               /\ IF n \in outstanding THEN answers[n] = 0 ELSE answers[n] = 1
    <3>1. places = {}
      BY <2>4 DEF Holds, Replied
    <3>2. Cardinality(places) = 0
      BY <3>1, FS_EmptySet
    <3> QED
      BY <2>1, <2>4, <3>2 DEF IInv, Answered
  <2>5. Cardinality(places) + answers[n] + (IF n \in outstanding THEN 1 ELSE 0) = 1
    <3> HIDE DEF places
    <3> QED
      BY <2>3, <2>4
  <2> QED
    BY <2>5
<1> QED
  BY <1>1, Invariance, PTL

(* An event the page never gets is one that an overflow event has told it  *)
(* of, before it gets any later one.                                       *)
THEOREM LossesAreReported == Spec => []LossIsReported
<1>1. IInv => LossIsReported
  <2> SUFFICES ASSUME IInv PROVE LossIsReported
    OBVIOUS
  <2>1. lost # reported => choked
    BY DEF IInv, Losses
  <2>2. ASSUME NEW n \in lost, n < seen PROVE n \in reported
    <3>1. seen \in Nat /\ n \in Nat
      BY BoundsAssumption DEF IInv, Typed, Losses
    <3>2. n \in lost \ reported => seen < n
      BY DEF IInv, Losses
    <3> QED
      BY <2>2, <3>1, <3>2
  <2> QED
    BY <2>1, <2>2 DEF LossIsReported
<1> QED
  BY <1>1, Invariance, PTL

(* Nothing that mpv_wait_event could return is left without a posted, a    *)
(* running or a repeated HandleMPVEvents.                                  *)
THEOREM WakeupsAreKept == Spec => []NoLostWakeup
<1>1. IInv => NoLostWakeup
  BY DEF IInv, Woken, NoLostWakeup
<1> QED
  BY <1>1, Invariance, PTL

(* A hook that the pump does not delay waits for no property any more.     *)
LEMMA HookStep == IInv /\ [Next]_vars =>
  [hookState' = "posted" => \A p \in Props \ Rendered : knownAt[p] >= hookMark[p]]_hookState
<1> SUFFICES ASSUME IInv, [Next]_vars, hookState' # hookState, hookState' = "posted",
                    NEW p \in Props \ Rendered
             PROVE  knownAt[p] >= hookMark[p]
  OBVIOUS
<1>1. PumpRing /\ Head(events)[1] = "hook"
  <2>1. CASE Broadcast \/ RunHook \/ ContinueHook \/ Request \/ \E n \in Calls : Reply(n)
    BY <2>1 DEF Broadcast, RunHook, ContinueHook, Request, Reply
  <2>2. CASE SendChanges \/ \E q \in Props : Change(q) \/ Resize(q)
    BY <2>2 DEF SendChanges, SendBegin, SendProp, Change, Resize
  <2>3. CASE PumpStep
    BY <2>3 DEF PumpStep, PumpBegin, PumpOverflow, PumpRing, PostRingEvent, PumpProp, PumpEmpty,
                PumpAgain, PumpEnd
  <2>4. CASE UNCHANGED vars
    BY <2>4 DEF vars
  <2> QED
    BY <2>1, <2>2, <2>3, <2>4 DEF Next, Stopped
<1>2. events \in Seq(RingEvents) /\ events # <<>> /\ HookAtHead /\ ~HookDelayed
  BY <1>1 DEF PumpRing, HookAtHead, IInv, Typed
<1>3. Holds(events, HookEvents)
  BY <1>2, TakeEvent, EventFacts DEF HookAtHead
<1>4. hookState = "sent"
  BY <1>3 DEF IInv, Marked
<1>5. ~waiting[p] /\ (hookPending \/ retTs[p] = changeTs[p])
  BY <1>2, DelayFacts DEF IInv
<1>6. /\ retTs[p] \in Nat /\ changeTs[p] \in Nat /\ hookMark[p] \in Nat
      /\ hookMark[p] <= changeTs[p] /\ knownAt[p] = retTs[p]
  BY StampTypes DEF IInv, Stamped, Fresh
<1>7. hookPending => hookMark[p] <= retTs[p]
  BY <1>4, <1>5 DEF IInv, Marked
<1> QED
  BY <1>5, <1>6, <1>7

(* When a hook reaches the page, the page was sent every property that the *)
(* rendering does not change as it was read after the last change that     *)
(* came before the hook.                                                   *)
THEOREM HooksComeAfterProperties == Spec => HookSeesProperties
BY Invariance, HookStep, PTL DEF Spec, HookSeesProperties

(* Of a property that the rendering does not change, the page has the      *)
(* core's value whenever the client API counts its last change as          *)
(* returned; so no change is skipped, coalesced or compared away wrongly.  *)
THEOREM PageHasWhatWasReturned == Spec => []PageHasValues
<1>1. IInv => PageHasValues
  <2> SUFFICES ASSUME IInv, "change" \in Registered, NEW p \in Props \ Rendered,
                      retTs[p] = changeTs[p]
               PROVE  page[p] = value[p]
    BY DEF PageHasValues
  <2>1. /\ retTs[p] \in Nat /\ changeTs[p] \in Nat /\ valueTs[p] \in Nat
        /\ retTs[p] <= valueTs[p] /\ valueTs[p] <= changeTs[p] /\ 0 < changeTs[p]
    BY StampTypes DEF IInv, Stamped
  <2>2. valueTs[p] = changeTs[p] /\ 0 < valueTs[p] /\ retTs[p] = valueTs[p]
    BY <2>1
  <2>3. page[p] = read[p] /\ read[p] = value[p]
    BY <2>2 DEF IInv, Fresh
  <2> QED
    BY <2>3
<1> QED
  BY <1>1, Invariance, PTL

=============================================================================
