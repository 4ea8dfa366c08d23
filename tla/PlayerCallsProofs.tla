-------------------------- MODULE PlayerCallsProofs --------------------------
(***************************************************************************)
(* Proofs about PlayerCalls for every set of listeners and every number of *)
(* steps: the type invariant, OwnAnswer, ListenersServed and               *)
(* HookContinuedOnce.                                                      *)
(*                                                                         *)
(* All three are about messages under way, so the invariant says what a    *)
(* message in each channel may be (Shape): a call and its reply carry the  *)
(* call's own id, because ids are dealt one by one; the last word about    *)
(* the event in the channel agrees with the page's table (Says); and a run *)
(* of the hook is in one place at a time (OneRun): announced, with a       *)
(* handler that has not continued it, or continued with the message on its *)
(* way.                                                                    *)
(***************************************************************************)
EXTENDS PlayerCalls, FiniteSetTheorems, TLAPS

-----------------------------------------------------------------------------
(* The messages.                                                           *)

Known == Values \cup {NoValue}
CallMsgs == {Msg(k, c, c) : k \in Kinds, c \in Calls}
Answers == {[type |-> k, of |-> c, value |-> v] : k \in Kinds, c \in Calls, v \in Known}

ToPlugin == CallMsgs \cup [type : {"register", "unregister"}, id : {0}, of : Events]
                     \cup [type : {"observe_property", "unobserve_property"},
                           id : 0..MaxSteps, of : {0}]
                     \cup [type : {"hook_add", "hook_continue"}, id : {1}, of : {0}]

ToPage == {m \in [type : {"reply"}, id : Calls, of : Answers] : m.of.of = m.id}
          \cup [type : {"property-change"}, id : 0..MaxSteps, of : Known]
          \cup [type : {"hook", PageEvent}, id : {0, 1}, of : {0}]

Has(s, t) == \E i \in DOMAIN s : s[i].type = t
Once(s, t) == \A i, k \in DOMAIN s : s[i].type = t /\ s[k].type = t => i = k

(* A word about the event, and the last of them.                           *)
Word(m) == m.type \in {"register", "unregister"} /\ m.of = PageEvent
LastWord(s, i) == Word(s[i]) /\ \A k \in DOMAIN s : k > i => ~Word(s[k])

(* Whoever has registered regs and reads s ends up forwarding the event    *)
(* exactly if hs is not empty.                                             *)
Says(s, regs, hs) ==
  /\ \A i \in DOMAIN s : LastWord(s, i) => (s[i].type = "register" <=> hs # {})
  /\ (\A i \in DOMAIN s : ~Word(s[i])) => (PageEvent \in regs <=> hs # {})

(* The indices of what is left when the first message is read.             *)
LEMMA Taken ==
  ASSUME NEW S, NEW s \in Seq(S), s # <<>>
  PROVE  /\ Tail(s) \in Seq(S) /\ Head(s) = s[1] /\ 1 \in DOMAIN s /\ Head(s) \in S
         /\ DOMAIN s \subseteq Nat /\ DOMAIN Tail(s) \subseteq Nat
         /\ \A i \in DOMAIN s : i = 1 \/ (i - 1 \in DOMAIN Tail(s) /\ Tail(s)[i - 1] = s[i])
         /\ \A i \in DOMAIN Tail(s) : i + 1 \in DOMAIN s /\ i + 1 # 1 /\ Tail(s)[i] = s[i + 1]
<1>1. /\ Len(s) \in Nat \ {0} /\ DOMAIN s = 1..Len(s)
      /\ Tail(s) \in Seq(S) /\ Head(s) = s[1] /\ Head(s) \in S
      /\ DOMAIN Tail(s) = 1..(Len(s) - 1)
      /\ \A i \in 1..(Len(s) - 1) : Tail(s)[i] = s[i + 1]
  OBVIOUS
<1> QED
  BY <1>1

(* The indices after a post.                                               *)
LEMMA Posted ==
  ASSUME NEW S, NEW s \in Seq(S), NEW m \in S
  PROVE  /\ Append(s, m) \in Seq(S) /\ DOMAIN s \subseteq Nat
         /\ \A i \in DOMAIN s : i \in DOMAIN Append(s, m) /\ Append(s, m)[i] = s[i]
         /\ \E n \in DOMAIN Append(s, m) \ DOMAIN s :
              /\ n \in Nat /\ Append(s, m)[n] = m
              /\ \A i \in DOMAIN Append(s, m) : i = n \/ (i \in DOMAIN s /\ i < n)
<1>1. /\ Len(s) \in Nat /\ DOMAIN s = 1..Len(s) /\ Append(s, m) \in Seq(S)
      /\ DOMAIN Append(s, m) = 1..(Len(s) + 1)
      /\ \A i \in 1..Len(s) : Append(s, m)[i] = s[i]
      /\ Append(s, m)[Len(s) + 1] = m
  OBVIOUS
<1>2. Len(s) + 1 \in DOMAIN Append(s, m) \ DOMAIN s
  BY <1>1
<1>3. \A i \in DOMAIN Append(s, m) : i = Len(s) + 1 \/ (i \in DOMAIN s /\ i < Len(s) + 1)
  BY <1>1
<1> QED
  BY <1>1, <1>2, <1>3

(* Reading a message takes one of its type and none of another.            *)
LEMMA ReadTypes ==
  ASSUME NEW S, NEW s \in Seq(S), s # <<>>, NEW t
  PROVE  /\ Has(Tail(s), t) => Has(s, t)
         /\ Head(s).type = t => Has(s, t)
         /\ Once(s, t) => Once(Tail(s), t)
         /\ Head(s).type = t /\ Once(s, t) => ~Has(Tail(s), t)
<1>1. Has(Tail(s), t) => Has(s, t)
  BY Taken DEF Has
<1>2. Head(s).type = t => Has(s, t)
  BY Taken DEF Has
<1>3. Once(s, t) => Once(Tail(s), t)
  <2> SUFFICES ASSUME Once(s, t), NEW i \in DOMAIN Tail(s), NEW k \in DOMAIN Tail(s),
                      Tail(s)[i].type = t, Tail(s)[k].type = t
               PROVE  i = k
    BY DEF Once
  <2>1. i + 1 = k + 1 /\ i \in Nat /\ k \in Nat
    BY Taken DEF Once
  <2> QED
    BY <2>1
<1>4. Head(s).type = t /\ Once(s, t) => ~Has(Tail(s), t)
  <2> SUFFICES ASSUME Head(s).type = t, Once(s, t), NEW i \in DOMAIN Tail(s),
                      Tail(s)[i].type = t
               PROVE  FALSE
    BY DEF Has
  <2>1. 1 \in DOMAIN s /\ s[1].type = t /\ i + 1 \in DOMAIN s /\ s[i + 1].type = t /\ i + 1 # 1
    BY Taken
  <2> QED
    BY <2>1 DEF Once
<1> QED
  BY <1>1, <1>2, <1>3, <1>4

(* Posting a message adds one of its type.                                 *)
LEMMA PostTypes ==
  ASSUME NEW S, NEW s \in Seq(S), NEW m \in S, NEW t
  PROVE  /\ Has(Append(s, m), t) <=> Has(s, t) \/ m.type = t
         /\ Once(s, t) /\ (m.type # t \/ ~Has(s, t)) => Once(Append(s, m), t)
<1>1. PICK n \in DOMAIN Append(s, m) \ DOMAIN s :
        /\ Append(s, m)[n] = m
        /\ \A i \in DOMAIN Append(s, m) : i = n \/ i \in DOMAIN s
  BY Posted
<1>2. \A i \in DOMAIN s : i \in DOMAIN Append(s, m) /\ Append(s, m)[i] = s[i]
  BY Posted
<1>3. Has(Append(s, m), t) <=> Has(s, t) \/ m.type = t
  BY <1>1, <1>2 DEF Has
<1>4. Once(s, t) /\ (m.type # t \/ ~Has(s, t)) => Once(Append(s, m), t)
  BY <1>1, <1>2 DEF Has, Once
<1> QED
  BY <1>3, <1>4

(* Reading anything but a word about the event leaves what is said; so     *)
(* does reading a word and doing what it says.                             *)
LEMMA ReadSays ==
  ASSUME NEW S, NEW s \in Seq(S), s # <<>>, NEW regs, NEW news, NEW hs, Says(s, regs, hs),
         Word(Head(s)) => (PageEvent \in news <=> Head(s).type = "register"),
         ~Word(Head(s)) => (PageEvent \in news <=> PageEvent \in regs)
  PROVE  Says(Tail(s), news, hs)
<1>1. ASSUME NEW i \in DOMAIN Tail(s), LastWord(Tail(s), i)
      PROVE  Tail(s)[i].type = "register" <=> hs # {}
  <2>1. i + 1 \in DOMAIN s /\ Tail(s)[i] = s[i + 1] /\ i \in Nat
    BY Taken
  <2>2. ASSUME NEW k \in DOMAIN s, k > i + 1
        PROVE  ~Word(s[k])
    <3>1. k \in Nat /\ k # 1
      BY <2>1, <2>2, Taken
    <3>2. k - 1 \in DOMAIN Tail(s) /\ Tail(s)[k - 1] = s[k] /\ k - 1 > i
      BY <2>1, <2>2, <3>1, Taken
    <3> QED
      BY <1>1, <3>2 DEF LastWord
  <2>3. LastWord(s, i + 1)
    BY <1>1, <2>1, <2>2 DEF LastWord
  <2> QED
    BY <2>1, <2>3 DEF Says
<1>2. ASSUME \A i \in DOMAIN Tail(s) : ~Word(Tail(s)[i])
      PROVE  PageEvent \in news <=> hs # {}
  <2>1. \A k \in DOMAIN s : k = 1 \/ ~Word(s[k])
    BY <1>2, Taken
  <2>2. 1 \in DOMAIN s /\ Head(s) = s[1]
    BY Taken
  <2>3. CASE Word(Head(s))
    <3>1. LastWord(s, 1)
      BY <2>1, <2>2, <2>3 DEF LastWord
    <3> QED
      BY <2>2, <2>3, <3>1 DEF Says
  <2>4. CASE ~Word(Head(s))
    BY <2>1, <2>2, <2>4 DEF Says
  <2> QED
    BY <2>3, <2>4
<1> QED
  BY <1>1, <1>2 DEF Says

(* A word about the event is the last one when it is posted.               *)
LEMMA PostSays ==
  ASSUME NEW S, NEW s \in Seq(S), NEW m \in S, NEW regs, NEW hs, NEW newhs,
         Word(m) => (m.type = "register" <=> newhs # {}),
         ~Word(m) => Says(s, regs, hs) /\ (newhs # {} <=> hs # {})
  PROVE  Says(Append(s, m), regs, newhs)
<1>1. PICK n \in DOMAIN Append(s, m) \ DOMAIN s :
        /\ n \in Nat /\ Append(s, m)[n] = m
        /\ \A i \in DOMAIN Append(s, m) : i = n \/ (i \in DOMAIN s /\ i < n)
  BY Posted
<1>2. \A i \in DOMAIN s : i \in DOMAIN Append(s, m) /\ Append(s, m)[i] = s[i]
  BY Posted
<1>3. CASE Word(m)
  <2>1. \A i \in DOMAIN Append(s, m) : LastWord(Append(s, m), i) => i = n
    BY <1>1, <1>3, Posted DEF LastWord
  <2> QED
    BY <1>1, <1>3, <2>1 DEF Says
<1>4. CASE ~Word(m)
  <2>1. \A i \in DOMAIN Append(s, m) : LastWord(Append(s, m), i) => i \in DOMAIN s /\ LastWord(s, i)
    BY <1>1, <1>2, <1>4 DEF LastWord
  <2>2. (\A i \in DOMAIN Append(s, m) : ~Word(Append(s, m)[i])) => \A i \in DOMAIN s : ~Word(s[i])
    BY <1>2
  <2> QED
    BY <1>2, <1>4, <2>1, <2>2 DEF Says
<1> QED
  BY <1>3, <1>4
(* What the page may have posted.                                          *)
LEMMA PluginMessages ==
  ASSUME NEW m \in ToPlugin
  PROVE  /\ m.type \in MsgTypes
         /\ m.type \in Kinds =>
              \E k \in Kinds, c \in Calls : m = Msg(k, c, c) /\ m \in CallMsgs
         /\ m.type \in {"register", "unregister"} => m.of \in Events
         /\ m.type \in {"observe_property", "unobserve_property"} => m.id \in 0..MaxSteps
<1>1. CASE m \in CallMsgs
  <2>1. PICK k \in Kinds, c \in Calls : m = Msg(k, c, c)
    BY <1>1 DEF CallMsgs
  <2>2. m.type = k /\ k \notin {"register", "unregister", "observe_property",
                                "unobserve_property"}
    BY <2>1 DEF Msg, Kinds
  <2> QED
    BY <1>1, <2>1, <2>2 DEF MsgTypes
<1>2. CASE m \notin CallMsgs
  <2>1. m.type \notin Kinds
    BY <1>2 DEF ToPlugin, Kinds
  <2> QED
    BY <1>2, <2>1 DEF ToPlugin, MsgTypes
<1> QED
  BY <1>1, <1>2

(* A call as it is posted, accepted and answered.                          *)
LEMMA CallMessages ==
  ASSUME NEW m \in CallMsgs, NEW v \in Known
  PROVE  /\ m \in ToPlugin /\ m.type \in Kinds /\ m.id \in Calls /\ m.of = m.id
         /\ Msg("reply", m.id, [type |-> m.type, of |-> m.of, value |-> v]) \in ToPage
<1>1. PICK k \in Kinds, c \in Calls : m = Msg(k, c, c)
  BY DEF CallMsgs
<1>2. m.type = k /\ m.id = c /\ m.of = c
  BY <1>1 DEF Msg
<1>3. [type |-> k, of |-> c, value |-> v] \in Answers
  BY DEF Answers
<1>4. Msg("reply", c, [type |-> k, of |-> c, value |-> v])
        \in {x \in [type : {"reply"}, id : Calls, of : Answers] : x.of.of = x.id}
  BY <1>3 DEF Msg
<1> QED
  BY <1>2, <1>4 DEF ToPage, ToPlugin

(* What mpv may have sent.                                                 *)
LEMMA PageMessages ==
  ASSUME NEW m \in ToPage
  PROVE  /\ m.type \in MsgTypes
         /\ m.type = "reply" => /\ m.id \in Calls /\ m.of.of = m.id
                                /\ m.of.value \in Known
         /\ m.type = "property-change" => m.of \in Known
<1>1. CASE m \in [type : {"reply"}, id : Calls, of : Answers] /\ m.of.of = m.id
  <2>1. m.of \in Answers /\ m.type = "reply" /\ m.id \in Calls
    BY <1>1
  <2>2. m.of.value \in Known
    BY <2>1 DEF Answers
  <2> QED
    BY <1>1, <2>1, <2>2 DEF MsgTypes, Events
<1>2. CASE m \in [type : {"property-change"}, id : 0..MaxSteps, of : Known]
  BY <1>2 DEF MsgTypes, Events
<1>3. CASE m \in [type : {"hook", PageEvent}, id : {0, 1}, of : {0}]
  BY <1>3 DEF MsgTypes, Events, PageEvent
<1> QED
  BY <1>1, <1>2, <1>3 DEF ToPage

-----------------------------------------------------------------------------
(* The inductive invariant.                                                *)

(* Types, and what the messages are; ids are dealt in the order of the     *)
(* calls.                                                                  *)
Shape ==
  /\ steps \in 0..MaxSteps /\ sent \in 0..steps /\ nextGid = sent + 1
  /\ nextOid \in 1..steps + 1
  /\ handlers \subseteq Listeners /\ observers \subseteq 1..MaxSteps
  /\ cache \in Values /\ value \in Known
  /\ hookState \in Seq({0, 2}) /\ settling \subseteq DOMAIN hookState
  /\ toPlugin \in Seq(ToPlugin) /\ toPage \in Seq(ToPage)
  /\ registed \subseteq Events /\ requests \subseteq CallMsgs
  /\ observed \subseteq 0..MaxSteps /\ pending \subseteq observed
  /\ hookAdded \in BOOLEAN /\ hookActive \in BOOLEAN /\ misused \in BOOLEAN

(* An id holds the promise of its own call.                                *)
OwnPromise ==
  /\ resolvers \in [Calls -> 0..MaxSteps]
  /\ result \in [Calls -> {Unsettled, ByTimer} \cup Calls]
  /\ \A c \in Calls : resolvers[c] \in {0, c}
  /\ OwnAnswer

Heard == Says(toPlugin, registed, handlers)

(* An active hook is announced, being handled or being continued.          *)
OneRun ==
  /\ Once(toPage, "hook") /\ Once(toPlugin, "hook_continue")
  /\ Has(toPage, "hook") => hookActive /\ ~Has(toPlugin, "hook_continue")
  /\ Has(toPlugin, "hook_continue") => hookActive
  /\ \A h \in DOMAIN hookState : hookState[h] = 0 =>
       /\ hookActive /\ ~Has(toPage, "hook") /\ ~Has(toPlugin, "hook_continue")
       /\ \A k \in DOMAIN hookState : hookState[k] = 0 => k = h
  /\ ~misused

IInv == Shape /\ OwnPromise /\ Heard /\ OneRun
(* The constructor has posted what the plugin will read.                   *)
LEMMA InitIInv == Init => IInv
<1> SUFFICES ASSUME Init PROVE IInv
  OBVIOUS
<1>1. /\ toPlugin \in Seq(ToPlugin) /\ DOMAIN toPlugin = 1..5
      /\ toPlugin[1].type = "observe_property" /\ toPlugin[2].type = "register"
      /\ toPlugin[3].type = "register" /\ toPlugin[4].type = "register"
      /\ toPlugin[5].type = "hook_add"
      /\ toPlugin[2].of # PageEvent /\ toPlugin[3].of # PageEvent /\ toPlugin[4].of # PageEvent
  <2>1. \A e \in Events : Msg("register", 0, e) \in ToPlugin
    BY DEF Msg, ToPlugin
  <2>2. Msg("observe_property", ById, 0) \in ToPlugin /\ Msg("hook_add", 1, 0) \in ToPlugin
    BY BoundAssumption DEF Msg, ToPlugin, ById
  <2>3. {"property-change", "reply", "hook"} \subseteq Events
    BY DEF Events
  <2>4. toPlugin = Constructed
    BY DEF Init
  <2>5. toPlugin \in Seq(ToPlugin) /\ DOMAIN toPlugin = 1..5
    BY <2>1, <2>2, <2>3, <2>4 DEF Constructed
  <2> QED
    BY <2>4, <2>5 DEF Constructed, Msg, PageEvent
<1>2. toPage = <<>> /\ hookState = <<>> /\ DOMAIN toPage = {} /\ DOMAIN hookState = {}
  BY DEF Init
<1>3. Shape
  <2>1. /\ steps \in 0..MaxSteps /\ sent \in 0..steps /\ nextGid = sent + 1
        /\ nextOid \in 1..steps + 1
    BY BoundAssumption DEF Init
  <2>2. cache \in Values /\ value \in Known
    BY DEF Init, Values, Known
  <2>3. hookAdded \in BOOLEAN /\ hookActive \in BOOLEAN /\ misused \in BOOLEAN
    BY DEF Init
  <2>4. hookState \in Seq({0, 2}) /\ toPage \in Seq(ToPage)
    BY <1>2
  <2> QED
    BY <1>1, <2>1, <2>2, <2>3, <2>4 DEF Init, Shape
<1>4. OwnPromise
  BY BoundAssumption DEF Init, OwnPromise, OwnAnswer
<1>5. Heard
  <2>1. \A i \in DOMAIN toPlugin : ~Word(toPlugin[i])
    BY <1>1 DEF Word
  <2> QED
    BY <2>1 DEF Init, Heard, Says, LastWord
<1>6. OneRun
  <2>1. ~Has(toPlugin, "hook_continue") /\ Once(toPlugin, "hook_continue")
    BY <1>1 DEF Has, Once
  <2>2. ~Has(toPage, "hook") /\ Once(toPage, "hook")
    BY <1>2 DEF Has, Once
  <2> QED
    BY <1>2, <2>1, <2>2 DEF Init, OneRun
<1> QED
  BY <1>3, <1>4, <1>5, <1>6 DEF IInv

-----------------------------------------------------------------------------
(* Every step preserves the invariant.                                     *)

(* What the bound leaves when something begins.                            *)
LEMMA BeginsFacts ==
  ASSUME Shape, Begins
  PROVE  /\ steps' \in 0..MaxSteps /\ sent \in 0..steps' /\ sent + 1 \in 0..steps'
         /\ nextOid \in 1..steps' + 1 /\ nextOid + 1 \in 1..steps' + 1
         /\ nextOid \in 1..MaxSteps /\ NewId \in Calls /\ NewId = sent + 1
BY BoundAssumption DEF Shape, Begins, NewId, Calls

(* What is posted to the plugin is a message.                              *)
LEMMA Postable ==
  /\ \A c \in Calls, k \in Kinds : Msg(k, c, c) \in ToPlugin
  /\ \A e \in Events : Msg("register", 0, e) \in ToPlugin /\ Msg("unregister", 0, e) \in ToPlugin
  /\ \A i \in 0..MaxSteps : /\ Msg("observe_property", i, 0) \in ToPlugin
                            /\ Msg("unobserve_property", i, 0) \in ToPlugin
  /\ Msg("hook_continue", 1, 0) \in ToPlugin
  /\ \A i \in 0..MaxSteps, v \in Known : Msg("property-change", i, v) \in ToPage
  /\ Msg("hook", 1, 0) \in ToPage /\ Msg(PageEvent, 0, 0) \in ToPage
  /\ PageEvent \in Events
<1>1. \A c \in Calls, k \in Kinds : Msg(k, c, c) \in ToPlugin
  BY DEF CallMsgs, ToPlugin
<1>2. \A i \in 0..MaxSteps, v \in Known : Msg("property-change", i, v) \in ToPage
  BY DEF Msg, ToPage
<1>3. Msg("hook", 1, 0) \in ToPage /\ Msg(PageEvent, 0, 0) \in ToPage
  BY DEF Msg, ToPage
<1> QED
  BY <1>1, <1>2, <1>3 DEF Msg, ToPlugin, Events

(* The channels carry messages.                                            *)
LEMMA PostsKeepTypes ==
  /\ \A s \in Seq(ToPlugin), m \in ToPlugin : Append(s, m) \in Seq(ToPlugin)
  /\ \A s \in Seq(ToPage), m \in ToPage : Append(s, m) \in Seq(ToPage)
OBVIOUS

(* The types of what the page does.                                        *)
LEMMA ShapePage ==
  ASSUME IInv, PageCalls \/ PageGets \/ Timers \/ HookAnswered \/ HookSettles
  PROVE  Shape'
<1> USE DEF IInv
<1>0. UNCHANGED pluginVars
  BY DEF PageCalls, PageGets, Timers, HookAnswered, HookSettles, Call, On, Off, Observe,
         Unobserve, GotChange, GotReply, GotHook, GotEvent, TimerFires, Cont, HandlerSettles,
         ActsOnly, GotOnly, HookOnly
<1>1. ASSUME NEW k \in Kinds, Call(k) PROVE Shape'
  <2>1. Begins /\ sent' = sent + 1 /\ nextGid' = nextGid + 1
        /\ toPlugin' = Append(toPlugin, Msg(k, NewId, sent'))
        /\ UNCHANGED <<nextOid, handlers, observers, cache, hookState, settling, toPage>>
    BY <1>1 DEF Call, Post
  <2>2. toPlugin' \in Seq(ToPlugin)
    BY <2>1, BeginsFacts, Postable, PostsKeepTypes DEF Shape
  <2> QED
    BY <1>0, <2>1, <2>2, BeginsFacts DEF Shape, pluginVars
<1>2. ASSUME NEW l \in Listeners, On(l) \/ Off(l) PROVE Shape'
  <2>1. Begins /\ handlers' \subseteq Listeners
        /\ UNCHANGED <<nextGid, sent, nextOid, observers, cache, hookState, settling, toPage>>
    BY <1>2 DEF On, Off, ActsOnly, Shape
  <2>2. toPlugin' \in Seq(ToPlugin)
    <3>1. \/ toPlugin' = toPlugin
          \/ toPlugin' = Append(toPlugin, Msg("register", 0, PageEvent))
          \/ toPlugin' = Append(toPlugin, Msg("unregister", 0, PageEvent))
      BY <1>2 DEF On, Off, Post
    <3> QED
      BY <3>1, Postable, PostsKeepTypes DEF Shape
  <2> QED
    BY <1>0, <2>1, <2>2, BeginsFacts DEF Shape, pluginVars
<1>3. CASE Observe
  <2>1. Begins /\ nextOid' = nextOid + 1 /\ observers' = observers \cup {nextOid}
        /\ toPlugin' = Append(toPlugin, Msg("observe_property", nextOid, 0))
        /\ UNCHANGED <<nextGid, sent, handlers, cache, hookState, settling, toPage>>
    BY <1>3 DEF Observe, ActsOnly, Post
  <2>2. nextOid \in 0..MaxSteps /\ observers' \subseteq 1..MaxSteps
    BY <2>1, BeginsFacts DEF Shape
  <2>3. toPlugin' \in Seq(ToPlugin)
    BY <2>1, <2>2, Postable, PostsKeepTypes DEF Shape
  <2> QED
    BY <1>0, <2>1, <2>2, <2>3, BeginsFacts DEF Shape, pluginVars
<1>4. ASSUME NEW i \in observers, Unobserve(i) PROVE Shape'
  <2>1. Begins /\ observers' = observers \ {i}
        /\ toPlugin' = Append(toPlugin, Msg("unobserve_property", i, 0))
        /\ UNCHANGED <<nextGid, sent, nextOid, handlers, cache, hookState, settling, toPage>>
    BY <1>4 DEF Unobserve, ActsOnly, Post
  <2>2. i \in 0..MaxSteps
    BY DEF Shape
  <2>3. toPlugin' \in Seq(ToPlugin)
    BY <2>1, <2>2, Postable, PostsKeepTypes DEF Shape
  <2> QED
    BY <1>0, <2>1, <2>3, BeginsFacts DEF Shape, pluginVars
<1>5. CASE PageGets
  <2>0. /\ toPage # <<>> /\ toPage' = Tail(toPage) /\ Head(toPage) \in ToPage
        /\ toPage' \in Seq(ToPage)
    BY <1>5, Taken DEF PageGets, GotChange, GotReply, GotHook, GotEvent, Got, Shape
  <2>1. UNCHANGED <<nextGid, nextOid, sent, handlers, observers, steps, toPlugin>>
    BY <1>5 DEF PageGets, GotChange, GotReply, GotHook, GotEvent, GotOnly
  <2>2. cache' \in Values
    <3>1. CASE GotChange
      BY <2>0, <3>1, PageMessages DEF GotChange, Got, Shape, Known
    <3>2. CASE GotReply
      BY <2>0, <3>2, PageMessages DEF GotReply, Got, Shape, Known
    <3>3. CASE GotHook \/ GotEvent
      BY <3>3 DEF GotHook, GotEvent, Shape
    <3> QED
      BY <1>5, <3>1, <3>2, <3>3 DEF PageGets
  <2>3. hookState' \in Seq({0, 2}) /\ settling' \subseteq DOMAIN hookState'
    <3>1. CASE GotHook
      <4>1. hookState' = Append(hookState, 0) /\ settling' = settling \cup {Len(hookState) + 1}
        BY <3>1 DEF GotHook
      <4>2. DOMAIN hookState = 1..Len(hookState) /\ Len(hookState) \in Nat
        BY DEF Shape
      <4>3. Append(hookState, 0) \in Seq({0, 2})
            /\ DOMAIN Append(hookState, 0) = 1..(Len(hookState) + 1)
        BY <4>2 DEF Shape
      <4> QED
        BY <4>1, <4>2, <4>3 DEF Shape
    <3>2. CASE GotChange \/ GotReply \/ GotEvent
      BY <3>2 DEF GotChange, GotReply, GotEvent, Shape
    <3> QED
      BY <1>5, <3>1, <3>2 DEF PageGets
  <2> QED
    BY <1>0, <2>0, <2>1, <2>2, <2>3 DEF Shape, pluginVars
<1>6. CASE Timers
  BY <1>0, <1>6 DEF Timers, TimerFires, Shape, pluginVars
<1>7. CASE HookAnswered \/ HookSettles
  <2>1. UNCHANGED <<nextGid, nextOid, sent, handlers, observers, cache, toPage, steps>>
    BY <1>7 DEF HookAnswered, HookSettles, Cont, HandlerSettles, HookOnly
  <2>2. \/ UNCHANGED <<hookState, toPlugin>>
        \/ \E h \in DOMAIN hookState : DoCont(h)
    BY <1>7 DEF HookAnswered, HookSettles, Cont, HandlerSettles, Shape
  <2>3. hookState' \in Seq({0, 2}) /\ DOMAIN hookState' = DOMAIN hookState
        /\ toPlugin' \in Seq(ToPlugin)
    <3>1. CASE UNCHANGED <<hookState, toPlugin>>
      BY <3>1 DEF Shape
    <3>2. CASE \E h \in DOMAIN hookState : DoCont(h)
      <4>1. PICK h \in DOMAIN hookState : DoCont(h)
        BY <3>2
      <4>2. hookState' = [hookState EXCEPT ![h] = 2]
            /\ toPlugin' = Append(toPlugin, Msg("hook_continue", 1, 0))
        BY <4>1 DEF DoCont, Post
      <4>3. [hookState EXCEPT ![h] = 2] \in Seq({0, 2})
        BY DEF Shape
      <4> QED
        BY <4>2, <4>3, Postable, PostsKeepTypes DEF Shape
    <3> QED
      BY <2>2, <3>1, <3>2
  <2>4. settling' \subseteq settling
    BY <1>7 DEF HookAnswered, HookSettles, Cont, HandlerSettles
  <2> QED
    BY <1>0, <2>1, <2>3, <2>4 DEF Shape, pluginVars
<1> QED
  BY <1>1, <1>2, <1>3, <1>4, <1>5, <1>6, <1>7 DEF PageCalls

(* The types of what the plugin and mpv do.                                *)
LEMMA ShapePlugin ==
  ASSUME IInv, PluginGets \/ MpvDoes
  PROVE  Shape'
<1> USE DEF IInv
<1>0. UNCHANGED pageVars
  BY DEF PluginGets, MpvDoes, Accepted, Refused, Observes, Unobserves, RequestsEvent, AddsHook,
         ContinuesHook, Replies, Changes, Notifies, RunsHook, Happened, ToldOnly
<1>1. CASE PluginGets
  <2>0. /\ toPlugin # <<>> /\ toPlugin' = Tail(toPlugin) /\ Head(toPlugin) \in ToPlugin
        /\ toPlugin' \in Seq(ToPlugin)
    BY <1>1, Taken DEF PluginGets, Accepted, Refused, Observes, Unobserves, RequestsEvent,
                       AddsHook, ContinuesHook, Told, Shape
  <2>1. UNCHANGED <<value, steps>>
    BY <1>1 DEF PluginGets, Accepted, Refused, Observes, Unobserves, RequestsEvent, AddsHook,
                ContinuesHook, ToldOnly
  <2>2. toPage' \in Seq(ToPage)
    <3>1. CASE Refused
      <4>1. Head(toPlugin) \in CallMsgs
        BY <2>0, <3>1, PluginMessages DEF Refused, Told
      <4>2. Reply(Head(toPlugin)) \in ToPage
        BY <4>1, CallMessages DEF Reply, Shape
      <4> QED
        BY <3>1, <4>2, PostsKeepTypes DEF Refused, PostToPage, Shape
    <3>2. CASE ~Refused
      BY <1>1, <3>2 DEF PluginGets, Accepted, Observes, Unobserves, RequestsEvent, AddsHook,
                        ContinuesHook, Shape
    <3> QED
      BY <3>1, <3>2
  <2>3. registed' \subseteq Events /\ requests' \subseteq CallMsgs
    <3>1. CASE Accepted
      BY <2>0, <3>1, PluginMessages DEF Accepted, Told, Shape
    <3>2. CASE RequestsEvent
      BY <2>0, <3>2, PluginMessages DEF RequestsEvent, Told, Shape
    <3>3. CASE ~Accepted /\ ~RequestsEvent
      BY <1>1, <3>3 DEF PluginGets, Refused, Observes, Unobserves, AddsHook, ContinuesHook, Shape
    <3> QED
      BY <3>1, <3>2, <3>3
  <2>4. observed' \subseteq 0..MaxSteps /\ pending' \subseteq observed'
    <3>1. CASE Observes
      <4>1. Head(toPlugin).id \in 0..MaxSteps
        BY <2>0, <3>1, PluginMessages DEF Observes, Told
      <4> QED
        BY <3>1, <4>1 DEF Observes, Shape
    <3>2. CASE Unobserves
      BY <3>2 DEF Unobserves, Shape
    <3>3. CASE ~Observes /\ ~Unobserves
      BY <1>1, <3>3 DEF PluginGets, Accepted, Refused, RequestsEvent, AddsHook, ContinuesHook, Shape
    <3> QED
      BY <3>1, <3>2, <3>3
  <2>5. hookAdded' \in BOOLEAN /\ hookActive' \in BOOLEAN /\ misused' \in BOOLEAN
    BY <1>1 DEF PluginGets, Accepted, Refused, Observes, Unobserves, RequestsEvent, AddsHook,
                ContinuesHook, Shape
  <2> QED
    BY <1>0, <2>0, <2>1, <2>2, <2>3, <2>4, <2>5 DEF Shape, pageVars
<1>2. CASE MpvDoes
  <2>1. UNCHANGED <<toPlugin, registed, observed, hookAdded, misused>>
    BY <1>2 DEF MpvDoes, Replies, Changes, Notifies, RunsHook, Happened
  <2>2. steps' = steps \/ Begins
    BY <1>2 DEF MpvDoes, Replies, Changes, Notifies, RunsHook, Happened
  <2>3. steps' \in 0..MaxSteps /\ sent \in 0..steps' /\ nextOid \in 1..steps' + 1
    BY <2>2, BeginsFacts DEF Shape
  <2>4. toPage' \in Seq(ToPage)
    <3>1. CASE Replies
      <4>1. PICK m \in requests : Dispatch(Reply(m))
        BY <3>1 DEF Replies
      <4>2. Reply(m) \in ToPage
        BY CallMessages DEF Reply, Shape
      <4> QED
        BY <4>1, <4>2, PostsKeepTypes DEF Dispatch, PostToPage, Shape
    <3>2. CASE Changes
      BY <3>2 DEF Changes, Shape
    <3>3. CASE Notifies
      <4>1. PICK i \in pending : Dispatch(Msg("property-change", i, value))
        BY <3>3 DEF Notifies
      <4>2. Msg("property-change", i, value) \in ToPage
        BY Postable DEF Shape
      <4> QED
        BY <4>1, <4>2, PostsKeepTypes DEF Dispatch, PostToPage, Shape
    <3>4. CASE RunsHook \/ Happened
      <4>1. PICK m \in ToPage : Dispatch(m)
        BY <3>4, Postable DEF RunsHook, Happened
      <4> QED
        BY <4>1, PostsKeepTypes DEF Dispatch, PostToPage, Shape
    <3> QED
      BY <1>2, <3>1, <3>2, <3>3, <3>4 DEF MpvDoes
  <2>5. requests' \subseteq CallMsgs /\ pending' \subseteq observed /\ value' \in Known
    BY <1>2 DEF MpvDoes, Replies, Changes, Notifies, RunsHook, Happened, Shape, Known
  <2>6. hookActive' \in BOOLEAN
    BY <1>2 DEF MpvDoes, Replies, Changes, Notifies, RunsHook, Happened, Shape
  <2> QED
    BY <1>0, <2>1, <2>3, <2>4, <2>5, <2>6 DEF Shape, pageVars
<1> QED
  BY <1>1, <1>2
(* A call takes an id nobody holds; a reply and a timer settle the call    *)
(* whose id it is.                                                         *)
LEMMA OwnPromiseStep == IInv /\ [Next]_vars => OwnPromise'
<1> SUFFICES ASSUME IInv, [Next]_vars PROVE OwnPromise'
  OBVIOUS
<1> USE DEF IInv
<1>1. ASSUME NEW k \in Kinds, Call(k) PROVE OwnPromise'
  <2>1. /\ NewId \in Calls /\ sent' = NewId /\ sent' \in 0..MaxSteps
        /\ resolvers' = [resolvers EXCEPT ![NewId] = sent'] /\ result' = result
    BY <1>1, BeginsFacts, BoundAssumption DEF Call, Calls
  <2> QED
    BY <2>1 DEF OwnPromise, OwnAnswer
<1>2. ASSUME NEW i \in Waiting, TimerFires(i) PROVE OwnPromise'
  <2>1. /\ i \in Calls /\ resolvers[i] = i
        /\ resolvers' = [resolvers EXCEPT ![i] = 0]
        /\ result' = [result EXCEPT ![resolvers[i]] = ByTimer]
    BY <1>2 DEF TimerFires, Waiting, Without, OwnPromise
  <2>2. 0 \in 0..MaxSteps
    BY BoundAssumption
  <2> QED
    BY <2>1, <2>2 DEF OwnPromise, OwnAnswer
<1>3. CASE GotReply
  <2> DEFINE r == Head(toPage)
  <2>1. toPage # <<>> /\ r \in ToPage /\ r.type = "reply"
    BY <1>3, Taken DEF GotReply, Got, Shape
  <2>2. r.id \in Calls /\ r.of.of = r.id
    BY <2>1, PageMessages
  <2>3. CASE r.id \in Waiting
    <3>1. resolvers[r.id] = r.id
      BY <2>2, <2>3 DEF Waiting, OwnPromise
    <3>2. /\ resolvers' = [resolvers EXCEPT ![r.id] = 0]
          /\ result' = [result EXCEPT ![r.id] = r.id]
      BY <1>3, <2>2, <2>3, <3>1 DEF GotReply, Without
    <3>3. 0 \in 0..MaxSteps
      BY BoundAssumption
    <3> HIDE DEF r
    <3> QED
      BY <2>2, <3>2, <3>3 DEF OwnPromise, OwnAnswer
  <2>4. CASE r.id \notin Waiting
    BY <1>3, <2>4 DEF GotReply, OwnPromise, OwnAnswer
  <2> QED
    BY <2>3, <2>4
<1>4. CASE UNCHANGED <<resolvers, result>>
  BY <1>4 DEF OwnPromise, OwnAnswer
<1>5. \/ \E k \in Kinds : Call(k)
      \/ \E i \in Waiting : TimerFires(i)
      \/ GotReply
      \/ UNCHANGED <<resolvers, result>>
  <2>1. CASE PageCalls
    BY <2>1 DEF PageCalls, On, Off, Observe, Unobserve, ActsOnly
  <2>2. CASE PageGets \/ Timers
    BY <2>2 DEF PageGets, Timers, GotChange, GotHook, GotEvent
  <2>3. CASE HookAnswered \/ HookSettles
    BY <2>3 DEF HookAnswered, HookSettles, Cont, HandlerSettles, HookOnly
  <2>4. CASE PluginGets
    BY <2>4 DEF PluginGets, Accepted, Refused, Observes, Unobserves, RequestsEvent, AddsHook,
                ContinuesHook, ToldOnly, pageVars
  <2>5. CASE MpvDoes
    BY <2>5 DEF MpvDoes, Replies, Changes, Notifies, RunsHook, Happened, pageVars
  <2>6. CASE UNCHANGED vars
    BY <2>6 DEF vars, pageVars
  <2> QED
    BY <2>1, <2>2, <2>3, <2>4, <2>5, <2>6 DEF Next, Quiet
<1> QED
  BY <1>1, <1>2, <1>3, <1>4, <1>5

(* What the channels do in a step: nothing, one post or one message read.  *)
Posts(m) == toPlugin' = Append(toPlugin, m)
Reads == toPlugin # <<>> /\ toPlugin' = Tail(toPlugin)

(* The page's table and the last word about the event change together.     *)
LEMMA HeardStep == IInv /\ [Next]_vars => Heard'
<1> SUFFICES ASSUME IInv, [Next]_vars PROVE Heard'
  OBVIOUS
<1> USE DEF IInv
<1>0. toPlugin \in Seq(ToPlugin)
  BY DEF Shape
<1>1. ASSUME NEW m \in ToPlugin, ~Word(m), Posts(m), UNCHANGED <<registed, handlers>>
      PROVE  Heard'
  <2>1. Says(Append(toPlugin, m), registed, handlers)
    BY <1>0, <1>1, PostSays DEF Heard
  <2> QED
    BY <1>1, <2>1 DEF Heard, Posts
<1>2. ASSUME NEW l \in Listeners, On(l) \/ Off(l) PROVE Heard'
  <2>0. registed' = registed
    BY <1>2 DEF On, Off, ActsOnly, pluginVars
  <2>1. CASE On(l)
    <3> DEFINE m == Msg("register", 0, PageEvent)
    <3>1. handlers' # {} /\ Posts(m)
      BY <2>1 DEF On, Post, Posts
    <3>2. m \in ToPlugin /\ Word(m) /\ m.type = "register"
      BY Postable DEF Word, Msg
    <3> HIDE DEF m
    <3>3. Says(Append(toPlugin, m), registed, handlers')
      BY <1>0, <3>1, <3>2, PostSays
    <3> QED
      BY <2>0, <3>1, <3>3 DEF Heard, Posts
  <2>2. CASE Off(l) /\ NobodyLeft(l)
    <3> DEFINE m == Msg("unregister", 0, PageEvent)
    <3>1. handlers' = {} /\ Posts(m)
      BY <2>2 DEF Off, NobodyLeft, Post, Posts
    <3>2. m \in ToPlugin /\ Word(m) /\ m.type # "register"
      BY Postable DEF Word, Msg
    <3> HIDE DEF m
    <3>3. Says(Append(toPlugin, m), registed, handlers')
      BY <1>0, <3>1, <3>2, PostSays
    <3> QED
      BY <2>0, <3>1, <3>3 DEF Heard, Posts
  <2>3. CASE Off(l) /\ ~NobodyLeft(l)
    BY <2>0, <2>3 DEF Off, NobodyLeft, Heard, Says
  <2> QED
    BY <1>2, <2>1, <2>2, <2>3
<1>3. CASE RequestsEvent
  <2>1. /\ Reads /\ Head(toPlugin).type \in {"register", "unregister"} /\ handlers' = handlers
        /\ registed' = IF Head(toPlugin).type = "register"
                       THEN registed \cup {Head(toPlugin).of}
                       ELSE registed \ {Head(toPlugin).of}
    BY <1>3 DEF RequestsEvent, Told, Reads, ToldOnly, pageVars
  <2>2. /\ Word(Head(toPlugin)) =>
             (PageEvent \in registed' <=> Head(toPlugin).type = "register")
        /\ ~Word(Head(toPlugin)) => (PageEvent \in registed' <=> PageEvent \in registed)
    BY <2>1 DEF Word
  <2>3. Says(Tail(toPlugin), registed', handlers)
    BY <1>0, <2>1, <2>2, ReadSays DEF Heard, Reads
  <2> QED
    BY <2>1, <2>3 DEF Heard, Reads
<1>4. ASSUME Reads, Head(toPlugin).type \notin {"register", "unregister"},
             UNCHANGED <<registed, handlers>>
      PROVE  Heard'
  <2>1. ~Word(Head(toPlugin))
    BY <1>4 DEF Word
  <2>2. Says(Tail(toPlugin), registed, handlers)
    BY <1>0, <1>4, <2>1, ReadSays DEF Heard, Reads
  <2> QED
    BY <1>4, <2>2 DEF Heard, Reads
<1>5. CASE UNCHANGED <<toPlugin, registed, handlers>>
  BY <1>5 DEF Heard
<1>6. CASE PageCalls
  <2>1. ASSUME NEW k \in Kinds, Call(k) PROVE Heard'
    <3>1. NewId \in Calls /\ sent' = NewId
      BY <2>1, BeginsFacts DEF Call
    <3>2. Posts(Msg(k, NewId, NewId)) /\ UNCHANGED <<registed, handlers>>
      BY <2>1, <3>1 DEF Call, Post, Posts, pluginVars
    <3>3. ~Word(Msg(k, NewId, NewId))
      BY DEF Word, Msg, Kinds
    <3> QED
      BY <1>1, <3>1, <3>2, <3>3, Postable
  <2>2. CASE Observe
    <3>1. Posts(Msg("observe_property", nextOid, 0)) /\ UNCHANGED <<registed, handlers>>
      BY <2>2 DEF Observe, Post, Posts, ActsOnly, pluginVars
    <3>2. nextOid \in 0..MaxSteps
      BY <2>2, BeginsFacts DEF Observe
    <3>3. ~Word(Msg("observe_property", nextOid, 0))
      BY DEF Word, Msg
    <3> QED
      BY <1>1, <3>1, <3>2, <3>3, Postable
  <2>3. ASSUME NEW i \in observers, Unobserve(i) PROVE Heard'
    <3>1. Posts(Msg("unobserve_property", i, 0)) /\ UNCHANGED <<registed, handlers>>
      BY <2>3 DEF Unobserve, Post, Posts, ActsOnly, pluginVars
    <3>2. i \in 0..MaxSteps
      BY DEF Shape
    <3>3. ~Word(Msg("unobserve_property", i, 0))
      BY DEF Word, Msg
    <3> QED
      BY <1>1, <3>1, <3>2, <3>3, Postable
  <2> QED
    BY <1>2, <1>6, <2>1, <2>2, <2>3 DEF PageCalls
<1>7. CASE PageGets \/ Timers
  BY <1>5, <1>7 DEF PageGets, Timers, GotChange, GotReply, GotHook, GotEvent, TimerFires, GotOnly,
                    pluginVars
<1>8. CASE HookAnswered \/ HookSettles
  <2>1. UNCHANGED <<registed, handlers>>
        /\ (toPlugin' = toPlugin \/ Posts(Msg("hook_continue", 1, 0)))
    BY <1>8 DEF HookAnswered, HookSettles, Cont, HandlerSettles, DoCont, Post, Posts, HookOnly,
                pluginVars
  <2>2. ~Word(Msg("hook_continue", 1, 0))
    BY DEF Word, Msg
  <2> QED
    BY <1>1, <1>5, <2>1, <2>2, Postable
<1>9. CASE PluginGets
  <2>1. CASE Accepted \/ Refused
    <3>1. Reads /\ Head(toPlugin).type \in Kinds /\ UNCHANGED <<registed, handlers>>
      BY <2>1 DEF Accepted, Refused, Told, Reads, ToldOnly, pageVars
    <3> QED
      BY <1>4, <3>1 DEF Kinds
  <2>2. CASE Observes \/ Unobserves \/ AddsHook \/ ContinuesHook
    <3>1. Reads /\ Head(toPlugin).type \in {"observe_property", "unobserve_property",
                                            "hook_add", "hook_continue"}
          /\ UNCHANGED <<registed, handlers>>
      BY <2>2 DEF Observes, Unobserves, AddsHook, ContinuesHook, Told, Reads, ToldOnly, pageVars
    <3> QED
      BY <1>4, <3>1
  <2> QED
    BY <1>3, <1>9, <2>1, <2>2 DEF PluginGets
<1>10. CASE MpvDoes
  BY <1>5, <1>10 DEF MpvDoes, Replies, Changes, Notifies, RunsHook, Happened, pageVars
<1>11. CASE UNCHANGED vars
  BY <1>5, <1>11 DEF vars, pageVars, pluginVars
<1> QED
  BY <1>6, <1>7, <1>8, <1>9, <1>10, <1>11 DEF Next, Quiet

(* What a message to the page changes about the announcements of the hook. *)
LEMMA HookPosts ==
  \A s \in Seq(ToPage), m \in ToPage :
    /\ m.type # "hook" => (Has(Append(s, m), "hook") <=> Has(s, "hook"))
    /\ m.type # "hook" /\ Once(s, "hook") => Once(Append(s, m), "hook")
    /\ Once(s, "hook") /\ ~Has(s, "hook") => Once(Append(s, m), "hook")
BY PostTypes

(* A run of the hook goes from announced to handled to continued to over.  *)
LEMMA OneRunStep == IInv /\ [Next]_vars => OneRun'
<1> SUFFICES ASSUME IInv, [Next]_vars PROVE OneRun'
  OBVIOUS
<1> USE DEF IInv
<1>0. toPlugin \in Seq(ToPlugin) /\ toPage \in Seq(ToPage) /\ hookState \in Seq({0, 2})
  BY DEF Shape
<1>1. ASSUME NEW m \in ToPlugin, m.type # "hook_continue", Posts(m),
             UNCHANGED <<toPage, hookState, hookActive, misused>>
      PROVE  OneRun'
  <2>1. /\ Has(toPlugin', "hook_continue") <=> Has(toPlugin, "hook_continue")
        /\ Once(toPlugin, "hook_continue") => Once(toPlugin', "hook_continue")
    BY <1>0, <1>1, PostTypes DEF Posts
  <2> QED
    BY <1>1, <2>1 DEF OneRun
<1>2. ASSUME NEW h \in DOMAIN hookState, hookState[h] = 0, DoCont(h),
             UNCHANGED <<toPage, hookActive, misused>>
      PROVE  OneRun'
  <2>1. hookState' = [hookState EXCEPT ![h] = 2] /\ Posts(Msg("hook_continue", 1, 0))
    BY <1>2 DEF DoCont, Post, Posts
  <2>2. hookActive /\ ~Has(toPage, "hook") /\ ~Has(toPlugin, "hook_continue")
    BY <1>2 DEF OneRun
  <2>3. Msg("hook_continue", 1, 0) \in ToPlugin /\ Msg("hook_continue", 1, 0).type = "hook_continue"
    BY Postable DEF Msg
  <2>4. Once(toPlugin', "hook_continue")
    BY <1>0, <2>1, <2>2, <2>3, PostTypes DEF OneRun, Posts
  <2>5. \A k \in DOMAIN hookState' : hookState'[k] # 0
    BY <1>2, <2>1 DEF OneRun
  <2> QED
    BY <1>2, <2>2, <2>4, <2>5 DEF OneRun
<1>3. CASE ContinuesHook
  <2>1. /\ Reads /\ Head(toPlugin).type = "hook_continue" /\ hookActive' = FALSE
        /\ misused' = (misused \/ ~hookActive) /\ UNCHANGED <<toPage, hookState>>
    BY <1>3 DEF ContinuesHook, Told, Reads, ToldOnly, pageVars
  <2>2. /\ Has(toPlugin, "hook_continue") /\ ~Has(toPlugin', "hook_continue")
        /\ Once(toPlugin', "hook_continue")
    BY <1>0, <2>1, ReadTypes DEF OneRun, Reads
  <2>3. hookActive /\ ~Has(toPage, "hook") /\ \A h \in DOMAIN hookState : hookState[h] # 0
    BY <2>2 DEF OneRun
  <2> QED
    BY <2>1, <2>2, <2>3 DEF OneRun
<1>4. ASSUME Reads, Head(toPlugin).type # "hook_continue",
             UNCHANGED <<hookState, hookActive, misused>>,
             toPage' = toPage \/ \E m \in ToPage : m.type # "hook" /\ toPage' = Append(toPage, m)
      PROVE  OneRun'
  <2>1. /\ Has(toPlugin', "hook_continue") => Has(toPlugin, "hook_continue")
        /\ Once(toPlugin', "hook_continue")
    BY <1>0, <1>4, ReadTypes DEF OneRun, Reads
  <2>2. (Has(toPage', "hook") <=> Has(toPage, "hook")) /\ Once(toPage', "hook")
    <3>1. CASE toPage' = toPage
      BY <3>1 DEF OneRun
    <3>2. CASE \E m \in ToPage : m.type # "hook" /\ toPage' = Append(toPage, m)
      <4>1. PICK m \in ToPage : m.type # "hook" /\ toPage' = Append(toPage, m)
        BY <3>2
      <4>2. Once(toPage, "hook")
        BY DEF OneRun
      <4>3. /\ Has(Append(toPage, m), "hook") <=> Has(toPage, "hook")
            /\ Once(Append(toPage, m), "hook")
        BY <1>0, <4>1, <4>2, HookPosts
      <4> QED
        BY <4>1, <4>3
    <3> QED
      BY <1>4, <3>1, <3>2
  <2> QED
    BY <1>4, <2>1, <2>2 DEF OneRun
<1>5. ASSUME UNCHANGED <<toPlugin, hookState, hookActive, misused>>,
             toPage' = toPage \/ \E m \in ToPage : m.type # "hook" /\ toPage' = Append(toPage, m)
      PROVE  OneRun'
  <2>1. (Has(toPage', "hook") <=> Has(toPage, "hook")) /\ Once(toPage', "hook")
    <3>1. CASE toPage' = toPage
      BY <3>1 DEF OneRun
    <3>2. CASE \E m \in ToPage : m.type # "hook" /\ toPage' = Append(toPage, m)
      <4>1. PICK m \in ToPage : m.type # "hook" /\ toPage' = Append(toPage, m)
        BY <3>2
      <4>2. Once(toPage, "hook")
        BY DEF OneRun
      <4>3. /\ Has(Append(toPage, m), "hook") <=> Has(toPage, "hook")
            /\ Once(Append(toPage, m), "hook")
        BY <1>0, <4>1, <4>2, HookPosts
      <4> QED
        BY <4>1, <4>3
    <3> QED
      BY <1>5, <3>1, <3>2
  <2> QED
    BY <1>5, <2>1 DEF OneRun
<1>6. CASE PageCalls
  <2>0. UNCHANGED <<toPage, hookState, hookActive, misused>>
    BY <1>6 DEF PageCalls, Call, On, Off, Observe, Unobserve, ActsOnly, pluginVars
  <2>1. toPlugin' = toPlugin \/ \E m \in ToPlugin : m.type # "hook_continue" /\ Posts(m)
    <3>1. ASSUME NEW k \in Kinds, Call(k)
          PROVE  \E m \in ToPlugin : m.type # "hook_continue" /\ Posts(m)
      <4>1. NewId \in Calls /\ sent' = NewId
        BY <3>1, BeginsFacts DEF Call
      <4>2. Posts(Msg(k, NewId, NewId)) /\ Msg(k, NewId, NewId).type # "hook_continue"
        BY <3>1, <4>1 DEF Call, Post, Posts, Msg, Kinds
      <4> QED
        BY <4>1, <4>2, Postable
    <3>2. ASSUME NEW l \in Listeners, On(l) \/ Off(l)
          PROVE  toPlugin' = toPlugin \/ \E m \in ToPlugin : m.type # "hook_continue" /\ Posts(m)
      <4>1. \/ toPlugin' = toPlugin
            \/ Posts(Msg("register", 0, PageEvent))
            \/ Posts(Msg("unregister", 0, PageEvent))
        BY <3>2 DEF On, Off, Post, Posts
      <4>2. /\ Msg("register", 0, PageEvent).type # "hook_continue"
            /\ Msg("unregister", 0, PageEvent).type # "hook_continue"
        BY DEF Msg
      <4> QED
        BY <4>1, <4>2, Postable
    <3>3. CASE Observe
      <4>1. Posts(Msg("observe_property", nextOid, 0)) /\ nextOid \in 0..MaxSteps
        BY <3>3, BeginsFacts DEF Observe, Post, Posts
      <4>2. Msg("observe_property", nextOid, 0).type # "hook_continue"
        BY DEF Msg
      <4> QED
        BY <4>1, <4>2, Postable
    <3>4. ASSUME NEW i \in observers, Unobserve(i)
          PROVE  \E m \in ToPlugin : m.type # "hook_continue" /\ Posts(m)
      <4>1. Posts(Msg("unobserve_property", i, 0)) /\ i \in 0..MaxSteps
        BY <3>4 DEF Unobserve, Post, Posts, Shape
      <4>2. Msg("unobserve_property", i, 0).type # "hook_continue"
        BY DEF Msg
      <4> QED
        BY <4>1, <4>2, Postable
    <3> QED
      BY <1>6, <3>1, <3>2, <3>3, <3>4 DEF PageCalls
  <2> QED
    BY <1>1, <1>5, <2>0, <2>1
<1>7. CASE GotHook
  <2>1. /\ toPage # <<>> /\ Head(toPage).type = "hook" /\ toPage' = Tail(toPage)
        /\ hookState' = Append(hookState, 0) /\ UNCHANGED <<toPlugin, hookActive, misused>>
    BY <1>7 DEF GotHook, Got, GotOnly, pluginVars
  <2>2. Has(toPage, "hook") /\ ~Has(toPage', "hook") /\ Once(toPage', "hook")
    BY <1>0, <2>1, ReadTypes DEF OneRun
  <2>3. /\ hookActive /\ ~Has(toPlugin, "hook_continue")
        /\ \A h \in DOMAIN hookState : hookState[h] # 0
    BY <2>2 DEF OneRun
  <2>4. \A h \in DOMAIN hookState' : hookState'[h] = 0 => h = Len(hookState) + 1
    <3>1. /\ Len(hookState) \in Nat /\ DOMAIN hookState = 1..Len(hookState)
          /\ DOMAIN Append(hookState, 0) = 1..(Len(hookState) + 1)
          /\ \A i \in 1..Len(hookState) : Append(hookState, 0)[i] = hookState[i]
      BY <1>0
    <3> QED
      BY <2>1, <2>3, <3>1
  <2> QED
    BY <2>1, <2>2, <2>3, <2>4 DEF OneRun
<1>8. CASE GotChange \/ GotReply \/ GotEvent \/ Timers
  <2>1. /\ UNCHANGED <<toPlugin, hookState, hookActive, misused>>
        /\ toPage' = toPage \/ (toPage # <<>> /\ toPage' = Tail(toPage))
    BY <1>8 DEF GotChange, GotReply, GotEvent, Timers, TimerFires, Got, GotOnly, pluginVars
  <2>2. (Has(toPage', "hook") => Has(toPage, "hook")) /\ Once(toPage', "hook")
    BY <1>0, <2>1, ReadTypes DEF OneRun
  <2> QED
    BY <2>1, <2>2 DEF OneRun
<1>9. CASE HookAnswered \/ HookSettles
  <2>0. UNCHANGED <<toPage, hookActive, misused>>
    BY <1>9 DEF HookAnswered, HookSettles, Cont, HandlerSettles, HookOnly, pluginVars
  <2>1. \/ UNCHANGED <<toPlugin, hookState>>
        \/ \E h \in DOMAIN hookState : hookState[h] # 2 /\ DoCont(h)
    BY <1>9 DEF HookAnswered, HookSettles, Cont, MayCont, HandlerSettles, Shape
  <2>2. \A h \in DOMAIN hookState : hookState[h] \in {0, 2}
    BY <1>0
  <2> QED
    BY <1>2, <1>5, <2>0, <2>1, <2>2
<1>10. CASE PluginGets /\ ~ContinuesHook
  <2>1. /\ Reads /\ Head(toPlugin).type # "hook_continue"
        /\ UNCHANGED <<hookState, hookActive, misused>>
    BY <1>10 DEF PluginGets, Accepted, Refused, Observes, Unobserves, RequestsEvent, AddsHook, Told,
                 Reads, ToldOnly, pageVars, Kinds
  <2>2. toPage' = toPage \/ \E m \in ToPage : m.type # "hook" /\ toPage' = Append(toPage, m)
    <3>1. CASE Refused
      <4> DEFINE m == Reply(Head(toPlugin))
      <4>0. Head(toPlugin) \in ToPlugin
        BY <1>0, <2>1, Taken DEF Reads
      <4>1. Head(toPlugin) \in CallMsgs
        BY <3>1, <4>0, PluginMessages DEF Refused, Told
      <4>2. m \in ToPage /\ m.type # "hook"
        BY <4>1, CallMessages DEF Reply, Msg, Shape
      <4>3. toPage' = toPage \/ toPage' = Append(toPage, m)
        BY <3>1 DEF Refused, PostToPage
      <4> QED
        BY <4>2, <4>3
    <3>2. CASE ~Refused
      BY <1>10, <3>2 DEF PluginGets, Accepted, Observes, Unobserves, RequestsEvent, AddsHook
    <3> QED
      BY <3>1, <3>2
  <2> QED
    BY <1>4, <2>1, <2>2
<1>11. CASE RunsHook
  <2>1. /\ ~hookActive /\ hookActive' = TRUE /\ Dispatch(Msg("hook", 1, 0))
        /\ UNCHANGED <<toPlugin, hookState, misused>>
    BY <1>11 DEF RunsHook, pageVars
  <2>2. /\ ~Has(toPage, "hook") /\ ~Has(toPlugin, "hook_continue")
        /\ \A h \in DOMAIN hookState : hookState[h] # 0
    BY <2>1 DEF OneRun
  <2>3. toPage' = toPage \/ toPage' = Append(toPage, Msg("hook", 1, 0))
    BY <2>1 DEF Dispatch, PostToPage
  <2>4. Once(toPage', "hook")
    BY <1>0, <2>2, <2>3, Postable, HookPosts DEF OneRun
  <2> QED
    BY <2>1, <2>2, <2>4 DEF OneRun
<1>12. CASE MpvDoes /\ ~RunsHook
  <2>0. UNCHANGED <<toPlugin, hookState, hookActive, misused>>
    BY <1>12 DEF MpvDoes, Replies, Changes, Notifies, Happened, pageVars
  <2>1. toPage' = toPage \/ \E m \in ToPage : m.type # "hook" /\ toPage' = Append(toPage, m)
    <3>1. CASE Replies
      <4>1. PICK m \in requests : Dispatch(Reply(m))
        BY <3>1 DEF Replies
      <4>2. Reply(m) \in ToPage /\ Reply(m).type # "hook"
        BY CallMessages DEF Reply, Msg, Shape
      <4> QED
        BY <4>1, <4>2 DEF Dispatch, PostToPage
    <3>2. CASE Notifies
      <4>1. PICK i \in pending : Dispatch(Msg("property-change", i, value))
        BY <3>2 DEF Notifies
      <4>2. Msg("property-change", i, value) \in ToPage
            /\ Msg("property-change", i, value).type # "hook"
        BY Postable DEF Msg, Shape
      <4> QED
        BY <4>1, <4>2 DEF Dispatch, PostToPage
    <3>3. CASE Happened
      <4>1. Msg(PageEvent, 0, 0) \in ToPage /\ Msg(PageEvent, 0, 0).type # "hook"
        BY Postable DEF Msg, PageEvent
      <4> QED
        BY <3>3, <4>1 DEF Happened, Dispatch, PostToPage
    <3>4. CASE Changes
      BY <3>4 DEF Changes
    <3> QED
      BY <1>12, <3>1, <3>2, <3>3, <3>4 DEF MpvDoes
  <2> QED
    BY <1>5, <2>0, <2>1
<1>13. CASE UNCHANGED vars
  BY <1>5, <1>13 DEF vars, pageVars, pluginVars
<1> QED
  BY <1>3, <1>6, <1>7, <1>8, <1>9, <1>10, <1>11, <1>12, <1>13 DEF Next, Quiet, PageGets

-----------------------------------------------------------------------------
(* The theorems.                                                           *)

(* The inductive invariant: ids and replies belong to their calls, the     *)
(* last word about the event agrees with the page's table, and a run of    *)
(* the hook is in one place.                                               *)
THEOREM Invariance == Spec => []IInv
<1>1. IInv /\ [Next]_vars => IInv'
  <2> SUFFICES ASSUME IInv, [Next]_vars PROVE IInv'
    OBVIOUS
  <2>1. Shape'
    <3>1. CASE UNCHANGED vars
      BY <3>1 DEF IInv, Shape, vars, pageVars, pluginVars
    <3> QED
      BY <3>1, ShapePage, ShapePlugin DEF Next, Quiet
  <2> QED
    BY <2>1, OwnPromiseStep, HeardStep, OneRunStep DEF IInv
<1> QED
  BY <1>1, InitIInv, PTL DEF Spec

(* Variables keep their types, and the channels carry nothing but messages *)
(* the other side knows.                                                   *)
THEOREM TypeCorrect == Spec => []TypeOK
<1>1. IInv => TypeOK
  <2> SUFFICES ASSUME IInv PROVE TypeOK
    OBVIOUS
  <2>1. /\ nextGid \in 1..MaxSteps + 1 /\ nextOid \in 1..MaxSteps + 1
        /\ sent \in 0..MaxSteps /\ steps \in 0..MaxSteps
    BY BoundAssumption DEF IInv, Shape
  <2>2. \A i \in DOMAIN toPlugin : toPlugin[i].type \in MsgTypes
    BY PluginMessages DEF IInv, Shape
  <2>3. \A i \in DOMAIN toPage : toPage[i].type \in MsgTypes
    BY PageMessages DEF IInv, Shape
  <2>4. \A r \in requests : r.type \in Kinds
    BY CallMessages DEF IInv, Shape
  <2> QED
    BY <2>1, <2>2, <2>3, <2>4 DEF IInv, Shape, OwnPromise, TypeOK, Known
<1> QED
  BY <1>1, Invariance, PTL

(* A promise is settled by the reply to its own call or by its own timer.  *)
THEOREM SettledByItsOwn == Spec => []OwnAnswer
<1>1. IInv => OwnAnswer
  BY DEF IInv, OwnPromise
<1> QED
  BY <1>1, Invariance, PTL

(* When the plugin has read everything, it forwards what is listened to.   *)
THEOREM ListenersAreServed == Spec => []ListenersServed
<1>1. IInv => ListenersServed
  BY DEF IInv, Heard, Says, ListenersServed
<1> QED
  BY <1>1, Invariance, PTL

(* No run of the hook is continued twice, and no other run in its stead.   *)
THEOREM HooksContinuedOnce == Spec => []HookContinuedOnce
<1>1. IInv => HookContinuedOnce
  <2> SUFFICES ASSUME IInv PROVE HookContinuedOnce
    OBVIOUS
  <2> DEFINE running == {h \in DOMAIN hookState : hookState[h] = 0}
  <2>1. running = {} \/ \E h \in running : running = {h}
    BY DEF IInv, OneRun
  <2>2. Cardinality(running) <= 1
    BY <2>1, FS_EmptySet, FS_Singleton
  <2> QED
    BY <2>2 DEF IInv, OneRun, HookContinuedOnce
<1> QED
  BY <1>1, Invariance, PTL
=============================================================================
