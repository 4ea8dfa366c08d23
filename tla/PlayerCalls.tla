---------------------------- MODULE PlayerCalls ----------------------------
(***************************************************************************)
(* The page's player object (player.js, base.js) and the plugin's          *)
(* HandleMessage and DispatchEvent (nacl-pepper.cc) over the two message   *)
(* channels between them: calls with a timer each, listeners that register *)
(* events, observed properties and the hook of the credentials.            *)
(*                                                                         *)
(* mpv behind the plugin (EventPump, CoreShutdown) is reduced to what it   *)
(* may do: finish requests in any order, refuse them, notify of changes    *)
(* and run the hook.  The model begins at "ready", when the constructor    *)
(* has posted its messages.                                                *)
(***************************************************************************)
EXTENDS Integers, Sequences, FiniteSets

CONSTANTS Listeners,  \* callbacks of the page for one event of its choice
          MaxSteps    \* bound: what the page and mpv begin, all together

ASSUME BoundAssumption == MaxSteps \in Nat

Calls == 1..MaxSteps
Kinds == {"command", "set_property", "get_property_async"}
Unsettled == 0
ByTimer == -1

PageEvent == "event"   \* of the page's choice: "detection", "start-file", ...
Events == {"property-change", "reply", "hook", PageEvent}

ById == 0  \* the id of observe_property without a callback

VARIABLES
  nextGid, nextOid,
  sent,       \* calls made
  resolvers,  \* of every id the call whose promise and timer it holds, or 0
  result,     \* what settled a call: the call whose reply it was, or its timer
  handlers,   \* _eventHandlers[PageEvent]
  observers,  \* ids of observe_property with a callback
  cache,      \* props[name] of the one property that is modelled
  hookState,  \* of every run of the hook: 0 initial, 2 continued
  settling,   \* runs whose handler has not returned or settled yet
  toPlugin, toPage,
  registed,   \* registed_events_
  requests,   \* accepted by mpv, not yet replied
  observed,   \* ids that observe the property in mpv
  pending,    \* of these the ones that have a change to report
  value,      \* of the property
  hookAdded, hookActive,
  misused,    \* mpv_hook_continue found no active hook
  steps       \* for the bound

pageVars == <<nextGid, nextOid, sent, resolvers, result, handlers, observers, cache,
              hookState, settling>>
pluginVars == <<registed, requests, observed, pending, value, hookAdded, hookActive,
                misused>>
vars == <<pageVars, pluginVars, toPlugin, toPage, steps>>

Msg(type, id, of) == [type |-> type, id |-> id, of |-> of]
Values == {0, 1}
NoValue == 2  \* the property is unavailable
MsgTypes == Kinds \cup Events \cup {"observe_property", "unobserve_property", "hook_add",
                                    "hook_continue", "register", "unregister"}

TypeOK ==
  /\ nextGid \in 1..MaxSteps + 1 /\ nextOid \in 1..MaxSteps + 1
  /\ sent \in 0..MaxSteps
  /\ resolvers \in [Calls -> 0..MaxSteps]
  /\ result \in [Calls -> {Unsettled, ByTimer} \cup Calls]
  /\ handlers \subseteq Listeners
  /\ observers \subseteq 1..MaxSteps
  /\ cache \in Values
  /\ hookState \in Seq({0, 2}) /\ settling \subseteq DOMAIN hookState
  /\ \A c \in {toPlugin, toPage} : \A i \in DOMAIN c : c[i].type \in MsgTypes
  /\ registed \subseteq Events
  /\ \A r \in requests : r.type \in Kinds
  /\ observed \subseteq 0..MaxSteps /\ pending \subseteq observed
  /\ value \in Values \cup {NoValue}
  /\ hookAdded \in BOOLEAN /\ hookActive \in BOOLEAN /\ misused \in BOOLEAN
  /\ steps \in 0..MaxSteps

(* init(): observes, registers what it handles, adds its hook.             *)
HookAddedFirst == <<Msg("observe_property", ById, 0), Msg("register", 0, "property-change"),
                    Msg("register", 0, "reply"), Msg("hook_add", 1, 0),
                    Msg("register", 0, "hook")>>
Constructed == <<Msg("observe_property", ById, 0), Msg("register", 0, "property-change"),
                 Msg("register", 0, "reply"), Msg("register", 0, "hook"),
                 Msg("hook_add", 1, 0)>>

Init ==
  /\ nextGid = 1 /\ nextOid = 1 /\ sent = 0
  /\ resolvers = [id \in Calls |-> 0] /\ result = [c \in Calls |-> Unsettled]
  /\ handlers = {} /\ observers = {} /\ cache = 0
  /\ hookState = <<>> /\ settling = {}
  /\ toPlugin = Constructed /\ toPage = <<>>
  /\ registed = {} /\ requests = {} /\ observed = {} /\ pending = {}
  /\ value \in Values \cup {NoValue}
  /\ hookAdded = FALSE /\ hookActive = FALSE /\ misused = FALSE
  /\ steps = 0

-----------------------------------------------------------------------------
(* The page.                                                               *)

Begins == steps < MaxSteps /\ steps' = steps + 1
Post(m) == toPlugin' = Append(toPlugin, m)

Waiting == {id \in Calls : resolvers[id] # 0}

FreeId == CHOOSE id \in Calls \ Waiting : \A i \in Calls \ Waiting : id <= i
NewId == nextGid

(* command, property and get_property_async: _async_to_promise.            *)
Call(kind) ==
  /\ Begins
  /\ sent' = sent + 1
  /\ nextGid' = nextGid + 1
  /\ resolvers' = [resolvers EXCEPT ![NewId] = sent']
  /\ Post(Msg(kind, NewId, sent'))
  /\ UNCHANGED <<nextOid, result, handlers, observers, cache, hookState, settling,
                 pluginVars, toPage>>

Without(id) == [resolvers EXCEPT ![id] = 0]

TimerFires(id) ==
  /\ id \in Waiting
  /\ result' = [result EXCEPT ![resolvers[id]] = ByTimer]
  /\ resolvers' = Without(id)
  /\ UNCHANGED <<nextGid, nextOid, sent, handlers, observers, cache, hookState, settling,
                 pluginVars, toPlugin, toPage, steps>>

ActsOnly == <<nextGid, sent, resolvers, result, cache, hookState, settling, pluginVars, toPage>>

(* register_event and off.                                                 *)
On(l) ==
  /\ Begins /\ l \notin handlers
  /\ handlers' = handlers \cup {l}
  /\ Post(Msg("register", 0, PageEvent))
  /\ UNCHANGED <<nextOid, observers, ActsOnly>>

LastIsOff(l) == TRUE
NobodyLeft(l) == handlers \ {l} = {}

Off(l) ==
  /\ Begins
  /\ handlers' = handlers \ {l}
  /\ IF NobodyLeft(l) THEN Post(Msg("unregister", 0, PageEvent)) ELSE UNCHANGED toPlugin
  /\ UNCHANGED <<nextOid, observers, ActsOnly>>

Observe ==
  /\ Begins
  /\ nextOid' = nextOid + 1
  /\ observers' = observers \cup {nextOid}
  /\ Post(Msg("observe_property", nextOid, 0))
  /\ UNCHANGED <<handlers, ActsOnly>>

(* The id that is posted is the key of an object: a string.                *)
Unobserve(id) ==
  /\ Begins /\ id \in observers
  /\ observers' = observers \ {id}
  /\ Post(Msg("unobserve_property", id, 0))
  /\ UNCHANGED <<nextOid, handlers, ActsOnly>>

-----------------------------------------------------------------------------
(* What the page does with a message.                                      *)

Got(type) == toPage # <<>> /\ Head(toPage).type = type /\ toPage' = Tail(toPage)
GotOnly == <<nextGid, nextOid, sent, handlers, observers, pluginVars, steps>>

(* A change without a value is ignored, and so is one of an observer that  *)
(* has gone; those with a callback leave the cache alone.                  *)
GotChange ==
  /\ Got("property-change")
  /\ cache' = IF Head(toPage).id = ById /\ Head(toPage).of # NoValue THEN Head(toPage).of ELSE cache
  /\ UNCHANGED <<resolvers, result, hookState, settling, toPlugin, GotOnly>>

(* _on_resolve; get-property-reply also updates the cache.                 *)
GotReply ==
  /\ Got("reply")
  /\ LET r == Head(toPage).of
         id == Head(toPage).id
     IN /\ cache' = IF r.type = "get_property_async" /\ r.value # NoValue THEN r.value ELSE cache
        /\ IF id \in Waiting
           THEN /\ result' = [result EXCEPT ![resolvers[id]] = r.of]
                /\ resolvers' = Without(id)
           ELSE UNCHANGED <<result, resolvers>>
  /\ UNCHANGED <<hookState, settling, toPlugin, GotOnly>>

GotHook ==
  /\ Got("hook")
  /\ hookState' = Append(hookState, 0)
  /\ settling' = settling \cup {Len(hookState) + 1}
  /\ UNCHANGED <<resolvers, result, cache, toPlugin, GotOnly>>

GotEvent ==
  /\ Got(PageEvent)
  /\ UNCHANGED <<resolvers, result, cache, hookState, settling, toPlugin, GotOnly>>

HookOnly == <<nextGid, nextOid, sent, resolvers, result, handlers, observers, cache,
              pluginVars, toPage, steps>>

DoCont(h) == hookState' = [hookState EXCEPT ![h] = 2] /\ Post(Msg("hook_continue", 1, 0))

MayContAgain(h) == TRUE
MayCont(h) == hookState[h] # 2

(* cont(), by the handler or, with the answer of the user, at any time     *)
(* after it has returned.                                                  *)
Cont(h) ==
  /\ MayCont(h) /\ DoCont(h)
  /\ UNCHANGED <<settling, HookOnly>>

(* The promise of the handler settles.                                     *)
HandlerSettles(h) ==
  /\ h \in settling
  /\ settling' = settling \ {h}
  /\ IF hookState[h] = 0 THEN DoCont(h) ELSE UNCHANGED <<hookState, toPlugin>>
  /\ UNCHANGED HookOnly

-----------------------------------------------------------------------------
(* The plugin: HandleMessage.                                              *)

Told(types) == toPlugin # <<>> /\ Head(toPlugin).type \in types /\ toPlugin' = Tail(toPlugin)
ToldOnly == <<pageVars, value, steps>>
PostToPage(m) == toPage' = Append(toPage, m)

Accepted ==
  /\ Told(Kinds)
  /\ requests' = requests \cup {Head(toPlugin)}
  /\ UNCHANGED <<registed, observed, pending, hookAdded, hookActive, misused, toPage, ToldOnly>>

Reply(m) == Msg("reply", m.id, [type |-> m.type, of |-> m.of, value |-> value])

(* mpv refuses it: the queue of replies is full, or it is no command.  Only *)
(* a command is answered (PostCommandFail, whether registered or not); a   *)
(* value of another type than the four of set_property is refused as well. *)
Refused ==
  /\ Told(Kinds)
  /\ LET m == Head(toPlugin)
     IN IF m.type = "command" THEN PostToPage(Reply(m)) ELSE UNCHANGED toPage
  /\ UNCHANGED <<registed, requests, observed, pending, hookAdded, hookActive, misused, ToldOnly>>

(* mpv_observe_property: the first notification is always due.             *)
Observes ==
  /\ Told({"observe_property"})
  /\ observed' = observed \cup {Head(toPlugin).id}
  /\ pending' = pending \cup {Head(toPlugin).id}
  /\ UNCHANGED <<registed, requests, hookAdded, hookActive, misused, toPage, ToldOnly>>

(* AsInt of a string.                                                      *)
KeyAsInt(id) == 0

UnobservesLate ==
  /\ Told({"unobserve_property"})
  /\ observed' = observed \ {KeyAsInt(Head(toPlugin).id)}
  /\ UNCHANGED <<registed, requests, pending, hookAdded, hookActive, misused, toPage, ToldOnly>>

Unobserves ==
  /\ Told({"unobserve_property"})
  /\ LET id == KeyAsInt(Head(toPlugin).id)
     IN observed' = observed \ {id} /\ pending' = pending \ {id}
  /\ UNCHANGED <<registed, requests, hookAdded, hookActive, misused, toPage, ToldOnly>>

RequestsEvent ==
  /\ Told({"register", "unregister"})
  /\ registed' = IF Head(toPlugin).type = "register" THEN registed \cup {Head(toPlugin).of}
                 ELSE registed \ {Head(toPlugin).of}
  /\ UNCHANGED <<requests, observed, pending, hookAdded, hookActive, misused, toPage, ToldOnly>>

AddsHook ==
  /\ Told({"hook_add"})
  /\ hookAdded' = TRUE
  /\ UNCHANGED <<registed, requests, observed, pending, hookActive, misused, toPage, ToldOnly>>

(* mpv_hook_continue: the id is the one of the registration, the same for  *)
(* every run.                                                              *)
ContinuesHook ==
  /\ Told({"hook_continue"})
  /\ hookActive' = FALSE
  /\ misused' = (misused \/ ~hookActive)
  /\ UNCHANGED <<registed, requests, observed, pending, hookAdded, toPage, ToldOnly>>

-----------------------------------------------------------------------------
(* The plugin: DispatchEvent, for what mpv does.                           *)

Dispatch(m) == IF m.type \in registed THEN PostToPage(m) ELSE UNCHANGED toPage

Replies ==
  /\ \E m \in requests : /\ requests' = requests \ {m}
                         /\ Dispatch(Reply(m))
  /\ UNCHANGED <<pageVars, toPlugin, registed, observed, pending, value, hookAdded,
                 hookActive, misused, steps>>

Changes ==
  /\ Begins
  /\ value' \in (Values \cup {NoValue}) \ {value}
  /\ pending' = observed
  /\ UNCHANGED <<pageVars, toPlugin, toPage, registed, requests, observed, hookAdded,
                 hookActive, misused>>

Notifies ==
  /\ \E id \in pending : /\ pending' = pending \ {id}
                         /\ Dispatch(Msg("property-change", id, value))
  /\ UNCHANGED <<pageVars, toPlugin, registed, requests, observed, value, hookAdded,
                 hookActive, misused, steps>>

RunsHook ==
  /\ Begins /\ hookAdded /\ ~hookActive
  /\ hookActive' = TRUE
  /\ Dispatch(Msg("hook", 1, 0))
  /\ UNCHANGED <<pageVars, toPlugin, registed, requests, observed, pending, value, hookAdded,
                 misused>>

Happened ==
  /\ Begins
  /\ Dispatch(Msg(PageEvent, 0, 0))
  /\ UNCHANGED <<pageVars, toPlugin, registed, requests, observed, pending, value, hookAdded,
                 hookActive, misused>>

-----------------------------------------------------------------------------
PageCalls == \/ \E kind \in Kinds : Call(kind)
             \/ \E l \in Listeners : On(l) \/ Off(l)
             \/ Observe \/ \E id \in observers : Unobserve(id)
PageGets == GotChange \/ GotReply \/ GotHook \/ GotEvent
Timers == \E id \in Waiting : TimerFires(id)
HookAnswered == \E h \in DOMAIN hookState : Cont(h)
HookSettles == \E h \in settling : HandlerSettles(h)
PluginGets == \/ Accepted \/ Refused \/ Observes \/ Unobserves \/ RequestsEvent
              \/ AddsHook \/ ContinuesHook
MpvDoes == Replies \/ Changes \/ Notifies \/ RunsHook \/ Happened

Drained == /\ toPlugin = <<>> /\ toPage = <<>> /\ Waiting = {} /\ settling = {}
           /\ requests = {} /\ pending = {}
Quiet == Drained /\ UNCHANGED vars

Next == PageCalls \/ PageGets \/ Timers \/ HookAnswered \/ HookSettles \/ PluginGets \/ MpvDoes \/ Quiet

Spec == Init /\ [][Next]_vars

(* The channels deliver, timers fire and the promises of the handlers      *)
(* settle (the page's own: it opens the dialog and returns).  The answers  *)
(* of mpv and of the user are nobody's duty.                               *)
Fairness == /\ WF_vars(PageGets) /\ WF_vars(PluginGets)
            /\ WF_vars(Timers) /\ WF_vars(HookSettles)

FairSpec == Spec /\ Fairness

-----------------------------------------------------------------------------
(* Properties.                                                             *)

(* A call is settled by the reply to itself or by its own timer: a reply   *)
(* that comes after the timer settles nothing.                             *)
OwnAnswer == \A c \in Calls : result[c] \in {Unsettled, ByTimer, c}

(* Once the plugin has read what the page posted, it forwards the event    *)
(* exactly if somebody on the page listens to it.                          *)
ListenersServed == toPlugin = <<>> => (PageEvent \in registed <=> handlers # {})

(* A run of the hook is continued once: the answer of the user, which may  *)
(* come during a later run of the same id, does not continue that one.     *)
HookContinuedOnce ==
  /\ ~misused
  /\ hookActive => Cardinality({h \in DOMAIN hookState : hookState[h] = 0}) <= 1

(* Every call is settled, whether it was refused, forgotten or answered;   *)
(* and the core never waits for the hook for good.                         *)
CallsSettle ==
  /\ \A c \in Calls : sent >= c ~> result[c] # Unsettled
  /\ hookActive ~> ~hookActive

(* client.h: "You always get an initial change notification. This is meant *)
(* to initialize the user's state to the current value of the property."   *)
InitialValueSeen ==
  toPlugin = <<>> /\ toPage = <<>> /\ pending = {} /\ value # NoValue => cache = value
=============================================================================
