------------------------------ MODULE EventPump ------------------------------
(***************************************************************************)
(* How the player's events reach the page: the client API of the mpv core  *)
(* (a ring of events with slots reserved for replies, lazily generated     *)
(* property changes, hooks that wait for them, one coalesced wakeup flag)  *)
(* and MPVInstance::HandleMPVEvents, which drains all of it on the         *)
(* plugin's main thread and posts what is registered.                      *)
(*                                                                         *)
(* The core thread and the main thread share ctx->lock and                 *)
(* ctx->wakeup_lock; neither is held from one step to the next here,       *)
(* except that one step is one critical section of ctx->lock.  The main    *)
(* thread also renders, and what it renders changes properties of its own  *)
(* (Rendered: osd-dimensions), whatever the core thread is doing.  The     *)
(* observed properties are those player.js observes once, when it starts.  *)
(***************************************************************************)
EXTENDS Integers, Sequences, FiniteSets

CONSTANTS NumProps,    \* observed properties, in the order of ctx->properties
          MaxEvents,   \* max_events of the ring
          MaxChanges,  \* bound: changes of each property
          MaxSent,     \* bound: events broadcast
          MaxCalls,    \* bound: asynchronous requests
          MaxHooks,    \* bound: hooks run
          Rendered,    \* properties that the rendering changes
          Registered   \* registed_events_: the kinds the page asked for

ASSUME RingAssumption == MaxEvents \in Nat \ {0} /\ NumProps \in Nat
ASSUME BoundsAssumption ==
  MaxChanges \in Nat /\ MaxSent \in Nat /\ MaxCalls \in Nat /\ MaxHooks \in Nat

Props == 1..NumProps
Values == {0, 1}

ASSUME RenderedAssumption == Rendered \subseteq Props

Calls == 1..MaxCalls

(* An event of the ring is a pair <<kind, n>>: n numbers the broadcasts,   *)
(* the requests that are replied to, and the hooks.                        *)
RingKinds == {"sent", "reply", "hook"}
Kinds == RingKinds \cup {"change", "overflow", "mpv-idle"}

ASSUME RegisteredAssumption == Registered \subseteq Kinds

VARIABLES
  events,      \* the ring, oldest first
  reserved,    \* reserved_events
  choked,      \* choked
  needWakeup,  \* need_wakeup
  wakeups,     \* HandleMPVEvents tasks posted to the main thread
  pump,        \* where HandleMPVEvents is
  hookPending, \* hook_pending
  value,       \* what the core would read for a property
  changeTs, valueTs, retTs, waiting, \* observe_property: change_ts, value_ts,
                                     \* value_ret_ts, waiting_for_hook
  read,        \* observe_property.value
  readAt,      \* change_ts when that value was read
  knownAt,     \* the same of the value last returned to the client
  newProps,    \* new_property_events
  propIndex,   \* cur_property_index
  pendingProps,\* has_pending_properties
  visiting,    \* the property send_client_property_changes reads, 0 outside
  fetched,     \* its val there, and change_ts when it was read
  sent, calls, hooks, \* counters of what has been produced
  outstanding, \* requests the core has yet to reply to
  lost,        \* broadcasts dropped because the ring was full
  hookState,   \* the active hook: "none", "sent" or "posted" to the page
  hookMark,    \* change_ts of every property when the hook was sent
  page,        \* the property values the page was sent
  seen,        \* the last broadcast the page was sent
  answers,     \* how many replies to a request the page was sent
  reported,    \* broadcasts whose loss an overflow event has reported
  unfinished   \* something was dispatched since the last mpv-idle

coreVars == <<value, changeTs, pendingProps, visiting, fetched,
              sent, calls, hooks, outstanding, lost, hookMark>>
pageVars == <<page, seen, answers, reported, unfinished>>
propVars == <<valueTs, read, readAt>>
clientVars == <<hookPending, retTs, knownAt, waiting, newProps, propIndex>>
ringVars == <<events, reserved, choked>>
wakeVars == <<needWakeup, wakeups>>
vars == <<ringVars, wakeVars, pump, clientVars, propVars, coreVars, hookState, pageVars>>

TypeOK ==
  /\ events \in Seq(RingKinds \X Nat)
  /\ reserved \in Nat /\ wakeups \in Nat
  /\ choked \in BOOLEAN /\ needWakeup \in BOOLEAN /\ hookPending \in BOOLEAN
  /\ newProps \in BOOLEAN /\ pendingProps \in BOOLEAN
  /\ hookState \in {"none", "sent", "posted"}
  /\ pump \in {"idle", "scan", "wait"}
  /\ value \in [Props -> Values] /\ {read, page} \subseteq [Props -> Values \cup {-1}]
  /\ {changeTs, valueTs, retTs, readAt, knownAt} \subseteq [Props -> Nat]
  /\ waiting \in [Props -> BOOLEAN]
  /\ propIndex \in 0..NumProps
  /\ visiting \in 0..NumProps /\ fetched \in Values \X Nat
  /\ sent \in 0..MaxSent /\ calls \in 0..MaxCalls /\ hooks \in 0..MaxHooks
  /\ outstanding \subseteq Calls /\ answers \in [Calls -> Nat]
  /\ lost \subseteq 1..MaxSent /\ reported \subseteq 1..MaxSent
  /\ seen \in 0..MaxSent /\ unfinished \in BOOLEAN
  /\ hookMark \in [Props -> Nat]

(* The page has observed its properties (change_ts = 1 forces the initial  *)
(* event) and setting the wakeup callback has posted the first task.  Any  *)
(* earlier event has left need_wakeup set without a callback to call.      *)
Init ==
  /\ events = <<>> /\ reserved = 0 /\ choked = FALSE
  /\ needWakeup \in BOOLEAN
  /\ wakeups = 1
  /\ pump = "idle"
  /\ hookPending = FALSE
  /\ value = [p \in Props |-> 0] /\ read = [p \in Props |-> -1]
  /\ changeTs = [p \in Props |-> 1]
  /\ valueTs = [p \in Props |-> 0] /\ retTs = [p \in Props |-> 0]
  /\ readAt = [p \in Props |-> 0] /\ knownAt = [p \in Props |-> 0]
  /\ waiting = [p \in Props |-> FALSE]
  /\ newProps = TRUE /\ propIndex = 0 /\ pendingProps = TRUE
  /\ visiting = 0 /\ fetched = <<0, 0>>
  /\ sent = 0 /\ calls = 0 /\ hooks = 0 /\ lost = {} /\ outstanding = {}
  /\ hookState = "none" /\ hookMark = [p \in Props |-> 0]
  /\ page = [p \in Props |-> -1] /\ seen = 0
  /\ answers = [n \in Calls |-> 0] /\ reported = {} /\ unfinished = FALSE

-----------------------------------------------------------------------------
(* wakeup_client: the callback is called only when the flag was clear.     *)
WakeupClient ==
  /\ needWakeup' = TRUE
  /\ wakeups' = IF needWakeup THEN wakeups ELSE wakeups + 1

(* Operators named after what they do wrong, here and below, are variants  *)
(* of the operator that follows them; no specification uses them.          *)
RoomBesidesReplies == Len(events) < MaxEvents
Room == Len(events) + reserved < MaxEvents

(* send_event with the event enabled; Send fails when the ring is full and *)
(* for as long as the overflow has not been reported.                      *)
Accepts == ~choked /\ Room

SendSucceeds(e) ==
  /\ Accepts
  /\ events' = Append(events, e)
  /\ WakeupClient
  /\ UNCHANGED <<reserved, choked>>

SendFailsQuietly ==
  /\ ~Accepts
  /\ UNCHANGED <<ringVars, wakeVars>>

SendFails ==
  /\ ~Accepts
  /\ choked' = TRUE
  /\ UNCHANGED <<events, reserved, needWakeup, wakeups>>

(* Properties change on the core thread, or with the core locked, hence    *)
(* never while it sends them; those of the rendering keep their value.     *)
CoreChanges(S) ==
  /\ visiting = 0
  /\ changeTs' = [p \in Props |-> IF p \in S THEN changeTs[p] + 1 ELSE changeTs[p]]
  /\ value' \in [Props -> Values]
  /\ \A p \in Props : p \notin S \ Rendered => value'[p] = value[p]
  /\ pendingProps' = (pendingProps \/ S # {})

(* mp_client_broadcast_event: start-file, file-loaded, end-file and so on. *)
(* First notify_property_events marks the properties that are mapped to    *)
(* the event, which may be all, even if the event itself is then dropped.  *)
Broadcast ==
  /\ sent < MaxSent
  /\ sent' = sent + 1
  /\ \E S \in SUBSET Props : CoreChanges(S)
  /\ \/ SendSucceeds(<<"sent", sent + 1>>) /\ UNCHANGED lost
     \/ SendFails /\ lost' = lost \cup {sent + 1}
  /\ UNCHANGED <<pump, clientVars, propVars, hookState, pageVars>>
  /\ UNCHANGED <<visiting, fetched, calls, hooks, outstanding, hookMark>>

(* invoke_hook_handler; one hook is active at a time.  A hook that cannot  *)
(* be sent is removed, so the core does not wait for it.                   *)
RunHook ==
  /\ hookState = "none" /\ hooks < MaxHooks /\ visiting = 0
  /\ hooks' = hooks + 1
  /\ \/ SendSucceeds(<<"hook", hooks + 1>>) /\ hookState' = "sent" /\ hookMark' = changeTs
     \/ SendFails /\ UNCHANGED <<hookState, hookMark>>
  /\ UNCHANGED <<pump, clientVars, propVars, pageVars>>
  /\ UNCHANGED <<value, changeTs, pendingProps, visiting, fetched, sent, calls, outstanding, lost>>

(* hook_continue: HandleMessage on the main thread, after the page's       *)
(* handler.                                                                *)
ContinueHook ==
  /\ pump = "idle" /\ hookState = "posted"
  /\ hookState' = "none"
  /\ UNCHANGED <<ringVars, wakeVars, pump, clientVars, propVars, coreVars, pageVars>>

(* run_async on the main thread, inside HandleMessage: reserve_reply, then *)
(* the core has the request.  What is refused never becomes one.           *)
Request ==
  /\ pump = "idle" /\ calls < MaxCalls
  /\ Accepts
  /\ calls' = calls + 1
  /\ outstanding' = outstanding \cup {calls + 1}
  /\ reserved' = reserved + 1
  /\ UNCHANGED <<events, choked, wakeVars, pump, clientVars, propVars, hookState, pageVars>>
  /\ UNCHANGED <<value, changeTs, pendingProps, visiting, fetched, sent, hooks, lost, hookMark>>

(* send_reply: requests are completed in any order.                        *)
Reply(n) ==
  /\ n \in outstanding
  /\ outstanding' = outstanding \ {n}
  /\ reserved' = reserved - 1
  /\ events' = Append(events, <<"reply", n>>)
  /\ WakeupClient
  /\ UNCHANGED <<choked, pump, clientVars, propVars, hookState, pageVars>>
  /\ UNCHANGED <<value, changeTs, pendingProps, visiting, fetched, sent, calls, hooks, lost, hookMark>>

-----------------------------------------------------------------------------
(* Properties.                                                             *)

(* mp_client_property_change; the value may also be what it was.           *)
Change(p) ==
  /\ changeTs[p] <= MaxChanges
  /\ CoreChanges({p})
  /\ UNCHANGED <<ringVars, wakeVars, pump, clientVars, propVars, hookState, pageVars>>
  /\ UNCHANGED <<visiting, fetched, sent, calls, hooks, outstanding, lost, hookMark>>

(* check_obj_resize while the main thread renders: the new size and the    *)
(* broadcast of MP_EVENT_WIN_RESIZE, which nobody listens to, but which is *)
(* mapped to osd-dimensions.  The getter needs the osd's lock as well, so  *)
(* it reads the size before both or after both.                            *)
Resize(p) ==
  /\ p \in Rendered /\ pump = "idle" /\ changeTs[p] <= MaxChanges
  /\ value' \in {[value EXCEPT ![p] = v] : v \in Values}
  /\ changeTs' = [changeTs EXCEPT ![p] = @ + 1]
  /\ pendingProps' = TRUE
  /\ UNCHANGED <<ringVars, wakeVars, pump, clientVars, propVars, hookState, pageVars>>
  /\ UNCHANGED <<visiting, fetched, sent, calls, hooks, outstanding, lost, hookMark>>

(* send_client_property_changes visits the properties in order.  The lock  *)
(* is dropped while one is read; reading it at the end of the step before  *)
(* leaves the race as it is, since a resize in between might as well have  *)
(* come before.  After the last one the client is woken.                   *)
WakeupIfNew == IF newProps' THEN WakeupClient ELSE UNCHANGED wakeVars

Least(S) == CHOOSE p \in S : \A q \in S : p <= q
Stale(p, stamps) == stamps[p] # changeTs[p]

Visit(rest) ==
  IF rest = {}
  THEN visiting' = 0 /\ fetched' = <<0, 0>> /\ WakeupIfNew
  ELSE /\ visiting' = Least(rest)
       /\ fetched' = <<value[Least(rest)], changeTs[Least(rest)]>>
       /\ UNCHANGED wakeVars

SendBegin ==
  /\ pendingProps /\ visiting = 0
  /\ pendingProps' = FALSE
  /\ UNCHANGED newProps
  /\ Visit({p \in Props : Stale(p, valueTs)})
  /\ UNCHANGED <<ringVars, pump, hookPending, retTs, knownAt, waiting, propIndex>>
  /\ UNCHANGED <<propVars, hookState, pageVars>>
  /\ UNCHANGED <<value, changeTs, sent, calls, hooks, outstanding, lost, hookMark>>

ChangedFirst(p) == valueTs[p] = 0
(* A change back to the value the client has already seen is no event.     *)
Changed(p) == valueTs[p] = 0 \/ read[p] # fetched[1]

StaysWaiting(p) == waiting
DoneWaiting(p) == [waiting EXCEPT ![p] = FALSE]

(* Under the lock again: the value that was read is compared, and stamped  *)
(* with change_ts as it is now.                                            *)
SendProp(p) ==
  LET silent == ~Changed(p) /\ retTs[p] = valueTs[p]
  IN /\ visiting = p
     /\ read' = [read EXCEPT ![p] = fetched[1]]
     /\ readAt' = [readAt EXCEPT ![p] = fetched[2]]
     /\ valueTs' = [valueTs EXCEPT ![p] = changeTs[p]]
     /\ retTs' = IF silent THEN [retTs EXCEPT ![p] = changeTs[p]] ELSE retTs
     /\ knownAt' = IF silent THEN [knownAt EXCEPT ![p] = fetched[2]] ELSE knownAt
     /\ newProps' = (newProps \/ waiting[p] \/ ~silent)
     /\ waiting' = IF silent THEN DoneWaiting(p) ELSE waiting
     /\ Visit({q \in Props : q > p /\ Stale(q, valueTs)})
     /\ UNCHANGED <<ringVars, pump, hookPending, propIndex, hookState, pageVars>>
     /\ UNCHANGED <<value, changeTs, pendingProps, sent, calls, hooks, outstanding, lost, hookMark>>

-----------------------------------------------------------------------------
(* The main thread: HandleMPVEvents around mpv_wait_event(mpv_, 0).        *)

PumpBeginUnasked ==
  /\ pump = "idle"
  /\ wakeups' = wakeups - 1
  /\ pump' = "scan"
  /\ UNCHANGED <<ringVars, needWakeup, clientVars, propVars, coreVars, hookState, pageVars>>

PumpBegin ==
  /\ pump = "idle" /\ wakeups > 0
  /\ wakeups' = wakeups - 1
  /\ pump' = "scan"
  /\ UNCHANGED <<ringVars, needWakeup, clientVars, propVars, coreVars, hookState, pageVars>>

HookAtHead == events # <<>> /\ Head(events)[1] = "hook"

MarkNothing == waiting
(* set_wait_for_hook_flags.                                                *)
MarkPending == [p \in Props |-> waiting[p] \/ retTs[p] # changeTs[p]]

(* It is called once per hook.                                             *)
WaitingAfterMark == IF HookAtHead /\ ~hookPending THEN MarkPending ELSE waiting
HookDelayed == HookAtHead /\ \E p \in Props : WaitingAfterMark[p]

(* DispatchEvent filters by name; an overflow report is only for the page. *)
PumpOverflow ==
  /\ pump = "scan" /\ choked /\ events = <<>>
  /\ choked' = FALSE
  /\ reported' = lost
  /\ unfinished' = TRUE
  /\ UNCHANGED <<events, reserved, wakeVars, pump, clientVars, propVars, coreVars, hookState>>
  /\ UNCHANGED <<page, seen, answers>>

PostRingEvent(kind, n) ==
  /\ seen' = IF kind = "sent" THEN n ELSE seen
  /\ answers' = IF kind = "reply" THEN [answers EXCEPT ![n] = @ + 1] ELSE answers
  /\ hookState' = IF kind = "hook" THEN "posted" ELSE hookState

PumpRing ==
  LET kind == Head(events)[1]
  IN /\ pump = "scan" /\ events # <<>> /\ ~HookDelayed
     /\ events' = Tail(events)
     /\ IF kind \in Registered
        THEN PostRingEvent(kind, Head(events)[2])
        ELSE UNCHANGED <<seen, answers, hookState>>
     /\ unfinished' = TRUE
     /\ hookPending' = (hookPending /\ kind # "hook")
     /\ waiting' = WaitingAfterMark
     /\ UNCHANGED <<reserved, choked, wakeVars, pump, propVars, coreVars>>
     /\ UNCHANGED <<retTs, knownAt, newProps, propIndex, page, reported>>

(* gen_property_change_event: the round robin over the properties, and a   *)
(* second round if something is new.                                       *)
Ready(p) == valueTs[p] = changeTs[p] /\ retTs[p] # valueTs[p]
ReadyFrom(i) == {p \in Props : p > i /\ Ready(p)}

Candidates == IF ReadyFrom(propIndex) # {} THEN ReadyFrom(propIndex)
              ELSE IF newProps THEN ReadyFrom(0) ELSE {}

RingFirst == (choked /\ events = <<>>) \/ (events # <<>> /\ ~HookDelayed)

PumpProp ==
  LET p == Least(Candidates)
  IN /\ pump = "scan" /\ ~RingFirst /\ Candidates # {}
     /\ hookPending' = (hookPending \/ HookAtHead)
     /\ waiting' = [WaitingAfterMark EXCEPT ![p] = FALSE]
     /\ retTs' = [retTs EXCEPT ![p] = valueTs[p]]
     /\ knownAt' = [knownAt EXCEPT ![p] = readAt[p]]
     /\ newProps' = (newProps /\ ReadyFrom(propIndex) # {})
     /\ propIndex' = p
     /\ page' = IF "change" \in Registered THEN [page EXCEPT ![p] = read[p]] ELSE page
     /\ unfinished' = TRUE
     /\ UNCHANGED <<ringVars, wakeVars, pump, propVars, coreVars, hookState>>
     /\ UNCHANGED <<seen, answers, reported>>

(* Nothing to return: both rounds over the properties were made.           *)
PumpEmpty ==
  /\ pump = "scan" /\ ~RingFirst /\ Candidates = {}
  /\ hookPending' = (hookPending \/ HookAtHead)
  /\ waiting' = WaitingAfterMark
  /\ newProps' = FALSE
  /\ propIndex' = NumProps
  /\ pump' = "wait"
  /\ UNCHANGED <<ringVars, wakeVars, retTs, knownAt, propVars, coreVars, hookState, pageVars>>

PumpStopsOnTimeout ==
  /\ pump = "wait" /\ needWakeup
  /\ needWakeup' = FALSE
  /\ pump' = "idle"
  /\ UNCHANGED <<ringVars, wakeups, clientVars, propVars, coreVars, hookState, pageVars>>

(* wait_wakeup with a deadline that has passed: a wakeup that came since   *)
(* the last one is consumed and everything is looked at again.             *)
PumpAgain ==
  /\ pump = "wait" /\ needWakeup
  /\ needWakeup' = FALSE
  /\ pump' = "scan"
  /\ UNCHANGED <<ringVars, wakeups, clientVars, propVars, coreVars, hookState, pageVars>>

PumpEnd ==
  /\ pump = "wait" /\ ~needWakeup
  /\ pump' = "idle"
  /\ unfinished' = IF "mpv-idle" \in Registered THEN FALSE ELSE unfinished
  /\ UNCHANGED <<ringVars, wakeVars, clientVars, propVars, coreVars, hookState>>
  /\ UNCHANGED <<page, seen, answers, reported>>

-----------------------------------------------------------------------------
PumpStep == \/ PumpBegin \/ PumpOverflow \/ PumpRing \/ PumpProp \/ PumpEmpty
            \/ PumpAgain \/ PumpEnd
SendChanges == SendBegin \/ \E p \in Props : SendProp(p)

(* Nothing is left to produce, to send or to drain.                        *)
Quiet == /\ pump = "idle" /\ wakeups = 0
         /\ ~pendingProps /\ visiting = 0 /\ outstanding = {} /\ hookState # "posted"
Stopped == Quiet /\ UNCHANGED vars

Next ==
  \/ Broadcast \/ RunHook \/ ContinueHook \/ Request
  \/ \E n \in Calls : Reply(n)
  \/ \E p \in Props : Change(p) \/ Resize(p)
  \/ SendChanges
  \/ PumpStep
  \/ Stopped

Spec == Init /\ [][Next]_vars

(* Both threads run; the core completes what it accepted and the page      *)
(* continues its hooks.                                                    *)
Fairness ==
  /\ WF_vars(PumpStep) /\ WF_vars(SendChanges) /\ WF_vars(ContinueHook)
  /\ \A n \in Calls : WF_vars(Reply(n))

FairSpec == Spec /\ Fairness

-----------------------------------------------------------------------------
(* Properties.                                                             *)

(* What mpv_wait_event would return now.  The report of an overflow by     *)
(* itself wakes nobody; it may have to wait for a reply that is owed.      *)
Deliverable ==
  \/ Candidates # {}
  \/ events # <<>> /\ ~HookDelayed
  \/ choked /\ events = <<>> /\ reserved = 0
(* HandleMPVEvents is posted, looking, or will look again before it ends.  *)
Covered == wakeups > 0 \/ pump = "scan" \/ (pump = "wait" /\ needWakeup)

(* No lost wakeup.  The callback is called only when need_wakeup was       *)
(* clear, and the flag is cleared under another lock than the queue is     *)
(* filled; yet nothing that could be returned is ever left without a task. *)
NoLostWakeup == visiting = 0 /\ Deliverable => Covered

(* A request that was accepted is answered once: it is with the core, in   *)
(* the ring, or with the page.  And its slot is really reserved: send_reply *)
(* cannot reach its abort().                                               *)
RepliesKept ==
  /\ Len(events) + reserved <= MaxEvents
  /\ reserved = Cardinality(outstanding)
  /\ "reply" \in Registered =>
       \A n \in 1..calls :
         LET places == {i \in DOMAIN events : events[i] = <<"reply", n>>}
         IN Cardinality(places) + answers[n] + (IF n \in outstanding THEN 1 ELSE 0) = 1

(* Events are only lost when the ring overflows, and by the time the page  *)
(* sees a later one an overflow event has been returned.                   *)
LossIsReported == /\ \A n \in lost : n < seen => n \in reported
                  /\ lost # reported => choked

(* client.c promises "Give old property notifications priority over hooks" *)
(* and player.js's on_load_fail handler relies on it (it reads the path    *)
(* and the options from its cache): when a hook reaches the page, the      *)
(* value it was last sent of each property was read after every change     *)
(* that came before the hook.  What the rendering changes is left out: a   *)
(* value may be stamped with a resize that it was read before.             *)
HookSeesProperties ==
  [][hookState' = "posted" => \A p \in Props \ Rendered : knownAt[p] >= hookMark[p]]_hookState

(* The page's cache does not stay behind the core, although changes are    *)
(* coalesced, compared and skipped, and resizes come in between; but see   *)
(* PageCurrentAtRest for what the rendering changes itself.                *)
PageConverges == \A p \in Props \ Rendered : page[p] # value[p] ~> page[p] = value[p]

(* What value_ret_ts promises: when it is change_ts, the page has the      *)
(* core's value of a property, except of what the rendering changes.       *)
PageHasValues ==
  "change" \in Registered =>
    \A p \in Props \ Rendered : retTs[p] = changeTs[p] => page[p] = value[p]

(* gen_property_change_event says of value_ts = change_ts "not a stale     *)
(* value": so, once all is sent and drained, the page has the value of     *)
(* every property that is stamped so.                                      *)
PageCurrentAtRest ==
  Quiet /\ ~Deliverable => \A p \in Props : valueTs[p] = changeTs[p] => page[p] = value[p]

(* A hook blocks playback: its event is delayed, but not for ever.  And    *)
(* mpv-idle closes every burst of events.                                  *)
BurstsEnd ==
  /\ hookState = "sent" ~> hookState = "posted"
  /\ unfinished ~> ~unfinished
=============================================================================
