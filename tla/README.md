# A TLA+ development of electron-mpv

electron-mpv is a media player: an Electron application whose video element is
a Native Client / PPAPI plugin around a patched libmpv, with people detection
(a small neural network) added to mpv's decoder. This directory holds TLA+
modules translated from its source, TLC configurations that check them on small
instances, and proofs of the safety properties for every instance.

Paths below are relative to the repository; `plugin/` stands for
`src/nacl-mpv-plugin/` and `mpv-patched/` for
`src/nacl-mpv-plugin/src/mpv-patched/`.

## 1. Inventory

### The native side

| Component | Source | State it keeps | Operations |
|---|---|---|---|
| Detection task queue and service | `plugin/src/detection/safe-task-queue.hpp`, `detection-service.cc/.h` | the list `queue_` and its mutex, the on-demand worker `th_`, the network `net_`, `disabled_`, `idSeed_`; per node: `serviceId`, `frame`, `callback`, the spin lock `access` | `pushCheck`, `push`, `join`, `clear`, `cancel`, `popAndExecute`; `queueTask`, `executor`, `netwrok_async_detection_cancel`, the C++ wrapper, the static destructor |
| Patched decoder wrapper | `mpv-patched/filters/f_decoder_wrapper.c` | `detect_id`, the decoder's thread and queue, the demuxer position | `process_decoded_frame` (offers frames), `on_detections` (feeds captions), `public_f_destroy` (cancels) |
| Detection overlay | `mpv-patched/sub/sd_ass.c`, `detection/ai_render.c` | the events of the subtitle track | decode a caption, end older boxes, draw |
| Tiny network and kernels | `detection/tiny-network.c`, `gemm.cc`, `darknet.c` | layers, weights, work space | load, predict, suppress overlapping boxes |
| mpv render context | `plugin/src/mpv/video/out/vo_libmpv.c` | `next_frame`, `cur_frame`, `present_count`, `in_use`, the update callback | `draw_frame`, `flip_page`, `reconfig`, `uninit`; `mpv_render_context_render`, `_free`, `update` |
| PPAPI instance | `plugin/src/nacl-pepper.cc` | `is_painting_`, `needs_paint_`, the size, `registed_events_` | `HandleMPVUpdate/OnGetFrame`, `PaintFinished`, `DidChangeView`, `HandleMPVWakeup/HandleMPVEvents`, `HandleMessage`, the destructor |
| mpv client API | `plugin/src/mpv/player/client.c` | the ring and its reservations, `choked`, `need_wakeup`, `hook_pending`, four time stamps per observed property | `mp_client_send_event/broadcast`, `run_async/send_reply`, `mp_client_property_change`, `mp_client_send_property_changes`, `mpv_wait_event`; the broadcast of `mpv/sub/osd.c` while the main thread renders |
| mpv hooks | `plugin/src/mpv/player/command.c` | the active handler | `mp_hook_start`, `mp_hook_continue` |
| mpv dispatch queue | `plugin/src/mpv/misc/dispatch.c` | the items, `wait`, `interrupted`, `in_process`, `locked`, `lock_requests`, the thread that locked | `mp_dispatch_enqueue`, `_run`, `_cancel_fn`, `_lock`, `_unlock`, `_queue_process`, `_interrupt`, `_adjust_timeout` |
| Core thread and workers | `plugin/src/mpv/player/client.c`, `command.c`, `playloop.c`, `loadfile.c`, `screenshot.c`, `main.c` | `stop_play`, `shutting_down`, `outstanding_async`, `terminate_core_thread`, the list of clients | `core_thread`, `mp_shutdown_clients`, `mp_destroy_client`, `run_command` and `run_command_on_worker_thread` |
| The rest of the vendored mpv, build files, shims | | | taken as they are |

### The JavaScript side

| Component | Source | State it keeps | Operations |
|---|---|---|---|
| Page player object | `plugin/base.js`, `player.js` | pending calls with timers, `_observers`, property cache, hook state | `command/get/set`, `observe/unobserve`, `on/off`, `load_async`, the hook handlers |
| Player custom element | `plugin/player-components.js` | readiness, attributes | attribute and load gating |
| Stores and settings | `src/main/settings.js`, `src/renderer/*/store.js`, `utils/observable.js`, `play-control.vue`, `card-screenshot.vue` | the settings object, the save counter, `settings.json`, the watched copies | load, broadcast, watch, save |
| Windows, views, tabs | `src/main/window.js`, `views.js`, `windows-manager.js` | views by id, `selectedId` | create, select, destroy |
| Context menu | `src/utils/menu.js` | the pending answer | pop up, click, close |
| Pages | `src/renderer/**` | layout | user input, the credentials dialog |

### How they interact

The page posts messages to the plugin; `HandleMessage` runs on the plugin's main
thread and calls the client API. The core thread of mpv writes events into the
client's ring and calls the wakeup callback, which posts `HandleMPVEvents` to
the main thread; that drains the ring and posts what the page registered. The VO
thread hands frames to the render context and calls the update callback, which
posts `OnGetFrame`; the main thread renders and swaps buffers, and the browser's
compositor completes the swap by posting `PaintFinished`. The decoder offers
each frame to the detection singleton; its worker calls back into the decoder's
demuxer, which feeds the boxes to the subtitle decoder as captions. Settings
travel between the main process and every page over IPC.

### What is hard

Four native threads (decoder, detection worker, VO, core) and mpv's pool of
workers meet the main thread under six different locks, with four places where
a thread waits for another while it holds something or is waited for: `push`
joins the old worker under `mtx_`, a cancel waits for a node's spin lock under
`mtx_`, `Render` blocks the main thread until the VO has presented, and every
synchronous call of the client API waits until the core lets itself be trapped
in its dispatch queue, at the end of its life too. Tasks are coalesced by flags (`is_painting_`,
`needs_paint_`, `need_wakeup`) whose tests and resets are in different
critical sections. Cancels, timeouts and destruction race with callbacks.
`PROJECT.json` lists each hazard at its line with the properties that guard it.

### What makes each component correct

* Detection: an accepted frame is called back exactly once, its picture and its
  context are freed once (its boxes are not always: section 6), nothing is called
  after a cancel, a list that is not
  empty has a worker, and no thread waits for itself.
* Painting: one swap at a time, the last frame and the last size reach the
  screen, the main thread never waits for a presentation nobody owes, and a
  compositor that stops stalls neither playback nor destruction.
* Events: accepted requests are answered once and always have a slot, losses
  are reported in order, no wakeup is lost, the page's copy of a property
  converges, and a hook comes after the changes that preceded it; a property that
  the rendering thread changes is the exception (finding 4).
* Dispatch queue and shutdown: at most one thread uses the core's state, nobody
  sleeps on what has happened, who asks for the core gets it, the destruction
  returns, and what it frees is used by nobody.
* Page player: a reply settles the call it belongs to and no other, every call
  settles, what somebody listens to is forwarded, a run of the hook is
  continued exactly once.
* Settings: pages agree with the main process once the messages are drained,
  an edit that does not race lasts, the file is written by one write at a time,
  and saves caused by broadcasts die out.

## 2. Modules

### DetectionService (with DetectionContract, DetectionInvariant, DetectionServiceProofs, DetectionContractProofs)

A job is the n-th frame of one client. A client is a decoder (`Decoders`) or a
user of the C++ wrapper (`ApiUsers`); it has a decoding thread (`pc`) and an
owner that destroys it (`own`), one thread unless the client is in
`DecThreads` (mpv's `vd-queue-enable`, off by default,
`f_decoder_wrapper.c:84`).

| State | Code |
|---|---|
| `queue`, `worker`, `cur` | `queue_`, `th_` and the place of `popAndExecute`/`executor`, its reference `t` |
| `net`, `boxes`, `lostBoxes` | `net_`/`disabled_`, `dets`, arrays nobody freed |
| `pc`, `sent`, `ret` | `queueTask` of the decoding thread and its result |
| `detectId`, `sid`, `idSeed` | `p->detect_id`, `TaskNode::serviceId`, `idSeed_` |
| `own`, `cursor` | `public_f_destroy` (`waiting` for `mtx_`, then `cancelling`), the walk of `SafeTaskQueue::cancel` |
| `frame`, `cb`, `answer`, `ctxFrees` | the cloned picture, `callback` not null, the calls made, the frees of the context |
| `main` | the static destructor |

Actions are the code's critical sections: `PushCheck` (pushCheck under `mtx_`),
`CloneFrame` (outside it, which may fail), `Push`/`PushFull`/`PushJoin`,
`Fetch`, `Claim`, `Prepare` (under `access`), `Infer`, `Deliver` (which takes
`access` again), `Callback` (which gives it up), `Relock`, `CancelCall` (the client
is destroyed and waits for `mtx_`), `CancelBegin/Skip/Node/End`, `Destroyed`,
`ExitClear`, `ExitJoin`. `mtx_` is held across actions by a joining push and a
walking cancel, `access` by the worker while it prepares a picture and while it is
in the client's callback; so they are predicates (`MtxFree`, `AccessFree`). An
answer is a call of the C callback: on an error, `on_detections_wrapper`
(`detection-service.cc:253-257`) frees its context and calls no C++ user. `TouchFreedNode` is
the worker at a node that `clear` destroyed: undefined behaviour, modelled as a
stop or as going on as if the node were null.

`DetectionContract` is the service without threads, locks or a list: a frame is
asked for, then refused or pending, at most `Limit` are pending, no pending one
is answered twice, and a client leaves only when none of its frames is pending, so
no answer reaches a client that is gone. A client in `DecThreads` is promised less:
its decoding thread may queue one more frame after its owner's cancel, and that
frame may be pending, and be answered, when the owner is gone. The refinement maps
a job's flags to one of five phases (`PhaseOf`).

### PaintLoop (with PaintLoopProofs)

VO thread (`vo`), main thread (`main`, `tasks`) and compositor (`swaps`). A frame
is a number in drawing order. `Render` is the part of
`mpv_render_context_render` before its wait, `OnGetFrame`, `PaintFinished`,
`SwapBuffers`, `DidChangeView`, `Destroy`, `ContextFreed`, `InstanceGone` are the
main thread's; `Preinit`, `DrawFrame`, `Update`, `FlipPresented`, `FlipTimeout`,
`Reconfig`, `Uninit` the VO's; `SwapDone` is the browser's (external). The plugin
never calls `mpv_render_context_report_swap`, so `flip_count` is always 0 and
`flip_page` does not wait for it; `advanced_control` is off; a failing
`get_target_size` is not modelled.

### EventPump (with EventPumpProofs)

Core thread and main thread over one client handle. The ring holds pairs of a
kind and a number; a property has a value (one bit) and the four stamps of
`observe_property`. Core: `Broadcast`, `RunHook`, `Reply`, `Change`, `SendBegin`,
`SendProp`. Main: `PumpBegin`, then `mpv_wait_event` as `PumpOverflow`, `PumpRing`,
`PumpProp`, `PumpEmpty`, `PumpAgain`, and `PumpEnd`, which posts `mpv-idle`; between
two drains `Request` and `ContinueHook` (`HandleMessage`) and `Resize`. One step is
one critical section of `ctx->lock`, and `send_client_property_changes` is several:
it drops the lock while a property is read, which is the state `visiting`, with the
value that was read in `fetched`; `SendProp` compares and stamps it under the lock
again.

Two threads change properties. The core's changes (`Change`, and the marks that
`send_event` makes for a broadcast even if it then drops the event,
`notify_property_events`) come from the core thread or with the core locked, so
not while it is visiting (`CoreChanges`). The rendering runs on the main thread
without the core: `check_obj_resize` (`mpv/sub/osd.c`) sets the new size and
broadcasts `MP_EVENT_WIN_RESIZE`, which raises `change_ts` of `osd-dimensions` at
any moment (`Resize`). `Rendered` is the set of such properties. `readAt` and
`knownAt` are history: the `change_ts` at which the value in `observe_property`,
and the one last returned, was really read, which the stamps only claim to say.
What the page does not register is dropped by `DispatchEvent` (`Registered`).
Requests that are refused, properties that are unavailable and a second handler of
one hook are not modelled.

### SettingsSync (with SettingsSyncProofs)

The main process (`object`, `pendingSaving`), the file and the writes in progress
(`file`, `writes`), and one store per page (`view`) with a first-in first-out
channel in each direction (`toMain`, `toPage`). `OpenPage` is the synchronous
`get-settings-sync`; `ShowControls`/`HideControls` mount the components whose
watchers save; `Edit` is a control of a page with its method's save and the
watchers; `Receive` is `update-settings` with the watchers; `SaveSettings` is the
main process's handler with the broadcast and `addToSaveQueue`; `ThemeUpdated`,
`WriteEnds` (a write that fails may have truncated the file) and `Restart` (which
may leave a torn file) are the
rest. One setting stands for each way to save (`syncType`: watched by the
settings page; `screenshotWithAI`: watched by the player's dialog;
`hotDetection`: saved by the method that changes it; `screenshotFormat`: bound
to a control, never saved). Pages are not closed while the application runs; the
theme and the locale that `update` fills in are not settings of the model.
`edits`, `wanted`, `raced` and `missed` are history: what the user asked for, and
whether something crossed on the way or the file missed a change.

### Dispatch (with DispatchProofs)

`misc/dispatch.c`: how other threads get at the state of the core, by having an
item run on the core's thread (`mp_dispatch_run`, `mp_dispatch_enqueue`) or by
trapping that thread inside `mp_dispatch_queue_process` and holding the dispatch
lock (`mp_dispatch_lock`). One action is one critical section of `queue->lock`;
the core keeps that mutex from one round of its loop to the next (`core = "loop"`)
and gives it up only to wait (`trapped`, `idle`) or to run an item. The one
condition variable is the set `asleep`; a broadcast empties it, and a thread that
wakes tests its condition again. `Threads` and `Core` are constants; nothing in
the module is bounded. It models the core's queue, which has neither `wakeup_fn`
nor `onlock_fn` (`main.c` never sets them; the render context's queue has the one,
the decoder thread's the other).

### CoreShutdown (with CoreShutdownProofs)

Extends `Dispatch` with the lives of the threads: the plugin's main thread
(`page`), the workers of the pool (`worker`), and the core thread (`phase`). The
build has neither Lua nor JavaScript scripts, so the plugin is the only client and
`num_clients` is the flag `registered`. The page calls `run_async` (`Request`),
any function under `lock_core` (`LockedCall`), `mpv_hook_continue`
(`ContinuesHook`), and at any moment begins `mpv_terminate_destroy`: `QuitBegins`,
`QuitRuns`, `QuitEnds`, `Leave` (after `mpv_wait_async_requests`), `StopBegins`,
`StopRuns`, `AskThread` (`mp_dispatch_run`), `Signal`, `WakeCore`, `Destroyed`
(the join and `mp_destroy`). The core processes its queue while it plays, inside
`process_hooks` until the hook is done, and in `mp_shutdown_clients` until nothing
is outstanding. A request is answered by its item or by the worker it starts;
commands of key bindings start workers that owe no reply (`OwnCommand`, `owes`).
Besides the destruction, a key (`OwnQuit`) or a request (`ItemQuits`) may quit, so
that the core waits in `mp_shutdown_clients` while the page is still live. A worker that takes a
screenshot gives the core back while it writes. `Wakeups` and `OptionChanges` are
everybody else. `reserved` stands for `reserved_events`; what is played is left out.

`mp_destroy_client` also wakes the core when the client has left the list; in
this model that wakeup is not what makes the destruction return, because the lock
and the item that follow wake the core as well.

### PlayerCalls (with PlayerCallsProofs)

The page's player object and the plugin's `HandleMessage` and `DispatchEvent`,
over the two first-in first-out message channels between them (`toPlugin`,
`toPage`). The page: `Call` (`command`, `property`, `get_property_async`), its
timer (`TimerFires`), `On`/`Off` (`register_event`, `off`),
`Observe`/`Unobserve`, and what it does with a message (`GotChange`, `GotReply`,
`GotHook`, `GotEvent`). `Cont` is the function that the handler of the hook was
given, which the answer to the credentials dialog calls at any later time;
`HandlerSettles` is the promise of the handler, after which the page continues
the hook itself. The plugin: `Accepted`/`Refused`, `Observes`, `Unobserves` (the
id it is sent is a string, which `AsInt` reads as 0: `KeyAsInt`), `RequestsEvent`,
`AddsHook`, `ContinuesHook`. mpv is reduced to what `EventPump` and `CoreShutdown`
let it do: finish requests in any order or never, refuse them, notify of changes,
run the hook. A request keeps the call it belongs to (`of`) beside the id that
the code uses, so that `OwnAnswer` can tell whose reply it was. The model begins
when the constructor has posted its messages (`Constructed`). One event of the
page's choice stands for all that a page listens to, and one property for those
it observes.

In every module, operators named after what they do wrong
(`FetchPops`, `RenderKeepsCurrent`, `RoomBesidesReplies`, `UnlockQuietly`, ...) are variants of
the definition that follows them. No specification uses them: substituted for
that definition they show that a property notices the mistake.

## 3. What the runs check

| Run | Instance | Shows |
|---|---|---|
| `detection_core` | two decoders, one with its own thread, and a user of the C++ wrapper, list of 1 (the code's), 1 frame each; 974 883 states | `AnsweredExactlyOnce`, `NoCallbackAfterCancel`, `JoinCannotDeadlock`, `FreedOnceButForBoxes` (pictures and contexts are freed once, boxes lost on one path), refinement of `DetectionContract`, and no deadlock |
| `detection_mixed` | two decoders (which share id 0), list of 2, 2 frames each, fair threads; 532 423 states | `WorkerCoversQueue`, `FedInOrder`, `EveryJobAnswered`, `ShutdownReturns` (with the waits for `mtx_` and for another decoder's callback) |
| `detection_shared_id` | two decoders | violated: ids do not identify users (finding 1) |
| `detection_clear` | two decoders | violated: the node in use exists (finding 2) |
| `paint` | 3 frames, 2 view changes, 1 reconfiguration, fair threads; 86 000 states | `OneSwapAtATime`, `NoFrameStranded` (nor a size), `WaitIsOwed`, `SlotFree`, `NeverBackwards`; `NobodyStalls` whatever the compositor does; `LastFrameShown` if it answers |
| `pump_ring` | ring of 2, 4 broadcasts that may mark the property, 2 requests; 3 637 923 states | `RepliesKept`, `LossIsReported`, `NoLostWakeup` through overflow, recovery and a second overflow |
| `pump_page` | a property of the core and one of the rendering, 2 changes each, a hook, `mpv-idle` registered, fair threads; 1 165 357 states | `HookSeesProperties`, `PageConverges`, `BurstsEnd` |
| `pump_resize` | one property of the rendering | violated: a value stamped as current is current (finding 4) |
| `settings_sync` | one settings page, one player page, 2 edits, 1 theme change, 1 restart, 2 messages a channel; 769 352 states | `FileCurrent` (one write at a time), `PagesAgree`, `EditsKept`, `EchoesEnd` |
| `core_shutdown` | the page, 1 worker, 2 calls, 1 change of an option, a quit by key or request and the destruction at any moment, fair threads; 161 343 states | `Exclusive`, `NobodySleepsOn`, `QueueUnusedAtEnd`, `CallsReturn`, and no deadlock |
| `player_calls` | 2 listeners and any 3 calls, listeners, observers, changes, hooks or events; 390 669 states | `OwnAnswer`, `ListenersServed`, `HookContinuedOnce`, `CallsSettle` |
| `player_initial` | the constructor's messages alone | violated: the initial notification is seen (finding 3) |

Why the bounds are enough. Detection: the code's list holds one node, so three
clients with a frame each meet every pair of (push, push), (push, cancel), (cancel,
cancel), (cancel, worker) and (exit, worker), and a worker is replaced while the old
one ends; the list of two, with two frames a client, adds a worker that goes on with
a second node and a cancel that meets the frames of both decoders. Painting:
one frame drawn, one dropped, one redraw and one after them, with a resize during
a swap and one during a wait; the flags hold one bit each, so a third request of
a kind changes nothing. Events: a ring of two is full with one reservation and one
event and with two events; four broadcasts let it overflow, drain and overflow
again; of the two properties one is the core's and one the rendering's, and the
round robin has a first and a second round. Two
values per property are enough to change and to change back, which is when an
event is suppressed. Settings: the two pages watch
different settings, so one echoes what the other broadcasts; two edits race on one
page, on both, and across a restart. A channel of two holds a save and the echo
that follows it; where a third message would be needed the behaviour stops
(`Stopped`), and it is then one of those in which something raced.
`pendingSaving` is counted up to 2 because the code only asks whether it is 0.
Shutdown: two calls of the page are a request with a worker and one without, or a
request and a call that meets the core in a hook; the worker runs what the page or
what nobody waits for, more than once; the proofs cover any number of workers, and
with it two that end one before the other; the option's change is mergeable, so one is as good as many. Wakeups, timeouts and the core's rounds are
not bounded. The page's calls must be, for the promise of `CallsReturn`: the
dispatch lock is not fair, and a thread that came back for it for ever could
overtake one that waits. Calls: three steps let a reply come after the timer
of its call while another call is under way, two listeners come and one go, and a
run of the hook begin while the answer to the one before is still
missing.

`EditsKept` and `EchoesEnd` say what the protocol gives and what it does not. A
page saves its whole copy, so a copy that is out of date takes another page's
edit back; a broadcast that crosses an edit does the same; and two values of one
watched setting under way at once can echo for ever. `raced` marks these
histories, and the two properties hold in all others: they say nothing about whose
edit survives a crossing, nor that its echoes end. What holds across crossings is
`PagesAgree`. `FileCurrent` likewise: a
change that arrives during a write is broadcast but not written until another
change comes (`settings.js:119`), which `missed` records.

### Findings

1. `detection-service.cc:64` calls the id "a global id to identify user", but a
   decoder's `detect_id` starts as the 0 of its zeroed memory and an id is
   allocated only for a negative one (line 199). All decoders share id 0, and
   destroying one answers the others' frames with an error
   (`detection_shared_id`; with the code's list of one, the frame that happens to be
   in it).
2. `safe-task-queue.hpp:93` expects the list to be cleared while the executor
   runs, but the executor keeps a reference into the list and locks and reads the
   node afterwards (`detection_clear`). The window is process exit.

3. `client.h:1231` promises an initial notification of an observed property,
   "to initialize the user's state". The page posts its observations
   (`player.js:100`) before it registers `property-change` (`player.js:104`);
   a drain of mpv's events may run between the two messages, and `DispatchEvent`
   drops what is not registered (`nacl-pepper.cc:449`). The page then keeps its
   default for that property until the value changes again (`player_initial`).

4. `client.c:1792` reads `value_ts == change_ts` as "not a stale value". But
   `send_client_property_changes` reads a property with the lock dropped
   (1689-1691) and stamps the value with `change_ts` as it is afterwards (1737).
   The rendering raises that stamp from the main thread: `mpv/sub/osd.c:254-262`,
   `client.c:803`, 751-752 and 1644-1657. A size that was read before a resize then
   counts as the size after it, and the page, which observes `osd-dimensions`
   (`player.js:85`), keeps the old one until the next change (`pump_resize`).

## 4. Fairness

* `DetectionService!Fairness`: a running worker, a thread inside `queueTask`, a
  destruction that has been called and the static destructor take their next step:
  plain thread scheduling. Offering a frame and destroying a client are choices, not
  fair. A thread that waits for `mtx_` gets it when it stays free; it need not win
  against one that takes it again and again, because clients offer a bounded number
  of frames and each holder lets go.
* `PaintLoop!ThreadFairness`: posted tasks run, the VO thread runs, a wait with
  a timeout ends, and a video that was told to stop does. The compositor owes
  nothing; only `LastFrameShown` assumes `CompositorAnswers`, inside the property.
* `EventPump!Fairness`: both threads run, the core completes the requests it
  accepted, the page continues its hooks (`player.js` continues them in every
  path of its handler).

* `SettingsSync!Spec`: a message that was sent is delivered and handled, in both
  directions. Edits, theme changes, the end of a write and a restart are not fair.
* `CoreShutdown!Fairness`: every thread is scheduled and the playloop comes back
  to its queue. The page's and the workers' steps are strongly fair: the mutex is
  taken and given back by the core again and again, a thread waiting for it is
  enabled infinitely often though not always, and a mutex of the platform lets
  it in eventually. `StopsPlaying` is strongly fair because the playloop looks at
  `stop_play` in each round. The wait for a timeout is not fair; a playloop that has
  been stopped does not wait with a timeout unless another thread will wake it
  (`Play`). Calls, quits, wakeups and changes of options are nobody's duty.
* `PlayerCalls!Fairness`: messages are delivered and handled in both directions,
  a timer fires unless it is cleared, the promise of the hook's handler settles
  (the only handler of the repository opens a dialog and returns). mpv's replies and
  the user's answer are not assumed.

## 5. What is proved

Every safety property that a run checks is also a theorem about the
specification, for every value of the constants, and so are the action properties
and both refinements. Each proof module has the same layout: lemmas about the
sequences and sets the model is built from, the inductive invariant, one lemma
for each of its parts with one step for each action, the invariance theorem, and
the properties, each a few lines away from the invariant. TLC checked each
invariant on the instances of section 3 before it was proved.

### DetectionService

`DetectionServiceProofs` and `DetectionContractProofs` prove, for any sets of
clients, any bound of the list and any number of frames, under `ClientsAssumption`
(the two kinds of clients are disjoint, only decoders have decoding threads) and
`LimitAssumption`:

| Theorem | Says |
|---|---|
| `TypeCorrect` | the type invariant |
| `PushNeverDeadlocks` | a push that joins under `mtx_` joins a worker that needs `mtx_` no more |
| `CancelIsFinal` | no callback is left once a cancel has returned to a client that decodes on the same thread |
| `ExactlyOnce` | an accepted frame is called back exactly once before its node leaves the list |
| `NoLostWakeup` | a list that is not empty has a worker whenever `mtx_` is free |
| `FreedOnce` | picture and context are freed once on every path and a freed picture is never scaled; boxes are lost only where a cancel answered while the network ran |
| `ResultsInOrder` | results reach a client in the order of its frames |
| `Refinement` | the threads, the locks and the list implement `DetectionContract` |

The first five follow from one inductive invariant, `IInv` of `DetectionInvariant`:

* `LockInv`: `mtx_` has one holder among the joining push and the walking cancels;
  without it two of them could change the list under each other.
* `SubmitInv`: a client inside `queueTask` works on its last frame and is not
  gone; this is where the single thread of an ordinary decoder matters.
* `WorkerInv`: until exit, the worker executes the head of the list, a list
  without worker is empty, and a joining push has the only node. It carries
  `NoLostWakeup` and `PushNeverDeadlocks`: the worker pops the last node in the
  critical section after which it needs `mtx_` no more.
* `JobInv`: callback, answers, result and membership in the list agree for
  every job.
* `IdInv`: a node carries the id its client cancels with; without it a cancel
  could pass its own node.
* `CancelInv`: nodes behind a cancel's cursor are settled.

The last three need a second invariant, `Books`, which is inductive together with
`IInv`:

* `Pictures`: a job with a callback has its clone, except the one the network
  runs for; a job that is settled or not yet offered has none. That the clone of
  the job in `Prepare` is held is then the callback that `WorkerInv` gives it.
* `Boxes`: while the network runs, only a cancel takes the callback away, so the
  array that `Deliver` loses belongs to a job that was answered with an error.
* `Through`: `queueTask` has come to an end for every frame but a client's last;
  it orders the pushes of one client.
* `Ordered`: in front of each node of the list, and of the worker, the earlier
  frames of the same client are settled or in the list before it.

`Refinement` needs no hypothesis beyond the two assumptions: clients with a
decoding thread are covered, and the contract says what they are not promised.
Each step is mapped: `PushCheck` to `Ask` or `Refuse`, a failing `CloneFrame`
and `PushFull` to `Refuse`, `Push` to `Accept` (at most `Limit` are pending
because each pending job has a node of the list: `PendingFits`), `Prepare`,
`Deliver` and `CancelNode` to `Answer` when they call (the client is not gone
because of `CancelInv`, unless it is in `DecThreads`), `Destroyed` to `Leave`
(nothing is asked for because of `Through`), and all others to stutters.

### PaintLoop

`PaintLoopProofs`, for any number of frames, view changes and reconfigurations:

| Theorem | Says |
|---|---|
| `TypeCorrect` | the type invariant |
| `SwapsOneByOne` | `OneSwapAtATime` |
| `NothingStranded` | `NoFrameStranded`: a frame the VO waits with, or a size, will be reached by a task, a note or a paint |
| `WaitsAreOwed` | `WaitIsOwed`: the main thread waits for a presentation that `flip_page` owes |
| `SlotIsFree` | `SlotFree`: the assertion of `draw_frame` |
| `PicturesInOrder` | `NeverBackwards`: no step shows an older picture |

The properties lean on each other, so the invariant has them all and three more
parts. `OnePaint`: `is_painting_` is one paint in one of three stages (waiting,
swapping, finished and posted). `Reached`: a frame
of a waiting VO has a task or `needs_paint_`, and `needs_paint_` implies
`is_painting_`, so that `PaintFinished` will look at it. `InOrder`: whatever
anybody holds was drawn, and neither the next nor the current frame is older
than the one on the screen.

### EventPump

`EventPumpProofs`, for any size of the ring, any number of properties, changes,
events, requests and hooks, whichever properties the rendering changes and whatever
the page has registered (`RingAssumption`: the ring has a slot; `BoundsAssumption`;
`RenderedAssumption`; `RegisteredAssumption`):

| Theorem | Says |
|---|---|
| `TypeCorrect` | the type invariant |
| `RequestsAreAnsweredOnce` | `RepliesKept`: an accepted request is answered once, through every overflow |
| `LossesAreReported` | `LossIsReported`: the overflow event precedes anything younger than what was lost |
| `WakeupsAreKept` | `NoLostWakeup` |
| `HooksComeAfterProperties` | `HookSeesProperties`: when a hook reaches the page, the value it was last sent of each property was read after the changes that preceded the hook; of all properties but the rendering's |
| `PageHasWhatWasReturned` | `PageHasValues`: a property whose last change counts as returned has the core's value on the page; of all properties but the rendering's |

* `Slots` counts: `reserved_events` is the number of requests with the core, and
  the ring has that many slots free. `Answered` says where each request is.
* `Losses`: a loss that was not reported is younger than all that is in the ring,
  because a choked client gets nothing new.
* `Stamped`, `Marked`: the stamps of a property are ordered, and a hook that was
  marked waits for every property that had changed when it was sent; for the
  others the page already has the change.
* `Fresh` ties the stamps to what was really read: a value as young as the last
  change is the core's value, the page has what was last returned, and a stamp that
  the rendering does not raise is the moment of the read. For a property of the
  rendering the last part fails, which is finding 4. `PageHasWhatWasReturned` follows
  from it: comparing, coalescing and skipping lose no change of the core's.
* `Woken` was the hard part. `NoLostWakeup` speaks of the moments when the core is
  not sending properties, so the invariant must say what happens while it is
  (`visiting`):
  what is deliverable without a task is covered by `new_property_events`, which
  wakes the client at the end of the round; and a hook that a read makes
  deliverable (because it found nothing new) is not one that the pump has still
  to mark, since such a hook has its task.

That the round robin of `gen_property_change_event` finds a property whenever one
is ready (`LeastExists`) is the well-foundedness of the naturals.

### SettingsSync

`SettingsSyncProofs`, for any pages of both kinds, any number of edits, theme
changes and restarts, and any bound of the channels (`PagesAssumption`: a page is of
one kind; `BoundsAssumption`):

| Theorem | Says |
|---|---|
| `TypeCorrect` | the type invariant |
| `FileIsCurrent` | `FileCurrent`: one write at a time, and the file has the object unless `missed` |
| `AllPagesAgree` | `PagesAgree`: with nothing on the way every page has the object |
| `EditsAreKept` | `EditsKept`: edits that did not overlap last |

`PagesAgree` speaks of quiet moments only. What leads there is `Agree`: the
youngest message to a page is the object, and a page without a message that
differs from the object has sent a save itself. `Kept` is the same idea for what
the user asked for: as long as nothing overlapped, every message in either
direction is the wanted one. `FileKept` adds what a write in progress contains, and
`Closed` that a page that is not there has nothing on the way.

### PlayerCalls

`PlayerCallsProofs`, for any set of listeners and any number of steps
(`BoundAssumption`):

| Theorem | Says |
|---|---|
| `TypeCorrect` | the type invariant |
| `SettledByItsOwn` | `OwnAnswer`: a call is settled by its own reply or its own timer |
| `ListenersAreServed` | `ListenersServed`: the plugin forwards the event exactly if somebody listens |
| `HooksContinuedOnce` | `HookContinuedOnce`: no run of the hook is continued twice or for another |

All three are about messages under way. `Shape` says what each channel may hold:
ids are dealt one by one, so a call and its reply carry the call's own id.
`OwnPromise`: an id holds the promise of its own call or none. `Heard`: the last word
about the event in the channel agrees with the page's table. `OneRun`: an active
hook is announced, in the hands of a handler that has not continued it, or being
continued, and in one of these places only.

### Dispatch and CoreShutdown

`DispatchProofs` and `CoreShutdownProofs` prove, for any finite set of workers,
any number of calls and of changes of options, under `CoreAssumption` (the target
thread is not among those that send to it), `ThreadsFinite` (there are finitely
many threads, and the mark for "nobody" is none of them), `ThreadsAssumption` (the
threads are the page and the workers) and `BoundsAssumption` (the bounds are
numbers):

| Theorem | Says |
|---|---|
| `QueueCorrect` | the dispatch queue alone, whatever its threads do with it, keeps its types, `Exclusive` and `NobodySleepsOn` |
| `UsesTheQueue` | `CoreShutdown` implements `Dispatch`: page, workers and core use the queue only as it allows |
| `TypeCorrect` | the type invariant; `outstanding_async` and `reserved_events` never go below 0 |
| `CoreExclusive` | of the playloop, a running item and the holders of the lock at most one is active, through the core's whole life |
| `NoWakeupLost` | nobody sleeps on the queue's condition variable although what it waits for is true |
| `FreedUnused` | requests are answered before their client is forgotten, the core thread ends only when no worker runs, and the queue is freed empty and unused |

Only the bounds `MaxCalls` and `MaxNotes` stand between the model and a page that
calls for ever, and they are arbitrary in the proofs.

The invariant has a part for each thing that is counted or handed over:

* `LockInv`: `lock_requests` counts the threads that wait for the lock or have it,
  one of them is recorded as its holder, and meanwhile the core is inside
  `mp_dispatch_queue_process` and not on an item. The core leaves the loop only
  when the count is 0; that is why nobody can hold the lock while it plays.
* `NobodySleepsOn` needs no strengthening beyond `LockInv`: each step that makes
  somebody's condition true broadcasts, and the one that does not
  (`ProcessBegins` without requests) finds nobody asleep for it.
* `ItemsInv`: an item that a thread waits for is in the queue or running, once,
  while that thread waits; at most one item is mergeable. So when no thread waits
  no such item is left, and the one cancel of `mp_destroy` is enough.
* `PageInv`, `WorkersInv`: what the page and each worker do with the queue in each
  step of theirs; `outstanding_async` counts the workers that run a command.
* `RequestsInv`: `reserved_events` is the number of request items in the queue,
  plus the one that runs unanswered, plus the workers that owe a reply. This is
  what makes `reserved = 0` mean that nobody will answer a client any more.
* `EndInv`: when the core thread has ended, the client is gone, nothing is
  outstanding and the page has its last `mp_dispatch_run` behind it; with the
  other parts, nobody is left who could send (`EverybodyIsDone`).

### What is only model-checked

The liveness properties: `EveryJobAnswered`, `ShutdownReturns`, `NobodyStalls`,
`LastFrameShown`, `PageConverges`, `BurstsEnd`, `EchoesEnd`, `CallsReturn` and
`CallsSettle`. They rest on fairness, and with it on ENABLED, which the installed
provers do not handle.

## 6. Not modelled

The components marked `not_modelled` in `PROJECT.json`, with the reason of each.
In short: floating-point kernels are out of TLC's reach; layout, logging and
formatting have no state; the views, the context menu and the boxes on the screen
belong to one thread each; the vendored mpv is third-party code that appears only
where the plugin's threads meet it.

Left out of the modelled components: `load_async` of the page player, which no
page calls, and the `defer` of a hook, which its only handler does not use; a
second client, scripts and `abort_async` of the core; the queues with a
`wakeup_fn` or an `onlock_fn`; what the core plays; the reverse queue, segments
and cover art of the decoder wrapper; screenshots, equalizer and hardware decoding
of the render context; a task of the render context's update callback that arrives
when its instance is gone; closing a page.

Known mistakes that no property is about, because nothing in the repository says
otherwise or nothing uses the code: when a cancel answers a job while the network
runs, the executor returns without freeing the boxes
(`detection-service.cc:138-143`), which `FreedOnceButForBoxes` allows there and
nowhere else; a user of the C++ wrapper is not called at all on an error
(`detection-service.cc:253-257`); the C++ wrapper's `opaque_wrapper` leaks when
`queueTask` fails (`detection-service.cc:263`); `load_async` calls its
`unregister` without `this` (`player.js:552`); `unobserve_property` reads a string
id as a number, so it takes off every default observer (`nacl-pepper.cc:375`,
modelled as `KeyAsInt`, but no page calls it); a property that becomes unavailable
keeps its last value on the page (`player.js:105`, modelled in `GotChange`); a
view leaves the map while `selectedId` may still name it (`views.js:154`); the
screenshot format is bound to a control that nobody saves; the loop that ends
older boxes leaves out the last event of the track (`sd_ass.c:333`).

## 7. Plan

Every safety property that holds and both refinements are proved. What could
follow:

1. Abstract specifications for the others, such as one register of settings that
   `SettingsSync` implements as long as nothing overlaps.
2. If the models grow once more: the decoder thread's own queue with its
   `onlock_fn`, and the boxes of `sd_ass.c` as operators against their definition.
