------------------------------ MODULE PaintLoop ------------------------------
(***************************************************************************)
(* How a video frame reaches the screen.  Three parties share no lock that *)
(* any of them holds while it waits for another:                           *)
(*                                                                         *)
(*   - the VO thread of mpv (draw_frame, flip_page, reconfig, uninit of    *)
(*     vo_libmpv.c), which hands one frame at a time to the render context *)
(*     and gives the plugin 0.2 s to take it;                              *)
(*   - the plugin's main thread (MPVInstance), which runs posted tasks in  *)
(*     order, renders, and blocks in mpv_render_context_render until the   *)
(*     VO has reached the frame's presentation time;                       *)
(*   - the browser's compositor, which completes a buffer swap when it     *)
(*     likes and delivers view changes.                                    *)
(*                                                                         *)
(* Frames are numbered in the order they are drawn; 0 is "no frame".       *)
(* ctx->flip_count is absent: the plugin never reports a swap, so it stays *)
(* 0 and flip_page skips the wait for it.                                  *)
(***************************************************************************)
EXTENDS Integers, Sequences

CONSTANTS MaxFrames,   \* bound: frames the VO draws
          MaxResizes,  \* bound: view changes
          MaxConfigs   \* bound: reconfigurations and restarts of the VO

ASSUME BoundsAssumption ==
  MaxFrames \in Nat /\ MaxResizes \in Nat /\ MaxConfigs \in Nat

Frames == 0..MaxFrames
MainPcs == {"idle", "wait", "freeing", "freed", "gone"}
VoPcs == {"absent", "idle", "update", "flip"}
Tasks == {"OnGetFrame", "PaintFinished"}

VARIABLES
  tasks,        \* what CallOnMainThread and swaps have posted, oldest first
  main,         \* where the main thread is
  isPainting,   \* is_painting_
  needsPaint,   \* needs_paint_
  size,         \* width_, height_: which view change they come from
  paintedSize,  \* the size the last Render used
  shown,        \* the frame the last Render drew
  waitPresent,  \* wait_present_count of the Render that main is inside
  swaps,        \* buffer swaps the compositor has not completed
  vo,           \* where the VO thread is; ctx->in_use is vo # "absent"
  visible,      \* the render context can be acquired
  next,         \* ctx->next_frame
  redraw,       \* the last frame drawn was a redraw, or had no picture
  cur,          \* ctx->cur_frame
  presentCount, \* ctx->present_count
  drawn,        \* frames drawn so far
  configs       \* reconfigurations and restarts so far

paintVars == <<isPainting, needsPaint, size, paintedSize, shown, waitPresent>>
frameVars == <<next, redraw, cur, presentCount>>
vars == <<tasks, main, paintVars, swaps, vo, visible, frameVars, drawn, configs>>

TypeOK ==
  /\ tasks \in Seq(Tasks)
  /\ main \in MainPcs
  /\ isPainting \in BOOLEAN /\ needsPaint \in BOOLEAN
  /\ size \in 0..MaxResizes /\ paintedSize \in 0..MaxResizes
  /\ shown \in Frames /\ next \in Frames /\ cur \in Frames /\ drawn \in Frames
  /\ waitPresent \in Nat /\ presentCount \in Nat
  /\ swaps \in Nat
  /\ vo \in VoPcs
  /\ visible \in BOOLEAN /\ redraw \in BOOLEAN
  /\ configs \in 0..MaxConfigs

(* After MPVInstance::Init: setting the update callback has called it.     *)
Init ==
  /\ tasks = <<"OnGetFrame">>
  /\ main = "idle"
  /\ isPainting = FALSE /\ needsPaint = FALSE
  /\ size = 0 /\ paintedSize = 0
  /\ shown = 0 /\ waitPresent = 0
  /\ swaps = 0
  /\ vo = "absent" /\ visible = TRUE
  /\ next = 0 /\ redraw = FALSE /\ cur = 0 /\ presentCount = 0
  /\ drawn = 0 /\ configs = 0

-----------------------------------------------------------------------------
(* The main thread.  A task runs to its end, except that Render blocks.    *)

(* Operators named after what they do wrong, here and below, are variants  *)
(* of the operator that follows them; no specification uses them.          *)
CountForEveryRender == presentCount + 1

(* The count Render waits for: one more if it takes a frame that is not a  *)
(* redraw.                                                                 *)
CountToWaitFor == IF next # 0 /\ ~redraw THEN presentCount + 1 ELSE presentCount

RenderKeepsCurrent ==
  /\ main' = "wait"
  /\ waitPresent' = CountToWaitFor
  /\ shown' = IF next # 0 THEN next ELSE cur
  /\ next' = 0
  /\ UNCHANGED <<redraw, cur, presentCount>>

(* mpv_render_context_render up to its wait: the waiting frame becomes the *)
(* current one, or the current one is drawn again.                         *)
Render ==
  /\ main' = "wait"
  /\ waitPresent' = CountToWaitFor
  /\ cur' = IF next # 0 THEN next ELSE cur
  /\ shown' = cur'
  /\ next' = 0
  /\ UNCHANGED <<redraw, presentCount>>

GetFrameOverSwap(s) ==
  /\ isPainting' = TRUE /\ needsPaint' = FALSE /\ paintedSize' = s
  /\ Render

(* MPVInstance::OnGetFrame, for a view of size s.                          *)
GetFrame(s) ==
  IF isPainting
  THEN /\ needsPaint' = TRUE
       /\ UNCHANGED <<main, isPainting, paintedSize, waitPresent, shown, frameVars>>
  ELSE /\ isPainting' = TRUE /\ needsPaint' = FALSE /\ paintedSize' = s
       /\ Render

NextTaskIs(t) == main = "idle" /\ tasks # <<>> /\ Head(tasks) = t

OnGetFrame ==
  /\ NextTaskIs("OnGetFrame")
  /\ tasks' = Tail(tasks)
  /\ GetFrame(size)
  /\ UNCHANGED <<size, swaps, vo, visible, drawn, configs>>

PaintFinishedForgets ==
  /\ NextTaskIs("PaintFinished")
  /\ tasks' = Tail(tasks)
  /\ isPainting' = FALSE
  /\ UNCHANGED <<main, needsPaint, paintedSize, waitPresent, shown, frameVars>>
  /\ UNCHANGED <<size, swaps, vo, visible, drawn, configs>>

(* PaintFinished: is_painting_ is cleared and, if a paint was asked for in *)
(* the meantime, OnGetFrame is called at once.                             *)
PaintFinished ==
  /\ NextTaskIs("PaintFinished")
  /\ tasks' = Tail(tasks)
  /\ \/ /\ needsPaint
        /\ needsPaint' = FALSE /\ paintedSize' = size
        /\ Render
        /\ UNCHANGED isPainting
     \/ /\ ~needsPaint
        /\ isPainting' = FALSE
        /\ UNCHANGED <<main, needsPaint, paintedSize, waitPresent, shown, frameVars>>
  /\ UNCHANGED <<size, swaps, vo, visible, drawn, configs>>

(* DidChangeView: the new size is painted at once, whatever is queued.     *)
DidChangeView ==
  /\ main = "idle" /\ size < MaxResizes
  /\ size' = size + 1
  /\ GetFrame(size + 1)
  /\ UNCHANGED <<tasks, swaps, vo, visible, drawn, configs>>

(* The presentation time is reached; Render returns and swaps.             *)
SwapBuffers ==
  /\ main = "wait" /\ waitPresent <= presentCount
  /\ main' = "idle"
  /\ swaps' = swaps + 1
  /\ UNCHANGED <<tasks, paintVars, vo, visible, frameVars, drawn, configs>>

SwapDoneUnasked ==
  /\ main # "gone"
  /\ swaps' = swaps - 1
  /\ tasks' = Append(tasks, "PaintFinished")
  /\ UNCHANGED <<main, paintVars, vo, visible, frameVars, drawn, configs>>

(* The compositor.                                                         *)
SwapDone ==
  /\ swaps > 0 /\ main # "gone"
  /\ swaps' = swaps - 1
  /\ tasks' = Append(tasks, "PaintFinished")
  /\ UNCHANGED <<main, paintVars, vo, visible, frameVars, drawn, configs>>

-----------------------------------------------------------------------------
(* The VO thread.                                                          *)

Preinit ==
  /\ vo = "absent" /\ visible
  /\ vo' = "idle"
  /\ UNCHANGED <<tasks, main, paintVars, swaps, visible, frameVars, drawn, configs>>

(* draw_frame up to update(): isRedraw is frame->redraw || !frame->current *)
DrawFrame(isRedraw) ==
  /\ vo = "idle" /\ drawn < MaxFrames
  /\ drawn' = drawn + 1
  /\ next' = drawn + 1
  /\ redraw' = isRedraw
  /\ vo' = "update"
  /\ UNCHANGED <<tasks, main, paintVars, swaps, visible, cur, presentCount, configs>>

Update ==
  /\ vo = "update"
  /\ vo' = "flip"
  /\ tasks' = Append(tasks, "OnGetFrame")
  /\ UNCHANGED <<main, paintVars, swaps, visible, frameVars, drawn, configs>>

FlipAwaitsSwapReport ==
  /\ vo = "flip" /\ next = 0
  /\ UNCHANGED vars

(* flip_page when the frame was taken: the renderer is unblocked.          *)
FlipPresented ==
  /\ vo = "flip" /\ next = 0
  /\ presentCount' = presentCount + 1
  /\ vo' = "idle"
  /\ UNCHANGED <<tasks, main, paintVars, swaps, visible, next, redraw, cur, drawn, configs>>

FlipTimeoutKeepsFrame ==
  /\ vo = "flip" /\ next # 0
  /\ cur' = next
  /\ presentCount' = presentCount + 2
  /\ vo' = "idle"
  /\ UNCHANGED <<tasks, main, paintVars, swaps, visible, next, redraw, drawn, configs>>

FlipTimeoutLosesFrame ==
  /\ vo = "flip" /\ next # 0
  /\ next' = 0
  /\ presentCount' = presentCount + 2
  /\ vo' = "idle"
  /\ UNCHANGED <<tasks, main, paintVars, swaps, visible, redraw, cur, drawn, configs>>

(* flip_page after 0.2 s without a render: the frame is dropped, and kept  *)
(* as the one to draw again.                                               *)
FlipTimeout ==
  /\ vo = "flip" /\ next # 0
  /\ cur' = next
  /\ next' = 0
  /\ presentCount' = presentCount + 2
  /\ vo' = "idle"
  /\ UNCHANGED <<tasks, main, paintVars, swaps, visible, redraw, drawn, configs>>

(* reconfig: forget_frames(ctx, true).                                     *)
Reconfig ==
  /\ vo = "idle" /\ configs < MaxConfigs
  /\ configs' = configs + 1
  /\ cur' = 0
  /\ UNCHANGED <<tasks, main, paintVars, swaps, vo, visible, next, redraw, presentCount, drawn>>

(* uninit, because the core restarts video (bounded) or because            *)
(* kill_video_async asked for it.                                          *)
Uninit ==
  /\ vo = "idle"
  /\ \/ visible /\ configs < MaxConfigs /\ configs' = configs + 1
     \/ ~visible /\ UNCHANGED configs
  /\ vo' = "absent"
  /\ cur' = 0
  /\ UNCHANGED <<tasks, main, paintVars, swaps, visible, next, redraw, presentCount, drawn>>

-----------------------------------------------------------------------------
(* ~MPVInstance: mpv_render_context_free, mpv_terminate_destroy, and the   *)
(* callback factory, which turns what is still posted into nothing.        *)

Destroy ==
  /\ main = "idle"
  /\ main' = "freeing"
  /\ visible' = FALSE
  /\ UNCHANGED <<tasks, paintVars, swaps, vo, frameVars, drawn, configs>>

(* The wait for in_use to become false is over.                            *)
ContextFreed ==
  /\ main = "freeing" /\ vo = "absent"
  /\ main' = "freed"
  /\ cur' = 0
  /\ UNCHANGED <<tasks, paintVars, swaps, vo, visible, next, redraw, presentCount, drawn, configs>>

InstanceGone ==
  /\ main = "freed"
  /\ main' = "gone"
  /\ tasks' = <<>>
  /\ UNCHANGED <<paintVars, swaps, vo, visible, frameVars, drawn, configs>>

Terminated == main = "gone" /\ UNCHANGED vars

-----------------------------------------------------------------------------
MainStep == OnGetFrame \/ PaintFinished \/ SwapBuffers \/ ContextFreed \/ InstanceGone
VoStep == Update \/ FlipPresented \/ FlipTimeout

Next ==
  \/ MainStep \/ DidChangeView \/ Destroy
  \/ SwapDone
  \/ VoStep \/ Preinit \/ Reconfig \/ Uninit
  \/ \E isRedraw \in BOOLEAN : DrawFrame(isRedraw)
  \/ Terminated

Spec == Init /\ [][Next]_vars

(* Both threads are scheduled; a wait with a timeout ends; a video that    *)
(* was told to stop does.  The compositor owes nothing.                    *)
ThreadFairness ==
  /\ WF_vars(MainStep)
  /\ WF_vars(VoStep)
  /\ WF_vars(Uninit /\ ~visible)

FairSpec == Spec /\ ThreadFairness
CompositorAnswers == WF_vars(SwapDone)

-----------------------------------------------------------------------------
(* Properties.                                                             *)

Posted(t) == \E i \in DOMAIN tasks : tasks[i] = t
Alive == main \in {"idle", "wait"}

(* is_painting_ stands for one paint: a Render in progress, a swap at the  *)
(* compositor or a PaintFinished on its way, never two of them, so         *)
(* SwapBuffers is not called again before the last one completed.          *)
OneSwapAtATime ==
  Alive =>
    LET stages == {s \in {"render", "swap", "finished"} :
                     \/ s = "render" /\ main = "wait"
                     \/ s = "swap" /\ swaps > 0
                     \/ s = "finished" /\ Posted("PaintFinished")}
    IN /\ isPainting <=> stages # {}
       /\ \A s, t \in stages : s = t
       /\ swaps <= 1
       /\ \A i, k \in DOMAIN tasks :
            tasks[i] = "PaintFinished" /\ tasks[k] = "PaintFinished" => i = k

(* No frame and no size is stranded: from update() until a frame is taken  *)
(* or dropped, a paint that will take it is posted or noted in             *)
(* needs_paint_; the buffers have the size of the last view change or a    *)
(* paint is noted; and a noted paint has a PaintFinished to come.          *)
NoFrameStranded ==
  Alive => /\ vo = "flip" /\ next # 0 => Posted("OnGetFrame") \/ needsPaint
           /\ paintedSize # size => needsPaint
           /\ needsPaint => isPainting

(* The main thread only waits for a presentation that the VO thread still  *)
(* owes: it never waits for a frame that was dropped or drawn again.       *)
WaitIsOwed ==
  main = "wait" /\ waitPresent > presentCount =>
    vo \in {"update", "flip"} /\ next = 0 /\ waitPresent = presentCount + 1

(* The assertion at the head of draw_frame: the slot is free whenever the  *)
(* VO may draw, however the last flip_page ended.                          *)
SlotFree == vo \in {"absent", "idle"} => next = 0

(* Pictures are not drawn out of order: what Render draws is never older   *)
(* than what it drew before, except nothing at all after a reconfiguration.*)
NeverBackwards == [][shown' >= shown \/ shown' = 0]_vars

(* A compositor that stops completing swaps (a hidden tab) does not stall  *)
(* the VO thread, which has the playback clock behind it; it does not keep *)
(* Render from returning, so events are still handled; and the destruction *)
(* of the plugin ends, although it waits for the VO.                       *)
NobodyStalls ==
  /\ vo \in {"update", "flip"} ~> vo \in {"idle", "absent"}
  /\ main = "wait" ~> main # "wait"
  /\ main = "freeing" ~> main = "gone"

(* With a compositor that completes its swaps the newest frame reaches the *)
(* screen, even one that flip_page dropped: it is drawn again by the paint *)
(* its update asked for, unless the video is reconfigured or the plugin    *)
(* destroyed.                                                              *)
LastFrameShown ==
  CompositorAnswers => \A n \in 1..MaxFrames : \A k \in 0..MaxConfigs :
    vo = "update" /\ drawn = n /\ configs = k ~> (shown >= n \/ configs > k \/ ~Alive)
=============================================================================
