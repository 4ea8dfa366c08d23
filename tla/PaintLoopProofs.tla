--------------------------- MODULE PaintLoopProofs ---------------------------
(***************************************************************************)
(* Proofs about PaintLoop for every number of frames, view changes and     *)
(* reconfigurations: the type invariant, OneSwapAtATime, NoFrameStranded,  *)
(* WaitIsOwed, SlotFree and NeverBackwards.                                *)
(*                                                                         *)
(* The properties lean on each other.  That a paint in progress has one    *)
(* stage (OnePaint) is what makes a noted paint certain to be reached      *)
(* (Reached); that the slot is free when the VO draws is what makes the    *)
(* presentation count a Render waits for one that flip_page still owes;    *)
(* and pictures stay in order because every frame anyone holds was drawn,  *)
(* and the frame that waits and the current one are never older than the   *)
(* one on the screen (InOrder).                                            *)
(***************************************************************************)
EXTENDS PaintLoop, TLAPS

-----------------------------------------------------------------------------
(* The posted tasks.                                                       *)

Holds(s, t) == \E i \in DOMAIN s : s[i] = t
Once(s, t) == \A i, k \in DOMAIN s : s[i] = t /\ s[k] = t => i = k

(* What the main thread leaves posted when it takes the first task: every  *)
(* task of another kind, and of its own kind nothing if there was only it. *)
LEMMA TakeTask ==
  ASSUME NEW s \in Seq(Tasks), s # <<>>, NEW t \in Tasks
  PROVE  /\ Tail(s) \in Seq(Tasks)
         /\ Head(s) # t => (Holds(Tail(s), t) <=> Holds(s, t))
         /\ Once(s, t) => Once(Tail(s), t)
         /\ Head(s) = t => Holds(s, t)
         /\ Head(s) = t /\ Once(s, t) => ~Holds(Tail(s), t)
<1>1. /\ Len(s) \in Nat \ {0} /\ DOMAIN s = 1..Len(s)
      /\ Tail(s) \in Seq(Tasks) /\ Head(s) = s[1]
      /\ DOMAIN Tail(s) = 1..(Len(s) - 1)
      /\ \A i \in 1..(Len(s) - 1) : Tail(s)[i] = s[i + 1]
  OBVIOUS
<1>2. \A i \in DOMAIN s : i = 1 \/ (i - 1 \in DOMAIN Tail(s) /\ Tail(s)[i - 1] = s[i])
  BY <1>1
<1>3. \A i \in DOMAIN Tail(s) : i + 1 \in DOMAIN s /\ i + 1 # 1 /\ Tail(s)[i] = s[i + 1]
  BY <1>1
<1>4. Head(s) # t => (Holds(Tail(s), t) <=> Holds(s, t))
  BY <1>1, <1>2, <1>3 DEF Holds
<1>5. Once(s, t) => Once(Tail(s), t)
  <2> SUFFICES ASSUME Once(s, t), NEW i \in DOMAIN Tail(s), NEW k \in DOMAIN Tail(s),
                      Tail(s)[i] = t, Tail(s)[k] = t
               PROVE  i = k
    BY DEF Once
  <2>1. i + 1 = k + 1
    BY <1>3 DEF Once
  <2> QED
    BY <2>1, <1>1
<1>6. Head(s) = t => Holds(s, t)
  BY <1>1 DEF Holds
<1>7. Head(s) = t /\ Once(s, t) => ~Holds(Tail(s), t)
  <2> SUFFICES ASSUME Head(s) = t, Once(s, t), NEW i \in DOMAIN Tail(s), Tail(s)[i] = t
               PROVE  FALSE
    BY DEF Holds
  <2>1. 1 \in DOMAIN s /\ s[1] = t /\ s[i + 1] = t /\ i + 1 \in DOMAIN s /\ i + 1 # 1
    BY <1>1, <1>3
  <2> QED
    BY <2>1 DEF Once
<1> QED
  BY <1>1, <1>4, <1>5, <1>6, <1>7

(* What a post adds.                                                       *)
LEMMA PostTask ==
  ASSUME NEW s \in Seq(Tasks), NEW x \in Tasks, NEW t \in Tasks
  PROVE  /\ Append(s, x) \in Seq(Tasks)
         /\ Holds(Append(s, x), t) <=> Holds(s, t) \/ x = t
         /\ Once(s, t) /\ (x # t \/ ~Holds(s, t)) => Once(Append(s, x), t)
<1>1. /\ Len(s) \in Nat /\ DOMAIN s = 1..Len(s)
      /\ Append(s, x) \in Seq(Tasks)
      /\ DOMAIN Append(s, x) = 1..(Len(s) + 1)
      /\ \A i \in 1..Len(s) : Append(s, x)[i] = s[i]
      /\ Append(s, x)[Len(s) + 1] = x
  OBVIOUS
<1>2. \A i \in DOMAIN Append(s, x) :
        \/ i \in DOMAIN s /\ Append(s, x)[i] = s[i]
        \/ i = Len(s) + 1 /\ Append(s, x)[i] = x
  BY <1>1
<1>3. \A i \in DOMAIN s : i \in DOMAIN Append(s, x) /\ Append(s, x)[i] = s[i]
  BY <1>1
<1>4. Len(s) + 1 \in DOMAIN Append(s, x)
  BY <1>1
<1>5. Holds(Append(s, x), t) <=> Holds(s, t) \/ x = t
  BY <1>1, <1>2, <1>3, <1>4 DEF Holds
<1>6. Once(s, t) /\ (x # t \/ ~Holds(s, t)) => Once(Append(s, x), t)
  BY <1>2 DEF Holds, Once
<1> QED
  BY <1>1, <1>5, <1>6

(* Nothing is posted once the callback factory is gone.                    *)
LEMMA NothingPosted ==
  /\ <<>> \in Seq(Tasks)
  /\ \A t : ~Holds(<<>>, t) /\ Once(<<>>, t)
BY DEF Holds, Once

-----------------------------------------------------------------------------
(* The inductive invariant.                                                *)

(* is_painting_ is one of three stages of the same paint.                  *)
OnePaint ==
  Alive =>
    /\ main = "wait" => isPainting /\ swaps = 0 /\ ~Holds(tasks, "PaintFinished")
    /\ swaps > 0 => isPainting /\ swaps = 1 /\ ~Holds(tasks, "PaintFinished")
    /\ Holds(tasks, "PaintFinished") => isPainting
    /\ isPainting => main = "wait" \/ swaps > 0 \/ Holds(tasks, "PaintFinished")
    /\ Once(tasks, "PaintFinished")

(* A frame or a size that nobody has painted will be.                      *)
Reached ==
  Alive =>
    /\ vo = "flip" /\ next # 0 => Holds(tasks, "OnGetFrame") \/ needsPaint
    /\ paintedSize # size => needsPaint
    /\ needsPaint => isPainting

(* Every frame held was drawn, and none is older than the one shown.       *)
InOrder ==
  /\ shown <= drawn /\ cur <= drawn /\ next <= drawn
  /\ next # 0 => next >= shown
  /\ cur # 0 => cur >= shown

IInv == TypeOK /\ OnePaint /\ Reached /\ SlotFree /\ WaitIsOwed /\ InOrder

(* The initial state satisfies the invariant.                              *)
LEMMA InitIInv == Init => IInv
<1> SUFFICES ASSUME Init PROVE IInv
  OBVIOUS
<1>0. tasks \in Seq(Tasks) /\ DOMAIN tasks = {1} /\ tasks[1] = "OnGetFrame"
  BY DEF Init, Tasks
<1>1. TypeOK
  <2>1. 0 \in 0..MaxResizes /\ 0 \in Frames /\ 0 \in 0..MaxConfigs /\ 0 \in Nat
    BY BoundsAssumption DEF Frames
  <2>2. main \in MainPcs /\ vo \in VoPcs
    BY DEF Init, MainPcs, VoPcs
  <2>3. isPainting \in BOOLEAN /\ needsPaint \in BOOLEAN /\ visible \in BOOLEAN
        /\ redraw \in BOOLEAN
    BY DEF Init
  <2> QED
    BY <1>0, <2>1, <2>2, <2>3 DEF Init, TypeOK
<1>2. OnePaint /\ Reached
  BY <1>0 DEF Init, OnePaint, Reached, Holds, Once
<1>3. SlotFree /\ WaitIsOwed /\ InOrder
  BY DEF Init, SlotFree, WaitIsOwed, InOrder
<1> QED
  BY <1>1, <1>2, <1>3 DEF IInv

(* The types of what a render writes.                                      *)
LEMMA RenderTypes ==
  ASSUME IInv, Render
  PROVE  /\ main' = "wait" /\ waitPresent' \in Nat /\ presentCount' \in Nat
         /\ shown' \in Frames /\ next' \in Frames /\ cur' \in Frames
         /\ redraw' \in BOOLEAN
<1>1. presentCount \in Nat /\ cur \in Frames /\ next \in Frames /\ 0 \in Frames
  BY BoundsAssumption DEF IInv, TypeOK, Frames
<1>2. redraw' \in BOOLEAN
  BY DEF IInv, TypeOK, Render
<1> QED
  BY <1>1, <1>2 DEF Render, CountToWaitFor

(* What a render does to the frames: the slot is emptied, the order of     *)
(* what is held is kept, and if it must wait for a presentation, it is for *)
(* the one that the VO, which filled the slot, is about to make.           *)
LEMMA RenderFrames ==
  ASSUME IInv, Render, UNCHANGED <<drawn, vo>>
  PROVE  SlotFree' /\ WaitIsOwed' /\ InOrder' /\ next' = 0
<1>1. /\ presentCount \in Nat /\ cur \in Nat /\ next \in Nat /\ shown \in Nat
      /\ drawn \in Nat /\ vo \in VoPcs
  BY BoundsAssumption DEF IInv, TypeOK, Frames
<1>2. next' = 0 /\ presentCount' = presentCount /\ main' = "wait"
      /\ waitPresent' = CountToWaitFor /\ cur' = (IF next # 0 THEN next ELSE cur)
      /\ shown' = cur'
  BY DEF Render
<1>3. SlotFree'
  BY <1>2 DEF SlotFree
<1>4. WaitIsOwed'
  <2>1. CASE next = 0
    BY <1>1, <1>2, <2>1 DEF WaitIsOwed, CountToWaitFor
  <2>2. CASE next # 0
    <3>1. vo \in {"update", "flip"}
      BY <1>1, <2>2 DEF IInv, SlotFree, VoPcs
    <3> QED
      BY <1>1, <1>2, <2>2, <3>1 DEF WaitIsOwed, CountToWaitFor
  <2> QED
    BY <2>1, <2>2
<1>5. InOrder'
  BY <1>1, <1>2 DEF IInv, InOrder
<1> QED
  BY <1>2, <1>3, <1>4, <1>5

(* OnGetFrame, for whichever size the view has: a paint in progress notes  *)
(* the request, otherwise the render starts a paint.                       *)
LEMMA GetFrameStep ==
  ASSUME IInv, NEW s \in 0..MaxResizes, GetFrame(s), UNCHANGED <<swaps, vo, drawn>>,
         main = "idle", size' = s, tasks' \in Seq(Tasks),
         Holds(tasks', "PaintFinished") <=> Holds(tasks, "PaintFinished"),
         Once(tasks', "PaintFinished")
  PROVE  /\ main' \in MainPcs /\ isPainting' \in BOOLEAN /\ needsPaint' \in BOOLEAN
         /\ paintedSize' \in 0..MaxResizes
         /\ waitPresent' \in Nat /\ presentCount' \in Nat
         /\ shown' \in Frames /\ next' \in Frames /\ cur' \in Frames
         /\ redraw' \in BOOLEAN
         /\ OnePaint' /\ Reached' /\ SlotFree' /\ WaitIsOwed' /\ InOrder'
<1>0. swaps \in Nat
  BY DEF IInv, TypeOK
<1>1. CASE isPainting
  <2>1. needsPaint' = TRUE /\ UNCHANGED <<main, isPainting, paintedSize, waitPresent, shown>>
        /\ UNCHANGED <<next, redraw, cur, presentCount>>
    BY <1>1 DEF GetFrame, frameVars
  <2>2. OnePaint'
    BY <2>1, <1>0, <1>1 DEF IInv, OnePaint, Alive
  <2>3. Reached'
    BY <2>1, <1>1 DEF Reached
  <2>4. SlotFree' /\ WaitIsOwed' /\ InOrder'
    BY <2>1 DEF IInv, SlotFree, WaitIsOwed, InOrder
  <2> QED
    BY <2>1, <2>2, <2>3, <2>4 DEF IInv, TypeOK
<1>2. CASE ~isPainting
  <2>1. isPainting' = TRUE /\ needsPaint' = FALSE /\ paintedSize' = s /\ Render
    BY <1>2 DEF GetFrame
  <2>2. main' = "wait" /\ next' = 0 /\ SlotFree' /\ WaitIsOwed' /\ InOrder'
    BY <2>1, RenderTypes, RenderFrames
  <2>3. OnePaint'
    BY <2>1, <2>2, <1>0, <1>2 DEF IInv, OnePaint, Alive
  <2>4. Reached'
    BY <2>1, <2>2 DEF Reached
  <2> QED
    BY <2>1, <2>2, <2>3, <2>4, RenderTypes DEF MainPcs
<1> QED
  BY <1>1, <1>2
-----------------------------------------------------------------------------
(* Every step preserves the invariant.                                     *)

(* The types after each step.                                              *)
LEMMA TypeStep == IInv /\ [Next]_vars => TypeOK'
<1> SUFFICES ASSUME IInv, [Next]_vars PROVE TypeOK'
  OBVIOUS
<1> USE DEF IInv
<1>t. "OnGetFrame" \in Tasks /\ "PaintFinished" \in Tasks
  BY DEF Tasks
<1>n. /\ 0 \in Frames /\ presentCount + 1 \in Nat /\ presentCount + 2 \in Nat /\ swaps + 1 \in Nat
      /\ swaps > 0 => swaps - 1 \in Nat
  BY BoundsAssumption DEF TypeOK, Frames
<1>1. CASE OnGetFrame
  <2>1. tasks' = Tail(tasks) /\ tasks # <<>> /\ Head(tasks) = "OnGetFrame"
    BY <1>1 DEF OnGetFrame, NextTaskIs
  <2>2. tasks' \in Seq(Tasks)
    BY <2>1, <1>t, TakeTask DEF TypeOK
  <2>3. CASE isPainting
    BY <1>1, <2>2, <2>3 DEF OnGetFrame, GetFrame, TypeOK, frameVars
  <2>4. CASE ~isPainting
    <3>1. Render /\ isPainting' \in BOOLEAN /\ needsPaint' \in BOOLEAN /\ paintedSize' = size
      BY <1>1, <2>4 DEF OnGetFrame, GetFrame
    <3> QED
      BY <1>1, <2>2, <3>1, RenderTypes DEF OnGetFrame, TypeOK, MainPcs
  <2> QED
    BY <2>3, <2>4
<1>2. CASE PaintFinished
  <2>1. tasks' = Tail(tasks) /\ tasks # <<>>
    BY <1>2 DEF PaintFinished, NextTaskIs
  <2>2. tasks' \in Seq(Tasks)
    BY <2>1, <1>t, TakeTask DEF TypeOK
  <2>3. CASE needsPaint
    <3>1. Render /\ isPainting' \in BOOLEAN /\ needsPaint' \in BOOLEAN /\ paintedSize' = size
      BY <1>2, <2>3 DEF PaintFinished, TypeOK
    <3> QED
      BY <1>2, <2>2, <3>1, RenderTypes DEF PaintFinished, TypeOK, MainPcs
  <2>4. CASE ~needsPaint
    BY <1>2, <2>2, <2>4 DEF PaintFinished, TypeOK, frameVars
  <2> QED
    BY <2>3, <2>4
<1>3. CASE DidChangeView
  <2>1. size' = size + 1 /\ size + 1 \in 0..MaxResizes
    BY <1>3, BoundsAssumption DEF DidChangeView, TypeOK
  <2>2. CASE isPainting
    BY <1>3, <2>1, <2>2 DEF DidChangeView, GetFrame, TypeOK, frameVars
  <2>3. CASE ~isPainting
    <3>1. Render /\ isPainting' \in BOOLEAN /\ needsPaint' \in BOOLEAN /\ paintedSize' = size + 1
      BY <1>3, <2>3 DEF DidChangeView, GetFrame
    <3> QED
      BY <1>3, <2>1, <3>1, RenderTypes DEF DidChangeView, TypeOK, MainPcs
  <2> QED
    BY <2>2, <2>3
<1>4. CASE SwapBuffers
  BY <1>4, <1>n DEF SwapBuffers, TypeOK, paintVars, frameVars, MainPcs
<1>5. CASE SwapDone
  BY <1>5, <1>n, <1>t, PostTask DEF SwapDone, TypeOK, paintVars, frameVars
<1>6. CASE \E isRedraw \in BOOLEAN : DrawFrame(isRedraw)
  <2>1. PICK isRedraw \in BOOLEAN : DrawFrame(isRedraw)
    BY <1>6
  <2>2. drawn + 1 \in Frames
    BY <2>1, BoundsAssumption DEF DrawFrame, TypeOK, Frames
  <2> QED
    BY <2>1, <2>2 DEF DrawFrame, TypeOK, paintVars, VoPcs
<1>7. CASE Update
  BY <1>7, <1>t, PostTask DEF Update, TypeOK, paintVars, frameVars, VoPcs
<1>8. CASE FlipPresented
  BY <1>8, <1>n DEF FlipPresented, TypeOK, paintVars, VoPcs
<1>9. CASE FlipTimeout
  BY <1>9, <1>n DEF FlipTimeout, TypeOK, paintVars, VoPcs
<1>10. CASE Preinit
  BY <1>10 DEF Preinit, TypeOK, paintVars, frameVars, VoPcs
<1>11. CASE Reconfig
  <2>1. configs' \in 0..MaxConfigs
    BY <1>11, BoundsAssumption DEF Reconfig, TypeOK
  <2> QED
    BY <1>11, <2>1, <1>n DEF Reconfig, TypeOK, paintVars
<1>12. CASE Uninit
  <2>1. configs' \in 0..MaxConfigs
    BY <1>12, BoundsAssumption DEF Uninit, TypeOK
  <2> QED
    BY <1>12, <2>1, <1>n DEF Uninit, TypeOK, paintVars, VoPcs
<1>13. CASE Destroy
  BY <1>13 DEF Destroy, TypeOK, paintVars, frameVars, MainPcs
<1>14. CASE ContextFreed
  BY <1>14, <1>n DEF ContextFreed, TypeOK, paintVars, MainPcs
<1>15. CASE InstanceGone
  BY <1>15, NothingPosted DEF InstanceGone, TypeOK, paintVars, frameVars, MainPcs
<1>16. CASE UNCHANGED vars
  BY <1>16 DEF vars, TypeOK, paintVars, frameVars
<1> QED
  BY <1>1, <1>2, <1>3, <1>4, <1>5, <1>6, <1>7, <1>8, <1>9, <1>10, <1>11, <1>12, <1>13, <1>14,
     <1>15, <1>16 DEF Next, MainStep, VoStep, Terminated

(* The rest of the invariant after each step.                              *)
LEMMA StepIInv == IInv /\ [Next]_vars => IInv'
<1> SUFFICES ASSUME IInv, [Next]_vars PROVE IInv'
  OBVIOUS
<1>t. /\ "OnGetFrame" \in Tasks /\ "PaintFinished" \in Tasks
      /\ tasks \in Seq(Tasks) /\ swaps \in Nat
      /\ presentCount \in Nat /\ waitPresent \in Nat
      /\ cur \in Nat /\ next \in Nat /\ shown \in Nat /\ drawn \in Nat
  BY BoundsAssumption DEF IInv, TypeOK, Tasks, Frames
<1>0. OnePaint' /\ Reached' /\ SlotFree' /\ WaitIsOwed' /\ InOrder'
  <2>1. CASE OnGetFrame
    <3>1. /\ tasks' = Tail(tasks) /\ tasks # <<>> /\ Head(tasks) = "OnGetFrame"
          /\ main = "idle" /\ size' = size /\ GetFrame(size) /\ UNCHANGED <<swaps, vo, drawn>>
      BY <2>1 DEF OnGetFrame, NextTaskIs
    <3>2. Once(tasks, "PaintFinished")
      BY <3>1 DEF IInv, OnePaint, Alive
    <3>3. /\ tasks' \in Seq(Tasks) /\ Once(tasks', "PaintFinished")
          /\ Holds(tasks', "PaintFinished") <=> Holds(tasks, "PaintFinished")
      BY <1>t, <3>1, <3>2, TakeTask
    <3>4. size \in 0..MaxResizes
      BY DEF IInv, TypeOK
    <3> QED
      BY <3>1, <3>3, <3>4, GetFrameStep
  <2>2. CASE PaintFinished
    <3>1. /\ tasks' = Tail(tasks) /\ tasks # <<>> /\ Head(tasks) = "PaintFinished"
          /\ main = "idle" /\ UNCHANGED <<size, swaps, vo, drawn>>
      BY <2>2 DEF PaintFinished, NextTaskIs
    <3>2. Once(tasks, "PaintFinished") /\ Holds(tasks, "PaintFinished")
      BY <1>t, <3>1, TakeTask DEF IInv, OnePaint, Alive
    <3>3. /\ Once(tasks', "PaintFinished") /\ ~Holds(tasks', "PaintFinished")
          /\ Holds(tasks', "OnGetFrame") <=> Holds(tasks, "OnGetFrame")
      BY <1>t, <3>1, <3>2, TakeTask
    <3>4. swaps = 0 /\ isPainting
      BY <1>t, <3>1, <3>2 DEF IInv, OnePaint, Alive
    <3>5. CASE needsPaint
      <4>1. Render /\ needsPaint' = FALSE /\ paintedSize' = size /\ UNCHANGED isPainting
        BY <2>2, <3>5 DEF PaintFinished
      <4>2. main' = "wait" /\ next' = 0 /\ SlotFree' /\ WaitIsOwed' /\ InOrder'
        BY <3>1, <4>1, RenderTypes, RenderFrames
      <4> QED
        BY <3>1, <3>3, <3>4, <4>1, <4>2 DEF OnePaint, Reached
    <3>6. CASE ~needsPaint
      <4>1. /\ isPainting' = FALSE
            /\ UNCHANGED <<main, needsPaint, paintedSize, waitPresent, shown>>
            /\ UNCHANGED <<next, redraw, cur, presentCount>>
        BY <2>2, <3>6 DEF PaintFinished, frameVars
      <4>2. OnePaint'
        BY <3>1, <3>3, <3>4, <4>1 DEF OnePaint
      <4>3. Reached'
        BY <3>1, <3>3, <3>6, <4>1 DEF IInv, Reached, Alive
      <4> QED
        BY <3>1, <4>1, <4>2, <4>3 DEF IInv, SlotFree, WaitIsOwed, InOrder
    <3> QED
      BY <3>5, <3>6
  <2>3. CASE DidChangeView
    <3>1. /\ main = "idle" /\ size' = size + 1 /\ GetFrame(size + 1)
          /\ UNCHANGED <<tasks, swaps, vo, drawn>>
      BY <2>3 DEF DidChangeView
    <3>2. size + 1 \in 0..MaxResizes
      BY <2>3, BoundsAssumption DEF DidChangeView, IInv, TypeOK
    <3>3. Once(tasks', "PaintFinished") /\ tasks' \in Seq(Tasks)
      BY <1>t, <3>1 DEF IInv, OnePaint, Alive
    <3> QED
      BY <3>1, <3>2, <3>3, GetFrameStep
  <2>4. CASE SwapBuffers
    <3>1. /\ main = "wait" /\ main' = "idle" /\ swaps' = swaps + 1
          /\ UNCHANGED <<tasks, isPainting, needsPaint, size, paintedSize, shown, vo, drawn>>
          /\ UNCHANGED <<next, cur, presentCount, waitPresent>>
      BY <2>4 DEF SwapBuffers, paintVars, frameVars
    <3>2. OnePaint'
      BY <1>t, <3>1 DEF IInv, OnePaint, Alive
    <3> QED
      BY <3>1, <3>2 DEF IInv, Reached, SlotFree, WaitIsOwed, InOrder, Alive
  <2>5. CASE SwapDone
    <3>1. /\ swaps > 0 /\ swaps' = swaps - 1 /\ tasks' = Append(tasks, "PaintFinished")
          /\ UNCHANGED <<main, isPainting, needsPaint, size, paintedSize, shown, vo, drawn>>
          /\ UNCHANGED <<next, cur, presentCount, waitPresent>>
      BY <2>5 DEF SwapDone, paintVars, frameVars
    <3>2. /\ Holds(tasks', "PaintFinished")
          /\ Holds(tasks', "OnGetFrame") <=> Holds(tasks, "OnGetFrame")
          /\ Once(tasks, "PaintFinished") /\ ~Holds(tasks, "PaintFinished")
               => Once(tasks', "PaintFinished")
      BY <1>t, <3>1, PostTask
    <3>3. OnePaint'
      BY <1>t, <3>1, <3>2 DEF IInv, OnePaint, Alive
    <3> QED
      BY <3>1, <3>2, <3>3 DEF IInv, Reached, SlotFree, WaitIsOwed, InOrder, Alive
  <2>6. CASE \E isRedraw \in BOOLEAN : DrawFrame(isRedraw)
    <3>1. /\ vo = "idle" /\ drawn' = drawn + 1 /\ next' = drawn + 1 /\ vo' = "update"
          /\ UNCHANGED <<tasks, main, swaps, isPainting, needsPaint, size, paintedSize, shown>>
          /\ UNCHANGED <<waitPresent, cur, presentCount>>
      BY <2>6 DEF DrawFrame, paintVars
    <3>2. OnePaint' /\ Reached' /\ SlotFree'
      BY <3>1 DEF IInv, OnePaint, Reached, SlotFree, Alive
    <3>3. WaitIsOwed'
      BY <3>1 DEF IInv, WaitIsOwed
    <3>4. InOrder'
      BY <1>t, <3>1 DEF IInv, InOrder
    <3> QED
      BY <3>2, <3>3, <3>4
  <2>7. CASE Update
    <3>1. /\ vo = "update" /\ vo' = "flip" /\ tasks' = Append(tasks, "OnGetFrame")
          /\ UNCHANGED <<main, swaps, isPainting, needsPaint, size, paintedSize, shown>>
          /\ UNCHANGED <<waitPresent, next, cur, presentCount, drawn>>
      BY <2>7 DEF Update, paintVars, frameVars
    <3>2. /\ Holds(tasks', "OnGetFrame")
          /\ Holds(tasks', "PaintFinished") <=> Holds(tasks, "PaintFinished")
          /\ Once(tasks, "PaintFinished") => Once(tasks', "PaintFinished")
      BY <1>t, <3>1, PostTask
    <3>3. OnePaint' /\ Reached'
      BY <3>1, <3>2 DEF IInv, OnePaint, Reached, Alive
    <3> QED
      BY <3>1, <3>3 DEF IInv, SlotFree, WaitIsOwed, InOrder
  <2>8. CASE FlipPresented
    <3>1. /\ vo = "flip" /\ next = 0 /\ presentCount' = presentCount + 1 /\ vo' = "idle"
          /\ UNCHANGED <<tasks, main, swaps, isPainting, needsPaint, size, paintedSize, shown>>
          /\ UNCHANGED <<waitPresent, next, cur, drawn>>
      BY <2>8 DEF FlipPresented, paintVars
    <3>2. WaitIsOwed'
      BY <1>t, <3>1 DEF IInv, WaitIsOwed
    <3>3. OnePaint' /\ Reached' /\ SlotFree' /\ InOrder'
      BY <3>1 DEF IInv, OnePaint, Reached, SlotFree, InOrder, Alive
    <3> QED
      BY <3>2, <3>3
  <2>9. CASE FlipTimeout
    <3>1. /\ vo = "flip" /\ next # 0 /\ cur' = next /\ next' = 0 /\ vo' = "idle"
          /\ presentCount' = presentCount + 2
          /\ UNCHANGED <<tasks, main, swaps, isPainting, needsPaint, size, paintedSize, shown>>
          /\ UNCHANGED <<waitPresent, drawn>>
      BY <2>9 DEF FlipTimeout, paintVars
    <3>2. WaitIsOwed'
      BY <1>t, <3>1 DEF IInv, WaitIsOwed
    <3>3. OnePaint' /\ Reached' /\ SlotFree'
      BY <3>1 DEF IInv, OnePaint, Reached, SlotFree, Alive
    <3>4. InOrder'
      BY <1>t, <3>1 DEF IInv, InOrder
    <3> QED
      BY <3>2, <3>3, <3>4
  <2>10. CASE Preinit
    <3>1. /\ vo = "absent" /\ vo' = "idle"
          /\ UNCHANGED <<tasks, main, swaps, isPainting, needsPaint, size, paintedSize, shown>>
          /\ UNCHANGED <<waitPresent, next, cur, presentCount, drawn>>
      BY <2>10 DEF Preinit, paintVars, frameVars
    <3> QED
      BY <3>1 DEF IInv, OnePaint, Reached, SlotFree, WaitIsOwed, InOrder, Alive
  <2>11. CASE Reconfig \/ Uninit
    <3>1. /\ vo = "idle" /\ vo' \in {"idle", "absent"} /\ cur' = 0
          /\ UNCHANGED <<tasks, main, swaps, isPainting, needsPaint, size, paintedSize, shown>>
          /\ UNCHANGED <<waitPresent, next, presentCount, drawn>>
      BY <2>11 DEF Reconfig, Uninit, paintVars
    <3>2. InOrder'
      BY <1>t, <3>1 DEF IInv, InOrder
    <3> QED
      BY <3>1, <3>2 DEF IInv, OnePaint, Reached, SlotFree, WaitIsOwed, Alive
  <2>12. CASE Destroy \/ ContextFreed \/ InstanceGone
    <3>1. /\ main' \in {"freeing", "freed", "gone"} /\ (cur' = cur \/ cur' = 0)
          /\ UNCHANGED <<shown, vo, waitPresent, next, presentCount, drawn>>
      BY <2>12 DEF Destroy, ContextFreed, InstanceGone, paintVars, frameVars
    <3>2. InOrder'
      BY <1>t, <3>1 DEF IInv, InOrder
    <3> QED
      BY <3>1, <3>2 DEF IInv, OnePaint, Reached, SlotFree, WaitIsOwed, Alive
  <2>13. CASE UNCHANGED vars
    BY <2>13 DEF IInv, vars, paintVars, frameVars, OnePaint, Reached, SlotFree, WaitIsOwed,
                 InOrder, Alive
  <2> QED
    BY <2>1, <2>2, <2>3, <2>4, <2>5, <2>6, <2>7, <2>8, <2>9, <2>10, <2>11, <2>12, <2>13
    DEF Next, MainStep, VoStep, Terminated
<1> QED
  BY <1>0, TypeStep DEF IInv

-----------------------------------------------------------------------------
(* What the invariant gives.                                               *)

(* Only a render changes what is shown, and it does not go back.           *)
LEMMA ShownStep == IInv /\ [Next]_vars => shown' >= shown \/ shown' = 0
<1> SUFFICES ASSUME IInv, [Next]_vars PROVE shown' >= shown \/ shown' = 0
  OBVIOUS
<1>1. shown \in Nat /\ next \in Nat /\ cur \in Nat
  BY BoundsAssumption DEF IInv, TypeOK, Frames
<1>2. CASE Render
  BY <1>1, <1>2 DEF Render, IInv, InOrder
<1>3. CASE UNCHANGED shown
  BY <1>1, <1>3
<1>4. Render \/ UNCHANGED shown
  BY DEF Next, MainStep, VoStep, OnGetFrame, PaintFinished, SwapBuffers, ContextFreed,
         InstanceGone, DidChangeView, GetFrame, Destroy, SwapDone, Update, FlipPresented,
         FlipTimeout, Preinit, Reconfig, Uninit, DrawFrame, Terminated, vars, paintVars
<1> QED
  BY <1>2, <1>3, <1>4

(* The invariant gives the two properties as the runs state them.          *)
LEMMA IInvMeans == IInv => OneSwapAtATime /\ NoFrameStranded
<1> SUFFICES ASSUME IInv PROVE OneSwapAtATime /\ NoFrameStranded
  OBVIOUS
<1>0. \A t : Posted(t) <=> Holds(tasks, t)
  BY DEF Posted, Holds
<1>1. NoFrameStranded
  BY <1>0 DEF IInv, Reached, NoFrameStranded
<1>2. OneSwapAtATime
  <2> SUFFICES ASSUME Alive PROVE OneSwapAtATime
    BY DEF OneSwapAtATime
  <2> DEFINE stages == {s \in {"render", "swap", "finished"} :
                          \/ s = "render" /\ main = "wait"
                          \/ s = "swap" /\ swaps > 0
                          \/ s = "finished" /\ Posted("PaintFinished")}
  <2>0. swaps \in Nat
    BY DEF IInv, TypeOK
  <2>1. /\ "render" \in stages <=> main = "wait"
        /\ "swap" \in stages <=> swaps > 0
        /\ "finished" \in stages <=> Holds(tasks, "PaintFinished")
        /\ stages \subseteq {"render", "swap", "finished"}
    BY <1>0
  <2> HIDE DEF stages
  <2>2. isPainting <=> stages # {}
    BY <2>1 DEF IInv, OnePaint
  <2>3. \A s, t \in stages : s = t
    BY <2>0, <2>1 DEF IInv, OnePaint
  <2>4. swaps <= 1
    BY <2>0 DEF IInv, OnePaint
  <2>5. \A i, k \in DOMAIN tasks :
          tasks[i] = "PaintFinished" /\ tasks[k] = "PaintFinished" => i = k
    BY DEF IInv, OnePaint, Once
  <2> QED
    BY <2>2, <2>3, <2>4, <2>5 DEF OneSwapAtATime, stages
<1> QED
  BY <1>1, <1>2

-----------------------------------------------------------------------------
(* The theorems.                                                           *)

(* The inductive invariant of the paint loop: a paint has one stage, what  *)
(* is to be painted is reached, the slot is free when the VO draws, a      *)
(* render waits only for what is owed, and frames stay in order.           *)
THEOREM Invariance == Spec => []IInv
BY InitIInv, StepIInv, PTL DEF Spec

(* Variables keep their types.                                             *)
THEOREM TypeCorrect == Spec => []TypeOK
<1>1. IInv => TypeOK
  BY DEF IInv
<1> QED
  BY <1>1, Invariance, PTL

(* SwapBuffers is never called while a swap or its PaintFinished is on its *)
(* way, and is_painting_ is set exactly while there is one or a render.    *)
THEOREM SwapsOneByOne == Spec => []OneSwapAtATime
BY IInvMeans, Invariance, PTL

(* A drawn frame that waits for a render and a view change that waits for  *)
(* a paint have a task or a noted paint that will serve them.              *)
THEOREM NothingStranded == Spec => []NoFrameStranded
BY IInvMeans, Invariance, PTL

(* mpv_render_context_render blocks the main thread only for a             *)
(* presentation that the VO thread is on its way to.                       *)
THEOREM WaitsAreOwed == Spec => []WaitIsOwed
<1>1. IInv => WaitIsOwed
  BY DEF IInv
<1> QED
  BY <1>1, Invariance, PTL

(* The assertion at the head of draw_frame holds.                          *)
THEOREM SlotIsFree == Spec => []SlotFree
<1>1. IInv => SlotFree
  BY DEF IInv
<1> QED
  BY <1>1, Invariance, PTL

(* Render never draws an older frame than it drew before.                  *)
THEOREM PicturesInOrder == Spec => NeverBackwards
<1>1. IInv /\ [Next]_vars => [shown' >= shown \/ shown' = 0]_vars
  BY ShownStep
<1> QED
  BY <1>1, Invariance, PTL DEF Spec, NeverBackwards
=============================================================================
