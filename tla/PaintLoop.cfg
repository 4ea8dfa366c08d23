\* Three frames (one drawn, one dropped, one more), a view change and a
\* reconfiguration or restart of the video, under fair threads and a
\* compositor that may stop answering.
CONSTANTS
  MaxFrames = 3
  MaxResizes = 2
  MaxConfigs = 1
SPECIFICATION FairSpec
INVARIANTS TypeOK OneSwapAtATime NoFrameStranded WaitIsOwed SlotFree
PROPERTIES NeverBackwards NobodyStalls LastFrameShown
