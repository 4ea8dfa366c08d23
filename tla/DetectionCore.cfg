\* Two decoders and a user of the C++ wrapper over the list of one of the code:
\* d1 as the player configures it, d2 with a decoding thread of its own, which
\* may still offer its frame while its owner cancels.
CONSTANTS
  d1 = d1
  d2 = d2
  a1 = a1
  Decoders = {d1, d2}
  ApiUsers = {a1}
  DecThreads = {d2}
  Limit = 1
  MaxFrames = 1
SPECIFICATION Spec
INVARIANTS TypeOK AnsweredExactlyOnce NoCallbackAfterCancel JoinCannotDeadlock FreedOnceButForBoxes
PROPERTY ImplementsContract
