CONSTANTS
  d1 = d1
  d2 = d2
  Decoders = {d1, d2}
  ApiUsers = {}
  DecThreads = {}
  Limit = 1
  MaxFrames = 1
SPECIFICATION Spec
SYMMETRY DecoderSymmetry
INVARIANT NodeInUseExists
