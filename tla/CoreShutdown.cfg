\* The page, a worker and the core under fair threads: two calls of any
\* kind, one change of the options, and the destruction at any moment.
CONSTANTS
  p = p
  w1 = w1
  c = c
  Core = c
  Page = p
  Workers = {w1}
  Threads = {p, w1}
  MaxCalls = 2
  MaxNotes = 1
SPECIFICATION FairSpec
INVARIANTS TypeOK Exclusive NobodySleepsOn QueueUnusedAtEnd
PROPERTY CallsReturn
