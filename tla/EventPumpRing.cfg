\* A ring of two, four broadcasts and two requests: it overflows with and
\* without slots reserved, recovers, and overflows again.  Each broadcast may
\* also mark the property as changed.
CONSTANTS
  NumProps = 1
  MaxEvents = 2
  MaxChanges = 0
  MaxSent = 4
  MaxCalls = 2
  MaxHooks = 0
  Rendered = {}
  Registered = {"sent", "reply", "hook", "change"}
SPECIFICATION Spec
INVARIANTS TypeOK RepliesKept LossIsReported NoLostWakeup
