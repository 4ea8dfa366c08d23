\* Any three calls, listeners or observers put up or taken down, changes,
\* hooks or events, in every order.
CONSTANTS
  l1 = l1
  l2 = l2
  Listeners = {l1, l2}
  MaxSteps = 3
SPECIFICATION FairSpec
INVARIANTS TypeOK OwnAnswer ListenersServed HookContinuedOnce
PROPERTIES CallsSettle
