\* The constructor's messages against the first notification of a property.
CONSTANTS
  Listeners = {}
  MaxSteps = 0
SPECIFICATION Spec
INVARIANT InitialValueSeen
