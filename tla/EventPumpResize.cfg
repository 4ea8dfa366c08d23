\* One property, which the rendering changes.
CONSTANTS
  NumProps = 1
  MaxEvents = 1
  MaxChanges = 2
  MaxSent = 0
  MaxCalls = 0
  MaxHooks = 0
  Rendered = {1}
  Registered = {"change"}
SPECIFICATION Spec
INVARIANT PageCurrentAtRest
