\* A property of the core and one of the rendering, which change and change
\* back around a hook, under fair threads; a page that also listens to
\* mpv-idle.
CONSTANTS
  NumProps = 2
  MaxEvents = 2
  MaxChanges = 2
  MaxSent = 0
  MaxCalls = 0
  MaxHooks = 1
  Rendered = {2}
  Registered = {"sent", "reply", "hook", "change", "mpv-idle"}
SPECIFICATION FairSpec
PROPERTIES HookSeesProperties PageConverges BurstsEnd
