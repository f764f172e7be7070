SPECIFICATION Spec
CONSTANTS
  Channels = {c}
  Handlers = {h1, h2}
  MaxSubscriptions = 3
  MaxClears = 1
  MaxEmissions = 1
PROPERTY OwnUnsubscribe
\* Every call that is allowed has been made.
CHECK_DEADLOCK FALSE
