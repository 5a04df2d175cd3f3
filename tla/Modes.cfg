SPECIFICATION Spec
CONSTANTS
  None = None
  Texts = {t1, bad}
  Dangerous = {bad}
CHECK_DEADLOCK FALSE
INVARIANT ModesSafe
PROPERTY SerialSteps
PROPERTY ImplementsLifecycle
PROPERTY ImmediateConverges
