CONSTANTS
  Width = 3
  Height = 2
  KeySet <- MCKeys
  KeysAtOnce = 2
  QueueLength = 2
  BufSize = 3
  Prompt <- MCPrompt
SPECIFICATION Spec
INVARIANT NoStuckModifier
INVARIANT EchoMatches
PROPERTY ImplementsLineEditor
CHECK_DEADLOCK FALSE
