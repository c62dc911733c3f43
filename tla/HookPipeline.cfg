SPECIFICATION Spec
CONSTANTS
  Objects <- MCObjects
  NameOf <- MCNameOf
  GroupOf <- MCGroupOf
  Priority <- MCPriority
  Calls <- MCCalls
  Answer <- MCAnswer
  InitialHooks <- MCInitialHooks
  MaxChanges = 3
INVARIANTS
  TypeOK
  RegisteredAreIndexed
  EnabledHooksAreAsked
  LastWriterWins
  GraphInputsAreReal
PROPERTY
  StaleOnlyByReplacing
\* one call is modelled: after it has returned nothing more happens
CHECK_DEADLOCK FALSE
