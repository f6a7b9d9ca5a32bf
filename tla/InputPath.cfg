SPECIFICATION Spec
CONSTANTS
  Scenarios <- MCScenarios
  MaxRead = 3
  MaxReads = 2
  MaxInFlight = 2
INVARIANTS
  
  AnswerIsForItsPrompt
  AnswerIsWhatWasTyped
  
CHECK_DEADLOCK FALSE
