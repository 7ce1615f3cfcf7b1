CONSTANTS
  s1 = s1
  s2 = s2
  Session = {s1, s2}
  First = s1
  Turn = {1, 2}
  MaxSteps = 2
  MaxCalls = 2
  MaxMoves = 2
  Kind = {"run_command", "write_file", "unknown"}
SPECIFICATION FairSpec
CHECK_DEADLOCK FALSE
INVARIANTS UnansweredOnlyIfStopped CommandWasAllowed ConversationIsItsTurns
PROPERTIES TurnComesToItsEnd
