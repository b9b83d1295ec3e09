SPECIFICATION FairSpec
CONSTANTS
  Agents <- MCAgents
  Answers <- MCAnswers
  Setups <- MCSetups
  Garbage = Garbage
  None = None
INVARIANTS
  NoneLeftRunning
  ContinueIsEarned
  ReportIsAccepted
PROPERTY
  DeadlineEndsRun
CHECK_DEADLOCK FALSE
