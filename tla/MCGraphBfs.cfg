CONSTANTS
  Graphs <- MCGraphs
  Roots = {0, 1}
  MaxDepths = {1, 3}
  Limits = {2, 9}
SPECIFICATION FairSpec
INVARIANTS
  NoDocumentTwice
  AnswersTheQuery
  NearestFirst
  PanicsOnlyOnOverrun
PROPERTIES
  Terminates
CHECK_DEADLOCK FALSE
