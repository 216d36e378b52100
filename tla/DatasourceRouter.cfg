SPECIFICATION FairSpec
CONSTANTS
  q1 = q1
  q2 = q2
  p1 = p1
  p2 = p2
  Queries = {q1, q2}
  Plugins = {p1, p2}
  Serves <- SomeScopes
  Capacity = 1
  MaxConnections = 2
  MaxAnswers = 2
INVARIANTS
  AnswersComeFromTheProvider
  ResolvedOnce
  ExemptionsWerePaidFor
PROPERTY
  EveryQueryIsSettled
CHECK_DEADLOCK FALSE
