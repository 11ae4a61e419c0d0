SPECIFICATION FairSpec
CONSTANTS
  Scenarios <- AllScenarios
  BATCH = 1
INVARIANTS ClientsTypeOK OneOpenSource ShowsTheCurrentState BatchesArriveInOrder HomeIsQuiet
PROPERTIES InputIsFlushed PageLearnsOfTheEnd WindowLearnsOfTheEnd WindowCatchesUp
CHECK_DEADLOCK FALSE
