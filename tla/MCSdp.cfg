SPECIFICATION Spec
CONSTANTS
  MaxNesting = 32
  Records <- ThreeRecords
  Queries <- AllQueries
  Mtus = {9, 15, 120}
  Counts = {2, 65535}
  Watchdog = 4
  TransactionIds = 2
INVARIANTS AnswersAreComplete AnswersFit
