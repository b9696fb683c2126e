SPECIFICATION Spec
\* Every request is answered and every handler returns.
CHECK_DEADLOCK FALSE
CONSTANTS
  Requests = {r1, r2}
  Configurations <- AllConfigurations
INVARIANTS
  TypeOK
  TransactionsMatchAnswers
  AnswersAreWritten
PROPERTY
  TimeoutIsTheEnd
