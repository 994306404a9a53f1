CONSTANT MaxPlan = 4
SPECIFICATION FairSpec
INVARIANTS JournalCoversThePlan UndoneInReverse OutcomeIsTrue
PROPERTY Terminates
\* The executor ends with its plan.
CHECK_DEADLOCK FALSE
