CONSTANTS
  Turn = {t1, t2}
  MaxQuestions = 1
  MaxMessages = 4
SPECIFICATION Spec
INVARIANTS TypeOK QuestionsBounded RegeneratedOnce DoneMeansStored HistoryBeforeQuestion
PROPERTIES TurnsEnd
CHECK_DEADLOCK FALSE
