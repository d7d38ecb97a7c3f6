CONSTANTS
  HalfWord = 16
  MaxAttempts <- Word
SPECIFICATION Spec
INVARIANTS ReportedIsEnforced AnswersMatchReports
