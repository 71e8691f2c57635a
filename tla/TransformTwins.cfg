SPECIFICATION QuestionSpec
CONSTANTS
  MaxInt = 15
  MaxSize = 8
  Questions <- MCQuestions
  Now <- MCNow
INVARIANT TransformsOnlyMatched
CHECK_DEADLOCK FALSE
