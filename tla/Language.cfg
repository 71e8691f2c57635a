SPECIFICATION LanguageSpec
CONSTANTS
  PathNames <- MCNames
  Families <- MCFamilies
  MaxParseDepth = 12
  MaxTransformDepth = 12
  MaxInt = 15
  MaxSize = 8
  Questions <- MCQuestions
  Now <- MCNow
INVARIANTS
  ShortcutsAgree EvaluatorAsNew NoTupleEscapes AncestorsReached ParsedAsMeant TreeReady
  SortsAgree ListsExact TransformsInPlace ArgsAsDeclared CalendarAgrees
\* Every exploration ends when its expression or question has been answered.
CHECK_DEADLOCK FALSE
