------------------------------ MODULE MCLanguage ------------------------------
(***************************************************************************)
(* The expressions, and the functions of their arguments beside them: each *)
(* is explored by itself, the other at rest.                               *)
(***************************************************************************)
EXTENDS MCExpressions, MCAlgorithms

VARIABLE part

ExpressionsRest == family = "operators" /\ text = << <<a>> >> /\ compiled = Nothing /\ ev = Fresh(FALSE) /\ answer = Nothing
QuestionsRest   == question = [asks |-> "nothing"] /\ asked = FALSE /\ result = <<>>

LanguageInit ==
  \/ part = "expressions" /\ Init /\ QuestionsRest
  \/ part = "questions" /\ QuestionInit /\ ExpressionsRest

OfExpressions == part = "expressions" /\ UNCHANGED <<part, questionVars>>
OfQuestions   == part = "questions" /\ UNCHANGED <<part, vars>>

LanguageNext ==
  \/ \E piece \in Kind.goOn : Write(piece) /\ OfExpressions
  \/ CompileText /\ OfExpressions
  \/ \E data \in Kind.inputs : Run(data) /\ OfExpressions
  \/ SortTerms /\ OfQuestions
  \/ SortByComparator /\ OfQuestions
  \/ MakeRange /\ OfQuestions
  \/ TransformInput /\ OfQuestions
  \/ ValidateArgs /\ OfQuestions
  \/ FindWeek /\ OfQuestions
  \/ ReadMoment /\ OfQuestions
  \/ PlaceItems /\ OfQuestions

LanguageSpec == LanguageInit /\ [][LanguageNext]_<<part, vars, questionVars>>
=============================================================================
