SPECIFICATION FairSpec
CONSTANTS
    Questions = 1
    Views = {v1, v2}
    Answers = {yes, no}
    MaxFaults = 2
    Cancels = TRUE
INVARIANTS AnswerKept QuestionShown
PROPERTIES QuestionsReturn
CHECK_DEADLOCK FALSE
