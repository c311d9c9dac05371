SPECIFICATION SurveySpec
CONSTANTS
    a = a
    b = b
    c = c
    Option = {a, b, c}
    Survey <- MCSurveys
    MaxOptions = 3
    NoOption = NoOption
    NoAnswer = NoAnswer
INVARIANTS
    FinishedIsAccepted
    OneOptionIfSingle
    EarlierAnswered
    StoredAsShown
CHECK_DEADLOCK FALSE
