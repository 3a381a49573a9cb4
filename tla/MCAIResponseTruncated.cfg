SPECIFICATION Spec
CONSTANTS
    MaxPrompt = 3
    MaxContent = 4
INVARIANT
    AnswerExtracted
CHECK_DEADLOCK FALSE
