SPECIFICATION Spec
CONSTANTS
    MaxPrompt = 3
    MaxContent = 4
INVARIANTS
    TypeOK
    PromptArrives
    
CHECK_DEADLOCK FALSE
