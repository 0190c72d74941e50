CONSTANTS
    Principals = {0, 1}
    MaxBlock = 2
    BlockBytes = 4
SPECIFICATION Spec
INVARIANTS TypeOK GetterAnswersPrincipal
