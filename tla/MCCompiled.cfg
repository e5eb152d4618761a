SPECIFICATION Spec
CONSTANTS
    Width = 8
    Rounds = 12
    Compiler <- Funcbody
    Meant <- Result
    Functions <- MCFunctions
    IntArguments <- MCInts
    Arguments <- MCArguments
CHECK_DEADLOCK FALSE
INVARIANTS SameResult DepthSuffices CodeRight
