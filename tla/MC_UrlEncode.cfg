CONSTANTS
    Chars = {"a", "=", "&", "+", "%", "4"}
    MaxLen = 5
SPECIFICATION Spec
\* parseFromUrlEncode returns after the loop: a finished parse has no step
CHECK_DEADLOCK FALSE
INVARIANTS
    TypeOK
    DecodesLikeGrammar
