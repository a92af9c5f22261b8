SPECIFICATION Spec
CONSTANTS
    Chars <- MCChars
    Width <- MCWidth
    Letters <- MCLetters
    MaxTyped = 4
INVARIANT TypeOK
INVARIANT ComesBack
INVARIANT PairLimit
 
INVARIANT OnlyCardNumbers
INVARIANT TyposRefused
CHECK_DEADLOCK FALSE
