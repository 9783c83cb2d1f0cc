SPECIFICATION MCSpec
CONSTANT Word = 3
INVARIANT EveryStringReadsBack
