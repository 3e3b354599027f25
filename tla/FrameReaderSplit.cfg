CONSTANTS
    Input <- MCInput
    Length <- MCLength
    Cuttings <- OnlyApart
SPECIFICATION Spec
INVARIANTS ReadsCompleteFrames
