CONSTANTS
    Input <- MCInput
    Length <- MCLength
    Cuttings <- WholeOrAnywhere
SPECIFICATION Spec
INVARIANTS
    TypeOK
    NeverMisreads
PROPERTIES
    ImplementsChannel
