CONSTANTS
    Own <- MCOwn
SPECIFICATION Spec
INVARIANTS
    AloneIsWhole
    HearsServer
    NeverDeclaredGone
