\* A connection lost once.
CONSTANTS
    Own <- MCOwn
SPECIFICATION Spec
INVARIANTS
    WillIsWill
