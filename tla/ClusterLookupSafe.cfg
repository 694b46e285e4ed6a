\* One name in two namespaces, two clusters each in turn.
CONSTANTS
    Spaces = {default, other}
    Default = default
    Names = {myaws}
    MaxLives = 2
SPECIFICATION Spec
INVARIANTS
    TypeOK
    NotOfASuccessor
