SPECIFICATION Spec
CONSTANTS
    a = a
    b = b
    s1 = s1
    s2 = s2
    Root = Root
    Ids = {a, b, Root}
    Groups = {"backlog"}
    Sessions = {s1, s2}
SYMMETRY Symmetry
INVARIANTS
    TypeOK
    Forests
PROPERTIES
    OneTree
