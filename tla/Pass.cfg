CONSTANTS
    n1 = n1  n2 = n2  n3 = n3  n4 = n4
    Nodes = {n1, n2, n3, n4}
    NoNode = NoNode
    Functions <- MCFunctions
SYMMETRY NodeSymmetry
SPECIFICATION PassSpec
INVARIANTS
    TypeOK
    DegreeExact
    PivotsBreakEveryCycle
    EveryPathOnce
    StatesBetweenBounds
PROPERTIES
    ImplementsSelection
    SelectionAdvances
