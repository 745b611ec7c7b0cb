CONSTANTS
    Value = {0, 1}
    Zero = 0
    Geometry <- Geometries
    CountMod = 7
    NULL = NULL
    MaxHeap = 2
SPECIFICATION Spec
INVARIANTS CountsAgree
PROPERTIES ImplementsFifo LostOnlyInFailure
