SPECIFICATION Spec
CONSTANTS
    Byte = {x, y}
    Zero = Zero
    Junk = Junk
    Foreign = Foreign
    MaxPush = 3
    MaxCap = 9
    Disciplined = TRUE
INVARIANTS
    InBounds
PROPERTY
    IsQueue
