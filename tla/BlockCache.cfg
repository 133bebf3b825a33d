CONSTANTS
    Block = {0, 1, 2}
    Written = {0, 1}
    Entries = 2
    Sectors = 2
    Value = {0, 1}
    Tries = 2
    Between = 1
    MaxAge = 4
    Zero = 0
    Image <- MCImage
SPECIFICATION Spec
INVARIANTS  SyncIsDurable
PROPERTIES StoreSpec
