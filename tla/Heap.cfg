CONSTANTS
    PAGE_SIZE = 12
    ArenaHeader = 2
    BlockHeader = 2
    HEAP_ALIGNMENT = 2
    SIZE_MAX = 40
    Page = {1, 2, 3}
    Size <- MCSize
SPECIFICATION Spec
INVARIANTS BlocksTile AllocationsApart HeapIsTight FreshArenaFits
