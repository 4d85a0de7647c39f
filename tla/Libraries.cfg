SPECIFICATION Spec
CONSTANTS
    VSA_WORDS = 16
    VSA_META = 2
    VSA_REQUESTS = {1, 9, 24}
    HOST_BITS = 3
    NET_BITS = 2
    AVL_DATA = {1, 2, 3, 4, 5, 6, 7, 8}
    FSA_CHUNK_SIZES = {1, 8, 13}
    NUM_CHUNKS = 4
    HT_KEYS = {0, 1, 2, 4}
    HT_TAGS = {1, 2}
    NUM_BUCKETS = 2
    CBUFF_CAPACITY = 2
    CBUFF_BYTES = {1, 2}
    CBUFF_CALL = 3
    SIZE_MODULUS = 8
    VECTOR_DATA = {1, 2}
    VECTOR_ROOM = {1, 2, 4}
    HEAP_DATA = {1, 2, 3, 4}
    HEAP_MAX = 5
    TS_TASKS = 3
    TS_INTERVALS = {0, 1}
    TS_TIME = 2
    BST_DATA = {1, 2, 3, 4, 5}
    SL_DATA = {1, 2}
    SL_NODES = {1, 2, 3, 4, 5, 6}
    DL_DATA = {1, 2}
    DL_NODES = {1, 2, 3, 4}
    SORT_VALUES = {7, 12, 17}
    SORT_NEGATED = {3}
    SORT_SIZE = 5
    CALC_NUMBERS = {"1", "2"}
    CALC_LENGTH = 7
    ROWS = 3
    COLUMNS = 4
    WORD = 8
    REC_CHARS = {1, 2, 3}
    REC_LENGTH = 4
    MAX_LINES = 4
    SORT_THREADS = 3
    MAX_REFUSED = 1
    BYTES = {1, 2, 3}
    MAX_BYTES = 5
    TEXTS = {1, 2}
    NUM_OF_DICTS = 2
    NUM_TO_SUM_DIVISERS = 20
    OBJECTS = {x, y, z}
    CHARS = {2, 3}
    TEXT_LENGTH = 1
    WORD_BYTES = 4
    MEMORY_SIZE = 14
    TEXT_CHARS = {32, 45, 49, 55, 65, 122}
    TEXT_MAX = 4
INVARIANTS
    AllocatorsAreSound
    StructuresAreSound
    AlgorithmsAreRight
    LogSurvives
    SharingIsUnseen
PROPERTIES
    DHCPImplementsPool
    CbuffImplementsByteQueue
    ContentsFollowCalls
CHECK_DEADLOCK FALSE
