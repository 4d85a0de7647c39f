SPECIFICATION ProgramsSpec
CONSTANTS
    MESSAGE_COUNT = 3
    NUM_PRODUCERS = 2
    NUM_CONSUMERS = 3
    QUEUE_CAPACITY = 2
    MAX_MISSED_HEARTBEATS = 3
    KILLS = 2
    CLIENTS = {a, b}
    MESSAGES = 2
    NUM_OF_THREADS = 2
    ROUNDS = 3
INVARIANTS
    MessagesAreConsumed
    BuffersAreRespected
    OnlyTheSilentAreRevived
    ServerIsNotHeldUp
    TurnsAreTaken
PROPERTIES
    Ex5ImplementsQueue
    ProgramsReturn
CHECK_DEADLOCK FALSE
