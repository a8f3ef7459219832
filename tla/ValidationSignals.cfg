SPECIFICATION Spec
CONSTANTS
    t1 = t1
    t2 = t2
    validator = validator
    owner = owner
    main = main
    Threads = {t1, t2}
    Clients = {validator, owner, main}
    Events <- MCEvents
    NoEvent = NoEvent
    Permanent = Permanent
    Temporary = Temporary
    Nobody = Nobody
    QueueLimit = 0
    MaxBlocks = 2
    MaxEntries = 2
CHECK_DEADLOCK FALSE
INVARIANTS NotStranded CountsExact DeliveredInOrder QuietAfterSync
PROPERTIES ImplementsQueue ShutdownCompletes
