\* The user library: calls through its layers, its life in a process, its callbacks.
SPECIFICATION Spec
CONSTANTS
    Lists     <- MCLists
    Threads   <- MCThreads
    Addresses <- MCAddresses
    Servers   <- MCServers
    Plugged   <- MCPlugged
    Scripts   <- MCScripts
    None      = None
    Workers   <- MCWorkers
    SubOf     <- MCSubOf
    Free      = Free
INVARIANTS
    RemoteDoesTheSame
    EveryEntryIsReached
    ExtensionsDoTheSame
    TasksUseLiveContexts
    FilesFollowCount
    LockAllOrNothing
    AtMostOnceMore
PROPERTIES
    CallsReturn
    RemovedThreadsEnd
\* A process that has made its calls, and a call that has returned, are at their end.
CHECK_DEADLOCK FALSE
