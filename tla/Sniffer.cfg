\* Three clients share the service's logger, the watcher has its own; two faults.
CONSTANTS
    loop = loop
    binder = binder
    hook = hook
    pods = pods
    service = service
    watcher = watcher
    NoHandle = NoHandle
    Callers = {loop, binder, hook, pods}
    Remote = {loop, binder, hook}
    Notifiers = {hook}
    Processes = {service, watcher}
    ServedBy <- Served
    After <- Decided
    Calls <- Once
    MaxFaults = 2
SPECIFICATION Spec
\* When all records are written nothing is left to do.
CHECK_DEADLOCK FALSE
INVARIANTS
    TypeOK
    DecisionPrecedesBinding
PROPERTIES
    KeepsPromise
    EveryCallReturns
