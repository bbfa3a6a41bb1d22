\* Requests of the loop, of a hook and of a binding goroutine meet at the service.
CONSTANTS
    loop = loop
    binder = binder
    hook = hook
    pods = pods
    service = service
    watcher = watcher
    NoHandle = NoHandle
    Callers = {loop, binder, hook, pods}
    Remote = {loop, binder, hook}
    Notifiers = {hook}
    Processes = {service, watcher}
    ServedBy <- Served
    After <- Decided
    Calls <- Once
    MaxFaults = 0
SPECIFICATION Spec
\* When all records are written nothing is left to do.
CHECK_DEADLOCK FALSE
INVARIANTS
    EveryRecordKept
