\* Two programs of one or two parents: enough for a wait to meet the exit of another.
CONSTANTS
    Tid = {main, a, b}
    Main = main
    Statuses = {5, 7}
    None = None
SPECIFICATION Spec
INVARIANT WaitReturnsStatus
CHECK_DEADLOCK FALSE
