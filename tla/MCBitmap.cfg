SPECIFICATION Spec
CONSTANTS
    Bytes = 2
    Requests <- MCRequests
    Refused = Refused
    Done = Done
PROPERTY ImplementsPool
