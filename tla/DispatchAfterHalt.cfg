SPECIFICATION Spec
CONSTANTS
    o1 = o1
    o2 = o2
    Orders <- OneOrder
    Adapters = {"mock", "real"}
    MaxRetries = 2
    PostRetries = 2
PROPERTY
    HaltStopsSending
CHECK_DEADLOCK FALSE
