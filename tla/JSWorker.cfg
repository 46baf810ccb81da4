\* Two messages each way, two objects that share the buffer, a script that may fail.
SPECIFICATION Spec
CONSTANTS
    MaxMessages = 2
    MaxOwn = 2
    MayFail = TRUE
INVARIANTS
    MessagesInOrder
    SharedUntilReleased
CHECK_DEADLOCK FALSE
