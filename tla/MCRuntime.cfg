CONSTANT MaxConns = 3
SPECIFICATION FairRuntimeSpec
INVARIANTS RuntimeTypeOK ConnectionIsRead
PROPERTIES StoppedIsFinal Reconnects ActiveIsHonest
CHECK_DEADLOCK FALSE
