SPECIFICATION ConnectionSpec
CONSTANTS
 Sockets = {s1, s2}
 NoSocket = NoSocket
PROPERTY ReconnectedInTime
CHECK_DEADLOCK FALSE
