\* A line can fill the buffer.
CONSTANT MaxLine = 4
SPECIFICATION Spec
INVARIANT EchoIsMessage
CHECK_DEADLOCK FALSE
