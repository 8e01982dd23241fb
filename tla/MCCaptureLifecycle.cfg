CONSTANTS
  MaxStarts = 2
  QueueSize = 2
  Faults = TRUE
SPECIFICATION CaptureSpec
INVARIANTS NoHandleLeaks OneOfEach StopIsComplete
PROPERTIES StoppedDiesOut
