\* Is an accept started only while the io_service runs?
SPECIFICATION Spec
CONSTANTS
  Pool = {main, t1}
  Main = main
  BindFails = FALSE
  MaxStarts = 1
  MaxConns = 2
PROPERTY AcceptsWhileRunning
\* The owner starts the server no more than MaxStarts times.
CHECK_DEADLOCK FALSE
