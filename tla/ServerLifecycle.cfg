\* Three threads of a pool or of the user, two starts, bind may fail.
SPECIFICATION FairSpec
CONSTANTS
  Pool = {main, t1, t2}
  Main = main
  BindFails = TRUE
  MaxStarts = 2
  MaxConns = 2
INVARIANTS TypeOK KeepsAccepting AcceptsBounded ReturnsStopped
PROPERTY StopEnds
\* The owner starts the server no more than MaxStarts times.
CHECK_DEADLOCK FALSE
