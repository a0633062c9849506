\* Data that looks like the end of a line and like the line of a chunk.
SPECIFICATION FairSpec
CONSTANTS
  Symbols = {"1", "CR", "LF"}
  Framings = {"length", "chunked", "close"}
  MaxChunks = 2
  MaxChunkSize = 2
INVARIANTS
  TypeOK
  BodyDelivered
PROPERTY Finishes
\* The reader stops when the response is there.
CHECK_DEADLOCK FALSE
