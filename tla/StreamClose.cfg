\* One sender besides the read loop, and a connection that holds one packet; two packets out and one in.
SPECIFICATION FairStreamSpec
CONSTANTS
  Senders = {x1}
  Buffer = 1
  MaxSends = 2
  MaxArrivals = 1
CHECK_DEADLOCK FALSE
PROPERTY
  CloseStopsTheClient
