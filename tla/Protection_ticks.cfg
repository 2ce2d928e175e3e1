\* The scheduler ticks beside the WebSocket, which knows one of two symbols.
\* FairSpec is Spec with fairness.
SPECIFICATION FairSpec
CONSTANTS
  K = 2
  Tickers = {scheduler}
  scheduler = scheduler
  Guarded = {scheduler}
  Sockets = {socket}
  socket = socket
  Subscribed = {1}
PROPERTIES SnapshotDelivered AdverseIsJudged
