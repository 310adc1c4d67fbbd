\* Two handlers and the inline worker of one gateway.
SPECIFICATION Spec
CONSTANTS
  Gateway = gateway
  Processes = {gateway}
  Handlers = {h1, h2}
  Agents = {a}
  Threads <- Callers
  Home <- InGateway
  Tools = {t1}
  MaxConnections = 2
  MaxChanges = 1
INVARIANTS NothingLeaks FailedStaysDropped 
SYMMETRY Symmetry
