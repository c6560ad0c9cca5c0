\* Two pushes at once, batches of two, three events, one row that changes and grows old.
SPECIFICATION FairSpec
CONSTANTS
  r1 = r1
  p1 = p1
  p2 = p2
  Row = {r1}
  Push = {p1, p2}
  BatchSize = 2
  MaxRows = 2
  MaxEvents = 3
  MaxVersion = 2
PROPERTIES
  FeedPromise
  EventsArrive
  RowsConverge
