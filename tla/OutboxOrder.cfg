SPECIFICATION Spec
CONSTANTS
  Messages = {1, 2, 3, 4}
  Aggregates = {{1, 2}, {3, 4}}
  Relays = {r1, r2}
  NoRelay = NoRelay
  BatchSize = 2
  MaxFaults = 0
PROPERTIES
  OrderedWithinAggregate
