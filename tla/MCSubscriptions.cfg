SPECIFICATION ReadersSpec
CONSTANTS
  Addresses = {a1, a2, a3, a4}
  MaxNumSubs = 3
  Descriptors = 4
  QueueSize = 1
INVARIANTS TypeOK UniqueAddresses
PROPERTIES KeepsPromise EndsOnSignal
