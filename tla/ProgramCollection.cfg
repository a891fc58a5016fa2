\* Numbers: the one that makes the minimal identifier, another, and one that is
\* too large.   Two addresses, to be registered anew at the other, and
\* two threads that both hold a copy.
SPECIFICATION CollectionSpec
CONSTANTS
  Numbers = {0, 1, 16777216}
  Addresses = {a1, a2}
  NoAddress = NoAddress
  Threads = {t1, t2}
INVARIANTS
  CollectionTypeOK
  RecordIsOfOneProgram
  AddressIsWhole
  PortIsNewest
PROPERTIES
  ImplementsRecords
