SPECIFICATION FairSpec
CONSTANT Threads = {1, 2, 3, 4, 5}
INVARIANT TypeOK
INVARIANT FirstReaderNeverWaits
PROPERTY ImplementsReadersWriters
PROPERTY WritersGetIn
