\* Three files, one of them poison, two fetchers, two faults.
SPECIFICATION FairSpec
CONSTANTS
  Message = {m1, m2, m3}
  Receipt = {m1, m2, m3}
  Poison = {m2}
  Fetcher = {f1, f2}
  NoFetcher = NoFetcher
  NoMessage = NoMessage
  MaxFaults = 2
INVARIANT TypeOK
INVARIANT OneItemPerMessage
INVARIANT MovedIsProcessed
PROPERTY FilesAreSeen
