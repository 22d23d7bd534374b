\* A message arrives between the listing of a backfill and the probe; no fault.
SPECIFICATION Spec
CONSTANTS
  Message = {m1, m2}
  Receipt = {m1, m2}
  Poison = {}
  Fetcher = {f1}
  NoFetcher = NoFetcher
  NoMessage = NoMessage
  MaxFaults = 0
  Broken = {}
  HistoryPage = 2
  NoCursor = NoCursor
INVARIANT BackfillCovers
