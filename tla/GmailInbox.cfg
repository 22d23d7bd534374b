\* Two messages, one of them no sure receipt and broken, two fetchers, one fault.
SPECIFICATION FairSpec
CONSTANTS
  Message = {m1, m2}
  Receipt = {m1}
  Poison = {}
  Fetcher = {f1, f2}
  NoFetcher = NoFetcher
  NoMessage = NoMessage
  MaxFaults = 1
  Broken = {m2}
  HistoryPage = 1
  NoCursor = NoCursor
INVARIANT TypeOK
INVARIANT SeenIsProcessed
INVARIANT NoLeakedLock
INVARIANT NoMailMissed
PROPERTY MailIsSeen
PROPERTY RouteSpec
