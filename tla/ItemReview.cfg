SPECIFICATION Spec
CONSTANTS
    v = v
    w = w
    office = office
    software = software
    income = income
    ignore = ignore
    payout = payout
    NoValue = NoValue
    Unreadable = Unreadable
    NoConfidence = NoConfidence
    Vendor = {v, w}
    Day <- MCDay
    Amount <- MCAmount
    Category <- MCCategory
    Rank <- MCRank
    Keyword <- MCKeyword
    KeywordsOf <- MCKeywordsOf
    IncomeCategory = income
    IncomeWords = {payout}
    InjectionWords = {ignore}
    VendorWords <- MCVendorWords
    Source <- MCSource
    Reply <- MCReply
    Answer <- MCAnswer
    Ledger <- MCLedger
    Updates <- MCUpdates
    Pin <- MCPin
    MaxRequests = 4
INVARIANTS TypeOK FiledIsSure FiledRowHasAuthor CorrectionsAreCounted SpoofedIsHeld DuplicateIsReviewed HubAgrees
PROPERTIES UnreadableStays
CHECK_DEADLOCK FALSE
