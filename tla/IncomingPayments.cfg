\* Two runs, so that reports of an earlier one are among those a fetch finds, and two
\* fetches, so that the second may replace the files of the first. Two reports, each on all
\* that was booked since the last, are what it takes to find everything, and two of one
\* kind reach the limit of downloads.
SPECIFICATION Spec
CONSTANTS
    qr = qr
    non = non
    Nothing = Nothing
    Payments = {qr, non}
    Product <- MCProduct
    Amount <- MCAmount
    MaxRuns = 2
    MaxFetches = 2
    MaxReports = 2
    MaxDownloads = 2
    Bookings <- MCBookings
    Unreadable = {"statement"}
INVARIANTS
    IncomingInvariant
    ConsumedWasRead
PROPERTIES
    FoundMeansReported
    NothingHidden
\* The last run may be over and everything fetched.
CHECK_DEADLOCK FALSE
