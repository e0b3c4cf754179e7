CONSTANTS
    Isbns = {12345, 12346, 12347, 12348}
    Names <- MCNames
    Publishers <- MCPublishers
    Reviews <- MCReviews
    NoBook = NoBook
    EmptyString = ""
    c1 = c1
    c2 = c2
    Clients <- MCClients
    Crews <- MCCrews
    MaxFaults = 1
    Nil = Nil

SPECIFICATION Spec

INVARIANTS
    TypeOK
    VerifiedMeansFreshRow
    LeftoverIsUnfinished
    EveryCallIsLogged
PROPERTY
    EveryRunEnds

\* The clients finish.
CHECK_DEADLOCK FALSE
