SPECIFICATION FairSpec
CONSTANTS
    RecordJobs <- MCRecordJobs
    MintJobs <- MCMintJobs
    MailJobs <- MCMailJobs
    Registrations <- MCRegistrations
    Keys <- MCKeys
    key <- MCKey
    reachable = {"rec", "mint1", "mint2", "reg"}
    NoCall = NoCall
    Concurrency = 1
    MaxLoad = 2
    MaxEvents = 2
INVARIANTS TypeOK ReceiptsAreTrue MailsAreCounted
PROPERTY JobsSettle
CHECK_DEADLOCK FALSE
