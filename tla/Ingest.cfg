\* Three selections race for two gate slots, two queue slots and four bytes:
\* two payloads of size 2 fill the budget, a third waits, size 5 never fits.
CONSTANTS
    Selections = {s1, s2, s3}
    MaxReaders = 2
    QueueCapacity = 2
    BudgetLimit = 4
    PayloadSizes = {2, 5}
    None = None
SPECIFICATION FairSpec
INVARIANTS TypeOK PermitsExact SpoolFilesOwned QueueFaithful
PROPERTY DrainedPayloadsSettle
