SPECIFICATION FairSpec
INVARIANT StrandedByMiss
PROPERTY Reconnects
PROPERTY TimeClientStarts
