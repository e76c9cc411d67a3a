SPECIFICATION FairSpec
PROPERTY WaitEnds
