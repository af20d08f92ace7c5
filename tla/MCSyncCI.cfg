SPECIFICATION FairSpec
CONSTANT MaxCommit = 4
INVARIANTS NewestNotLost QueueOrdered
PROPERTIES TestedInOrder HeadEventuallyTested
