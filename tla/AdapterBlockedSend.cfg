SPECIFICATION FairSpec
CONSTANT
    MaxLines = 2
PROPERTY
    DeathEndsProducer
CHECK_DEADLOCK FALSE
