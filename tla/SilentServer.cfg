CONSTANTS
    Calls <- TwoCalls
    Faults <- Chatter
    StdoutCapacity = 2
    StderrCapacity = 1
SPECIFICATION FairSpec
\* The system does stop here: probe and server wait for each other.
CHECK_DEADLOCK FALSE
PROPERTY GivesUpAtTheDeadline
