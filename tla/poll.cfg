\* Three frames of any kind on either connection.
SPECIFICATION FairSpec
CONSTANTS
    Base = 4
    BufSize = 3
    Token = 2
    Answers <- MCAnswers
CHECK_DEADLOCK FALSE
INVARIANTS
    PollIsTruthful
PROPERTIES
    PollEnds
