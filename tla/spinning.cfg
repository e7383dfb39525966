\* A status whose length takes three bytes.
SPECIFICATION FairSpec
CONSTANTS
    Base = 4
    BufSize = 3
    Token = 2
    Answers <- LongAnswers
CHECK_DEADLOCK FALSE
PROPERTIES
    PollEnds
