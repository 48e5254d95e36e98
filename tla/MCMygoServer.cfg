CONSTANTS
    Client = Client
    Addrs = {h1, h2}
    None = None
SPECIFICATION FairSpec
INVARIANTS AnswerIsOwn ProcessSurvives
PROPERTY ClientAnswered
CHECK_DEADLOCK FALSE
