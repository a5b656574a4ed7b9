CONSTANTS
    Me = Me
    Other = Other
    None = None
    t1 = t1
    t2 = t2
    Threads = {t1, t2}
    PageOf <- OnePageEach
    Watches <- AllEvents
    Budgets <- TalkMoveOrKill
SPECIFICATION FairSpec
INVARIANTS
    CommentsToldOnce
    StaysUntilAnswered
    OthersThreadsStayOut
    ConflictsToldOnce
    
PROPERTIES
    AnsweredGoesAway
CHECK_DEADLOCK FALSE
