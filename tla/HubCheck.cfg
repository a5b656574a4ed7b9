CONSTANTS
    Mrs = {1}
    Authors = {"bot", "person"}
    MaxNotes = 3
    MaxSteps = 3
SPECIFICATION FairSpec
INVARIANTS
    NoteStays
    ReviewRequestStays
PROPERTIES
    NewsToldOnce
    NoteIsTold
    AnsweredGoesAway
