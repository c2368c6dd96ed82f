SPECIFICATION FairSpec
CONSTANTS
    Menus = {m}
    Lines = {q, a}
    Questions = {q}
    NOptions = 2
    MaxPrompts = 2
    TypedKeys = {"enter"}
    MaxAsked = 2
    MaxReplies = 2
    MaxTyped = 1
INVARIANTS
    TypeOK
    EventsTellActive
    RepliesOnce
    SettledAgree
    AnswersTaken
PROPERTIES
    AnswerCloses
    QuietPromptIsOffered
CHECK_DEADLOCK FALSE
