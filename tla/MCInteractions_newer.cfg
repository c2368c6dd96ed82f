SPECIFICATION Spec
CONSTANTS
    Menus = {m}
    Lines = {q, a}
    Questions = {q}
    NOptions = 2
    MaxPrompts = 2
    TypedKeys = {}
    MaxAsked = 2
    MaxReplies = 1
    MaxTyped = 0
INVARIANT NeverToNewerPrompt
CHECK_DEADLOCK FALSE
