\* One session with two prompts, seen from the inbox and from its screen.
SPECIFICATION CardsSpec
CONSTANTS
  MaxPrompts = 2
  MaxEvents = 3
INVARIANTS
  CardsTypeOK
  OneAnswerPerShowing
  SubmittingIsSettled
  UndismissedIsShown
  OwnUnlessInFlight
\* The program may exit and every bound be reached.
CHECK_DEADLOCK FALSE
