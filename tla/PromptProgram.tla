----------------------------- MODULE PromptProgram -----------------------------
(***************************************************************************)
(* A command line program in the pty of a session, as the daemon meets it: *)
(* it shows prompts, reads the keys written to the pty, and exits.         *)
(*                                                                         *)
(* Two kinds of prompt are told apart, by how they are answered.  A menu   *)
(* moves its cursor with arrow keys and is closed by Enter, which takes    *)
(* the option under the cursor (interactions.py, detect_screen_prompt).    *)
(* All others, approvals, numbered lists and questions, take a line of     *)
(* text, which is echoed behind them, and are closed by Enter              *)
(* (detect_prompt).                                                        *)
(*                                                                         *)
(* The program is no part of the repository.  A key carries who sent it,   *)
(* the interaction it answers or Terminal, for the properties only.        *)
(***************************************************************************)
EXTENDS Integers, Sequences

CONSTANTS
    Menus, Lines,  \* what a prompt says: its text and options, by kind
    NOptions,      \* options of a menu
    MaxPrompts     \* bound: prompts over the life of the program

ASSUME ProgramAssumption ==
    /\ Menus \cap Lines = {}
    /\ NOptions \in Nat \ {0}
    /\ MaxPrompts \in Nat

VARIABLES
    screen,   \* the prompt on the screen, or NoPrompt
    keys,     \* history: the keys the prompt on the screen has read
    prompts,  \* prompts shown so far
    taken,    \* history: the prompts that were closed by an Enter
    input,    \* keys in the pty that the program has not read
    dirty,    \* there is output in the pty that the daemon has not read
    alive     \* the program has not exited

programVars == <<screen, keys, prompts, taken, input, dirty, alive>>

Signatures == Menus \cup Lines
OptionIds == 1 .. NOptions
Terminal == 0  \* typed at a terminal, not the answer to an interaction
Key == [key : {"up", "down", "enter", "text"}, from : Nat]
\* n numbers the prompts, so that two that say the same can be told apart; echo
\* counts the texts echoed on the line of a prompt.
Prompt == [n : Nat \ {0}, sig : Signatures, cursor : OptionIds, echo : Nat]
NoPrompt == [n |-> 0]
Taken == [prompt : Prompt, keys : Seq(Key)]

ProgramTypeOK ==
    /\ screen \in Prompt \cup {NoPrompt}
    /\ keys \in Seq(Key)
    /\ prompts \in Nat
    /\ taken \in Seq(Taken)
    /\ input \in Seq(Key)
    /\ dirty \in BOOLEAN /\ alive \in BOOLEAN

ProgramInit ==
    /\ screen = NoPrompt
    /\ keys = <<>>
    /\ prompts = 0
    /\ taken = <<>>
    /\ input = <<>>
    /\ dirty = FALSE
    /\ alive = TRUE

IsMenu(p) == p # NoPrompt /\ p.sig \in Menus
-----------------------------------------------------------------------------
\* A menu opens with its cursor on any of its options.
ShowPrompt(sig, c) ==
    /\ alive /\ screen = NoPrompt /\ prompts < MaxPrompts
    /\ sig \in Menus \/ c = 1
    /\ prompts' = prompts + 1
    /\ screen' = [n |-> prompts + 1, sig |-> sig, cursor |-> c, echo |-> 0]
    /\ dirty' = TRUE
    /\ UNCHANGED <<keys, taken, input, alive>>

\* The program goes on without an answer.
Withdraw ==
    /\ alive /\ screen # NoPrompt
    /\ screen' = NoPrompt
    /\ keys' = <<>>
    /\ dirty' = TRUE
    /\ UNCHANGED <<prompts, taken, input, alive>>

\* Output that changes no prompt: a spinner, a redraw after a resize.
Redraw ==
    /\ alive
    /\ dirty' = TRUE
    /\ UNCHANGED <<screen, keys, prompts, taken, input, alive>>

\* What a key other than Enter does to a prompt.
Moved(p, key) ==
    IF ~IsMenu(p)
    THEN [p EXCEPT !.echo = IF key = "text" THEN @ + 1 ELSE @]
    ELSE IF key = "down" /\ p.cursor < NOptions
    THEN [p EXCEPT !.cursor = @ + 1]
    ELSE IF key = "up" /\ p.cursor > 1 THEN [p EXCEPT !.cursor = @ - 1]
    ELSE p

\* The prompt on the screen reads a key.
ReadKey ==
    /\ alive /\ screen # NoPrompt /\ input # <<>>
    /\ input' = Tail(input)
    /\ dirty' = TRUE
    /\ \/ /\ Head(input).key = "enter"
          /\ screen' = NoPrompt
          /\ keys' = <<>>
          /\ taken' = Append(taken, [prompt |-> screen,
                                    keys |-> Append(keys, Head(input))])
       \/ /\ Head(input).key # "enter"
          /\ keys' = Append(keys, Head(input))
          /\ screen' = Moved(screen, Head(input).key)
          /\ UNCHANGED taken
    /\ UNCHANGED <<prompts, alive>>

\* Without a prompt a program may read and ignore keys, or leave them to the
\* next prompt.
DropKey ==
    /\ alive /\ screen = NoPrompt /\ input # <<>>
    /\ input' = Tail(input)
    /\ UNCHANGED <<screen, keys, prompts, taken, dirty, alive>>

\* Whatever is in the pty for it is lost; its own last output is not.
Quit ==
    /\ alive
    /\ alive' = FALSE
    /\ input' = <<>>
    /\ screen' = NoPrompt
    /\ keys' = <<>>
    /\ UNCHANGED <<prompts, taken, dirty>>

ProgramNext ==
    \/ \E sig \in Signatures, c \in OptionIds : ShowPrompt(sig, c)
    \/ Withdraw \/ Redraw \/ ReadKey \/ DropKey \/ Quit
=============================================================================
