--------------------------- MODULE MCActionCards ---------------------------
(***************************************************************************)
(* Two prompts, so that one can replace the other under a response or a    *)
(* dismissal.                                                              *)
(***************************************************************************)
EXTENDS ActionCards
=============================================================================
