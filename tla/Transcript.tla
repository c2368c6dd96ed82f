------------------------------- MODULE Transcript -------------------------------
(***************************************************************************)
(* What a remote terminal promises: each session writes an ever growing    *)
(* sequence of numbered outputs, and its view changes only by showing one  *)
(* output more, newer than all it shows, or by being replaced with a       *)
(* stretch of what was written.  Outputs may be left out, never shown      *)
(* twice, out of order, or in the view of another session.                 *)
(***************************************************************************)
EXTENDS Integers, Sequences

CONSTANTS
    Sessions,
    Outputs,  \* the numbers of outputs
    MaxText   \* outputs a view keeps

VARIABLES
    written,  \* what each session has put out
    view      \* what is shown of it

Runs(w) == {SubSeq(w, i, j) : i \in 1 .. Len(w) + 1, j \in 0 .. Len(w)}

\* The view keeps at most its last MaxText outputs.
Kept(t) == IF Len(t) > MaxText THEN SubSeq(t, Len(t) - MaxText + 1, Len(t))
           ELSE t

Init ==
    /\ written = [s \in Sessions |-> <<>>]
    /\ view = [s \in Sessions |-> <<>>]

Write(s, n) ==
    /\ \A i \in 1 .. Len(written[s]) : n > written[s][i]
    /\ written' = [written EXCEPT ![s] = Append(@, n)]
    /\ UNCHANGED view

Show(s, i) ==
    /\ \A j \in 1 .. Len(view[s]) : written[s][i] > view[s][j]
    /\ view' = [view EXCEPT ![s] = Kept(Append(@, written[s][i]))]
    /\ UNCHANGED written

Replace(s, run) ==
    /\ view' = [view EXCEPT ![s] = Kept(run)]
    /\ UNCHANGED written

Next ==
    \E s \in Sessions :
        \/ \E n \in Outputs : Write(s, n)
        \/ \E i \in 1 .. Len(written[s]) : Show(s, i)
        \/ \E run \in Runs(written[s]) : Replace(s, run)

Spec == Init /\ [][Next]_<<written, view>>
=============================================================================
