------------------------- MODULE MCReferencePipeline -------------------------
(***************************************************************************)
(* Small instances of ReferencePipeline for TLC.                            *)
(***************************************************************************)
EXTENDS ReferencePipeline

P(host, paused, default) == [host |-> host, paused |-> paused, default |-> default]

\* Modules and nodes under a clock that runs.
Clocked == {P("module", FALSE, FALSE), P("node", FALSE, FALSE)}

\* A module with a default request.
Defaulted == {P("module", FALSE, TRUE)}

\* A module under a clock that can stand still.
Paused == {P("module", TRUE, FALSE)}

OneLife == {2}

C(fatal, ordered, finite, points, times) ==
  [fatal |-> fatal, ordered |-> ordered, finite |-> finite, points |-> points, times |-> times]

\* What is good, and everything that can be wrong with it.
Said == {C(FALSE, TRUE, TRUE, 2, 0), C(FALSE, TRUE, TRUE, 2, 1), C(TRUE, TRUE, TRUE, 2, 0),
         C(FALSE, FALSE, TRUE, 2, 0), C(FALSE, TRUE, FALSE, 1, 0), C(FALSE, TRUE, TRUE, 2, 2),
         C(FALSE, TRUE, TRUE, 4, 3)}

=============================================================================
