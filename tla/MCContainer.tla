------------------------------ MODULE MCContainer ------------------------------
(***************************************************************************)
(* Instances of Container for TLC.                                         *)
(***************************************************************************)
EXTENDS Container

\* Empty, one short record, a full record, two with a short last one, the
\* largest file, and one too large.
SomeTexts == {<<>>, <<1>>, <<1, 2>>, <<1, 2, 3>>, <<1, 2, 1, 2>>, <<1, 2, 3, 4, 5, 6>>,
              <<1, 2, 3, 4, 5, 6, 7>>}

=============================================================================
