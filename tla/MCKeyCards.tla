------------------------------ MODULE MCKeyCards ------------------------------
(***************************************************************************)
(* Instances of KeyCards for TLC: two visual keys and an optical card, so  *)
(* that one card can be selected while another is made, copied or replaced. *)
(***************************************************************************)
EXTENDS KeyCards

CONSTANTS a, b, pdf

ThreePaths == {a, b, pdf}
TwoPaths == {a, b}
OnlyA == {a}
BAndPdf == {b, pdf}
OnePdf == {pdf}
NoPaths == {}
AllCapsules == [id : Numbers, master : Numbers, secret : {None} \cup Numbers]

=============================================================================
