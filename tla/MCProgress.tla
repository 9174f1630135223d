----------------------------- MODULE MCProgress -----------------------------
(***************************************************************************)
(* Instances of Progress: a terminal of 10 or 12 columns, or none, and     *)
(* texts that leave two columns or one, none, or do not fit.               *)
(***************************************************************************)
EXTENDS Progress

MCWidths == {0, 10, 12}
MCTextLengths == {9, 10, 11}
=============================================================================
