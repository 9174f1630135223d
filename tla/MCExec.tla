------------------------------- MODULE MCExec -------------------------------
(***************************************************************************)
(* All short titles, with the default --tr, none, and others; and lists of *)
(* commands with and without quotation marks.                              *)
(***************************************************************************)
EXTENDS Exec

MCTitles ==
  BoundedSeq({"t", "_", "q", "%", "\\"}, 3)
  \cup {<<"%", "f">>, <<"_", "%", "n">>, <<"t", "%", "n">>}

Filter(set, many, g) ==
  [kind |-> "filter", set |-> set, many |-> many, g |-> g]
Default == Filter(Word \cup Blank, FALSE, TRUE)
Subst(set, by, g) == [kind |-> "subst", set |-> set, by |-> by, g |-> g]

MCTrs ==
  {<<Default>>, <<>>, <<Filter(Word, FALSE, TRUE)>>,
   <<Filter(Word, TRUE, FALSE)>>, <<Filter(Word, TRUE, TRUE)>>,
   <<Subst({"t"}, <<"_", "q">>, FALSE), Default>>,
   <<Subst({"%", "_"}, <<"_">>, TRUE), Filter({"t"}, FALSE, FALSE)>>,
   <<Subst({"q", "\\"}, <<"_", "_">>, TRUE)>>}

MCFormat == <<"%", "t", "-", "p">>
MCOutputDir == <<"p", "-">>

\* c %f; c "%f" "%n"; "-%t" "%t"; and nothing but white space.
C1 == <<"p", "_", "%", "f">>
C2 == <<"p", "_", "q", "%", "f", "q", "_", "q", "%", "n", "q">>
C3 == <<"q", "-", "%", "t", "q", "_", "q", "%", "t", "q">>
C4 == <<"_">>
MCExecLists == {<<C3, C1, C2>>, <<C2, C4>>}
=============================================================================
