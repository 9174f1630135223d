----------------------------- MODULE MCStartup ------------------------------
(***************************************************************************)
(* Instances of Startup: cclive is started with all short command lines    *)
(* and configuration files over options of every kind, on one URL; or with *)
(* no options, on all small inputs over two files that may name each       *)
(* other.                                                                  *)
(***************************************************************************)
EXTENDS Startup, SequencesExt

-----------------------------------------------------------------------------
(* Inputs.                                                                 *)

U1 == <<"http", "u1">>
U2 == <<"https", "u2">>
F1 == <<"file", "f1">>
F2 == <<"file", "f2">>
MCItems ==
  {U1, U2, F1, F2, <<"file", "far">>, <<"other", "x">>, <<"", "f1">>,
   <<"", "none">>}

Lists2 == {<<>>, <<U1>>, <<F2>>, <<U2, F1>>, <<U1, F2>>, <<F2, F2>>,
           <<U2, U1, U2>>, <<<<"other", "x">>>>, <<<<"", "f1">>>>}
MCFiles ==
  {[kind |-> "list", items |-> l] : l \in Lists2}
  \cup {[kind |-> k, items |-> <<>>] : k \in {"directory", "unreadable"}}
MCInputs ==
  [args : BoundedSeq(MCItems, 2), stdin : {<<>>},
   files : [{"f1", "f2"} -> MCFiles]]
  \cup [args : {<<>>}, stdin : {<<U1, U2, U1>>, <<F1, U1>>, <<<<"", "f1">>>>},
        files : [{"f1", "f2"} -> MCFiles]]

OneUrl == [args |-> <<U1>>, stdin |-> <<>>,
           files |-> [f \in {"f1", "f2"} |-> [kind |-> "unreadable",
                                             items |-> <<>>]]]

MCAllInputs == MCInputs \cup {OneUrl}

\* The files that x names, directly or not.
RECURSIVE Reached(_, _)
Reached(files, s) ==
  LET t == s \cup { g \in DOMAIN files : \E f \in s :
                      \E k \in 1 .. Len(files[f].items) :
                        files[f].items[k] = <<"file", g>> }
  IN  IF t = s THEN s ELSE Reached(files, t)
Direct(files, f) ==
  {g \in DOMAIN files : Contains(files[f].items, <<"file", g>>)}
Circular ==
  \E f \in DOMAIN input.files :
    f \in Reached(input.files, Direct(input.files, f))

\* Each process comes to its work on the URLs or to its end, and the stack is
\* used up by lists that contain themselves only.
StartsOrEnds ==
  /\ <>(front \in Ended \cup {"run"} /\ child \in Ended \cup {"none", "run"})
  /\ ~Circular => [](where # "crashed")

-----------------------------------------------------------------------------
(* Options.                                                                *)

MCOccurrences ==
  {<<"continue", On>>, <<"overwrite", On>>, <<"background", On>>,
   <<"exec", Text("a")>>, <<"exec", Text("b")>>,
   <<"max-retries", Num(0)>>, <<"max-retries", Num(-1)>>,
   <<"update-interval", Num(0)>>, <<"update-interval", Num(2)>>,
   <<"progressbar", Text("junk")>>, <<"throttle", Num(129)>>,
   <<"throttle", Text("junk")>>,
   <<"tr", Text("junk")>>, <<"help", On>>, <<"version", On>>,
   <<"support", On>>, <<"print-config", On>>,
   <<"config-file", Text("other")>>, <<"bogus", On>>}

MCAllOccurrences == MCOccurrences \cup {<<"max-retries", Num(7)>>}
MCCommandLines == BoundedSeq(MCOccurrences, 2)
MCConfigs ==
  {[kind |-> "absent", occurrences |-> <<>>]}
  \cup {[kind |-> "list", occurrences |-> s] :
          s \in BoundedSeq({<<"continue", On>>, <<"overwrite", On>>,
                            <<"exec", Text("a")>>, <<"exec", Text("b")>>,
                            <<"max-retries", Num(7)>>,
                            <<"update-interval", Num(0)>>,
                            <<"bogus", On>>}, 2)}

MCWorlds ==
  [argv : MCCommandLines, config : MCConfigs, input : {OneUrl}]
  \cup [argv : {<<<<"background", On>>>>},
        config : {[kind |-> "absent", occurrences |-> <<>>]}, input : MCInputs]
=============================================================================
