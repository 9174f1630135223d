----------------------------- MODULE MCSharing ------------------------------
(***************************************************************************)
(* Two processes and two media of the same name.  The directory is empty,  *)
(* or holds the beginning of either media, or an error page, under that    *)
(* name or under that of --output-file.                                    *)
(***************************************************************************)
EXTENDS Sharing, TLC

CONSTANTS m1, m2, p1, p2

MCProcesses == {p1, p2}
MCSymmetry == Permutations(MCProcesses)

MCMedia == {m1, m2}
MCBaseName == m1 :> "name" @@ m2 :> "name"
MCLength == m1 :> 3 @@ m2 :> 2

Options(c, w, o) ==
  [output_file |-> o, overwrite |-> w, continue |-> c, no_download |-> FALSE,
   exec |-> FALSE, timestamp |-> FALSE, print_streams |-> FALSE,
   tr_fails |-> {}, prefer_fails |-> {}, max_retries |-> 1,
   throttle |-> 0, transfer_timeout |-> 0]

MCSettings == {Options(FALSE, FALSE, FALSE), Options(TRUE, FALSE, FALSE),
               Options(FALSE, TRUE, FALSE), Options(FALSE, FALSE, TRUE)}
MCJobs == [vm : MCSettings, media : MCMedia]

Bodies == {<<>>, <<<<m1, 1>>, <<m1, 2>>>>, <<<<m2, 1>>>>,
           <<<<Other, 1>>>>}
MCBeginnings ==
  {[x \in ThePaths |-> IF x[2] = 0 THEN b ELSE <<>>] : b \in Bodies}
=============================================================================
