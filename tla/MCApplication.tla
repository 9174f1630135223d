---------------------------- MODULE MCApplication ---------------------------
(***************************************************************************)
(* Instances of Application: two URLs whose media have the same title.     *)
(***************************************************************************)
EXTENDS Application

CONSTANTS m1, m2, other

MCMedia == {m1, m2}
MCMediaOf == <<m1, m2>>
MCBaseName == [m \in MCMedia |-> "title"]
MCStreamLength == [m \in MCMedia |-> 2]
MCContentLength == [m \in MCMedia |-> 2]

Plain == [output_file |-> FALSE, overwrite |-> FALSE, continue |-> FALSE,
          no_download |-> FALSE, exec |-> FALSE, timestamp |-> FALSE,
          print_streams |-> FALSE, tr_fails |-> {}, prefer_fails |-> {},
          max_retries |-> 1, throttle |-> 0, transfer_timeout |-> 1]

\* One command line per way of choosing and opening the file, with commands to
\* run or a limit on the time, and one per way of ending early
\* (the escapes are those of the second URL, when the first is settled).
MCSettings ==
  {Plain,
   [Plain EXCEPT !.continue = TRUE, !.exec = TRUE],
   [Plain EXCEPT !.overwrite = TRUE, !.timestamp = TRUE],
   [Plain EXCEPT !.output_file = TRUE, !.max_retries = 0],
   [Plain EXCEPT !.no_download = TRUE],
   [Plain EXCEPT !.print_streams = TRUE],
   [Plain EXCEPT !.tr_fails = {m2}],
   [Plain EXCEPT !.prefer_fails = {2}]}

\* The settings for liveness, and for the exit status.
LiveSettings == {[Plain EXCEPT !.exec = TRUE, !.transfer_timeout = t] : t \in {0, 1}}
PlainOnly == {Plain}
Throttled == {[Plain EXCEPT !.throttle = 1]}

Empty == [p \in Paths |-> <<>>]
MCInitialDisks ==
  {Empty, [Empty EXCEPT ![<<"title", 0>>] = <<<<other, 1>>>>]}
EmptyOnly == {Empty}
=============================================================================
