------------------------------- MODULE MCGet --------------------------------
(***************************************************************************)
(* Instances of Get: two media whose titles give the same file name, one   *)
(* of them of unknown length, and an output directory that is empty, or    *)
(* holds the start of a media or of something else.                        *)
(***************************************************************************)
EXTENDS Get

CONSTANTS m1, m2, other

MCMedia == {m1, m2}
MCBaseName == [m \in MCMedia |-> "title"]
MCStreamLength == [m \in MCMedia |-> 2]
MCContentLength == [m \in MCMedia |-> IF m = m1 THEN 2 ELSE 0]

\* The command lines of one download: everything but the switches that only
\* matter to the application.
MCSettings ==
  { s \in [output_file : BOOLEAN, overwrite : BOOLEAN, continue : BOOLEAN,
           no_download : BOOLEAN, exec : BOOLEAN, timestamp : BOOLEAN,
           print_streams : {FALSE}, tr_fails : {{}, {m2}},
           prefer_fails : {{}}, max_retries : {0, 1}, throttle : {0, 1},
           transfer_timeout : {0, 1}] :
      /\ s.no_download => ~s.timestamp
      /\ s.throttle = s.transfer_timeout
      /\ s.timestamp = s.exec
      /\ s.tr_fails # {} => s.max_retries = 0 /\ ~s.no_download }

\* Settings that show one thing each.
Plain == [output_file |-> FALSE, overwrite |-> FALSE, continue |-> FALSE,
          no_download |-> FALSE, exec |-> TRUE, timestamp |-> FALSE,
          print_streams |-> FALSE, tr_fails |-> {}, prefer_fails |-> {},
          max_retries |-> 1, throttle |-> 1, transfer_timeout |-> 0]
PlainOnly == {Plain}

Empty == [p \in Paths |-> <<>>]
MCInitialDisks ==
  {Empty} \cup { [Empty EXCEPT ![<<n, 0>>] = <<<<s, 1>>>>] :
                 n \in Names, s \in {m1, other} }
EmptyOnly == {Empty}
=============================================================================
