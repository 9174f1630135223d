----------------------------- MODULE Application ----------------------------
(***************************************************************************)
(* cc::application::exec and main: the batch of input URLs.  For each URL  *)
(* libquvi is asked for the media (query::parse) and cc::get, which this   *)
(* module takes step by step from Get, retrieves it; the exceptions of     *)
(* both end in one of two catch clauses, or end the batch.  The signal     *)
(* handlers are in place from just before the first URL to the return.     *)
(*                                                                         *)
(* query::parse never fails with an error that can be retried: what it     *)
(* throws always carries a code other than QUVI_OK, so cannot_retry() is   *)
(* true and the loop around it in exec runs once.                          *)
(***************************************************************************)
EXTENDS Get, FiniteSets

CONSTANTS
  N,           \* the number of input URLs (no_input is thrown if none)
  MediaOf,     \* [1 .. N -> Media]: what the URLs name
  MaxSignals   \* bound on the number of SIGUSR1 sent

ASSUME ApplicationAssumption ==
  /\ N \in Nat \ {0}
  /\ MediaOf \in [1 .. N -> Media]
  /\ MaxSignals \in Nat

VARIABLES
  at,           \* where exec is: start, streams, next, parse, get, main, exited
  i,            \* exec's count of URLs (0 before the first)
  es,           \* the exit status so far
  exit,         \* running, the exit status (ok, error), or killed
  inherited,    \* what SIGUSR1 did when cclive was started; never changes
  disposition,  \* what SIGUSR1 does now: default (kill), ignored, ours
  sent,         \* the number of SIGUSR1 sent
  outcome,      \* history: what became of each URL
  aimed         \* history: the URLs that were up when a SIGUSR1 was sent

ownvars == <<at, i, es, exit, inherited, disposition, sent, outcome, aimed>>
appvars == <<vars, ownvars>>

Outcomes == {"pending", "done", "shown", "skipped", "exhausted", "failed"}

AppInit ==
  /\ Init
  /\ media = MediaOf[1]
  /\ at = "start"
  /\ i = 0
  /\ es = "ok"
  /\ exit = "running"
  /\ inherited \in {"default", "ignored"}
  /\ disposition = inherited
  /\ sent = 0
  /\ outcome = [k \in 1 .. N |-> "pending"]
  /\ aimed = {}

\* URL i is settled with outcome r, and the next one is up.
Settle(r, status) ==
  /\ outcome' = [outcome EXCEPT ![i] = r]
  /\ es' = status
  /\ i' = i + 1

-----------------------------------------------------------------------------
(* --print-streams, before any handler is installed.                       *)

PrintStreams ==
  /\ at = "start" /\ vm.print_streams
  /\ at' = "streams"
  /\ i' = 1
  /\ UNCHANGED <<vars, es, exit, inherited, disposition, sent, outcome, aimed>>

StreamsFound ==
  /\ at = "streams" /\ i <= N
  /\ SetupCurl
  /\ Settle("shown", "ok")
  /\ UNCHANGED <<at, exit, inherited, disposition, sent, aimed>>

\* The first error is the end of it.
StreamsFail ==
  /\ at = "streams" /\ i <= N
  /\ SetupCurl
  /\ Settle("failed", "error")
  /\ at' = "main"
  /\ UNCHANGED <<exit, inherited, disposition, sent, aimed>>

StreamsDone ==
  /\ at = "streams" /\ i > N
  /\ at' = "main"
  /\ UNCHANGED <<vars, i, es, exit, inherited, disposition, sent, outcome,
                 aimed>>

-----------------------------------------------------------------------------
(* The batch.                                                              *)

\* Mutation: no handler is installed.
InstallHandlers_Not ==
  /\ at = "start" /\ ~vm.print_streams
  /\ at' = "next"
  /\ i' = 1
  /\ UNCHANGED <<vars, es, exit, inherited, disposition, sent, outcome, aimed>>

\* sighandler::setup: an inherited SIG_IGN is left alone.
InstallHandlers ==
  /\ at = "start" /\ ~vm.print_streams
  /\ disposition' = IF disposition = "ignored" THEN "ignored" ELSE "ours"
  /\ at' = "next"
  /\ i' = 1
  /\ UNCHANGED <<vars, es, exit, inherited, sent, outcome, aimed>>

\* exec is left, and with it the scope of the handlers (sighandler::reset).
LeaveExec(status) ==
  /\ at' = "main"
  /\ es' = status
  /\ disposition' = inherited

\* parse_prefer_format throws cc::error::tuple, at the first URL that gets to a
\* bad pattern.
PreferEscapes ==
  /\ at = "next" /\ i <= N
  /\ i \in vm.prefer_fails
  /\ LeaveExec("error")
  /\ UNCHANGED <<vars, i, exit, inherited, sent, outcome, aimed>>

\* set_stream and setup_curl.
Setup ==
  /\ at = "next" /\ i <= N
  /\ i \notin vm.prefer_fails
  /\ SetupCurl
  /\ at' = "parse"
  /\ UNCHANGED <<i, es, exit, inherited, disposition, sent, outcome, aimed>>

Parse ==
  /\ at = "parse"
  /\ Call(MediaOf[i])
  /\ at' = "get"
  /\ UNCHANGED <<i, es, exit, inherited, disposition, sent, outcome, aimed>>

ParseFails ==
  /\ at = "parse"
  /\ Settle("failed", "error")
  /\ at' = "next"
  /\ UNCHANGED <<vars, exit, inherited, disposition, sent, aimed>>

GetStep ==
  /\ at = "get"
  /\ Attempt \/ Transfer \/ Verdict
  /\ UNCHANGED ownvars

\* What a return of cc::get stands for; exec does not know.
Returned ==
  CASE vm.no_download -> "shown"
    [] xfer.rc = CURLE_ABORTED_BY_CALLBACK -> "skipped"
    [] Failed /\ xfer.rc # CURLE_ABORTED_BY_CALLBACK /\ ~vm.no_download ->
         "exhausted"
    [] OTHER -> "done"

GetReturns ==
  /\ at = "get" /\ pc = "returned"
  /\ Leave
  /\ Settle(Returned, "ok")
  /\ at' = "next"
  /\ UNCHANGED <<exit, inherited, disposition, sent, aimed>>

\* Mutation: the status is not set to error when cc::get throws.
GetThrows_KeepsStatus ==
  /\ at = "get" /\ pc = "threw"
  /\ Leave
  /\ Settle("failed", es)
  /\ at' = "next"
  /\ UNCHANGED <<exit, inherited, disposition, sent, aimed>>

GetThrows ==
  /\ at = "get" /\ pc = "threw"
  /\ Leave
  /\ Settle("failed", "error")
  /\ at' = "next"
  /\ UNCHANGED <<exit, inherited, disposition, sent, aimed>>

\* cc::error::tuple passes both catch clauses; main catches it.
GetEscapes ==
  /\ at = "get" /\ pc = "escaped"
  /\ LeaveExec("error")
  /\ UNCHANGED <<vars, i, exit, inherited, sent, outcome, aimed>>

Return ==
  /\ at = "next" /\ i > N
  /\ LeaveExec(es)
  /\ UNCHANGED <<vars, i, exit, inherited, sent, outcome, aimed>>

Exit ==
  /\ at = "main"
  /\ exit' = es
  /\ at' = "exited"
  /\ UNCHANGED <<vars, i, es, inherited, disposition, sent, outcome, aimed>>

Exited == at = "exited" /\ UNCHANGED appvars

-----------------------------------------------------------------------------
(* SIGUSR1, sent by the user at any moment.                                *)

Send ==
  /\ exit = "running"
  /\ sent < MaxSignals
  /\ sent' = sent + 1
  /\ aimed' = aimed \cup {i}

Caught ==
  /\ Send
  /\ disposition = "ours"
  /\ Sigusr1
  /\ UNCHANGED <<at, i, es, exit, inherited, disposition, outcome>>

Ignored ==
  /\ Send
  /\ disposition = "ignored"
  /\ UNCHANGED <<vars, at, i, es, exit, inherited, disposition, outcome>>

Killed ==
  /\ Send
  /\ disposition = "default"
  /\ exit' = "killed"
  /\ at' = "exited"
  /\ UNCHANGED <<vars, i, es, inherited, disposition, outcome>>

-----------------------------------------------------------------------------
Main == \/ PrintStreams \/ StreamsFound \/ StreamsFail \/ StreamsDone
        \/ InstallHandlers \/ PreferEscapes \/ Setup \/ Parse \/ ParseFails
        \/ GetReturns \/ GetThrows \/ GetEscapes \/ Return \/ Exit

AppNext == Main \/ GetStep \/ Caught \/ Ignored \/ Killed \/ Exited

AppSpec == AppInit /\ [][AppNext]_appvars

\* The program goes on by itself wherever it does not wait for the network:
\* the commands of --exec are taken to end.  libcurl calls progress_cb at
\* least once a second, and minds CURLOPT_TIMEOUT.  Nothing else that happens
\* within curl_easy_perform is certain.
Fairness ==
  /\ WF_appvars(Main \/ (pc # "perform" /\ GetStep))
  /\ WF_appvars(at = "get" /\ ProgressAbort /\ UNCHANGED ownvars)
  /\ WF_appvars(at = "get" /\ TimeOut /\ UNCHANGED ownvars)

FairSpec == AppSpec /\ Fairness

-----------------------------------------------------------------------------
(* Properties.                                                             *)

\* The type invariant.
AppTypeOK ==
  /\ TypeOK
  /\ at \in {"start", "streams", "next", "parse", "get", "main", "exited"}
  /\ i \in 0 .. (N + 1)
  /\ es \in {"ok", "error"}
  /\ exit \in {"running", "ok", "error", "killed"}
  /\ inherited \in {"default", "ignored"}
  /\ disposition \in {"default", "ignored", "ours"}
  /\ sent \in 0 .. MaxSignals
  /\ outcome \in [1 .. N -> Outcomes]
  /\ aimed \subseteq 0 .. (N + 1)

\* Each URL is settled once and in order, an error of one does not keep the
\* next from its turn, and the exit status is that of the last.
Settled(r) == CASE r = "pending" -> "pending"
                [] r = "failed" -> "error"
                [] OTHER -> "ok"
TheBatch == INSTANCE Batch WITH outcome <- [k \in 1 .. N |-> Settled(outcome[k])]
ImplementsBatch == TheBatch!Spec

\* SIGUSR1 never kills cclive from the moment the handlers are installed until
\* exec is left.
KilledOnlyOutsideTheBatch ==
  [][exit' = "killed" => at \in {"start", "streams", "main"}]_appvars

\* One SIGUSR1 interrupts one transfer at most, retries included; two that
\* come in a row may count as one.
Skipped == {k \in 1 .. N : outcome[k] = "skipped"}
OneSkipPerSignal ==
  Cardinality(Skipped) + (IF sigusr1 THEN 1 ELSE 0) <= sent

\* Without --continue, --output-file and --overwrite, a media reported as
\* retrieved is in some file, whole, and stays so until cclive exits,
\* whatever the transfers after it do and whatever was in the directory.  (An
\* empty media, whose file cannot be told from an absent one, is left out.)
IsCopy(p, m) == disk[p] = [k \in 1 .. StreamLength[m] |-> <<m, k>>]
DoneStaysWhole ==
  ~(vm.continue \/ vm.output_file \/ vm.overwrite) =>
    \A k \in 1 .. N :
      outcome[k] = "done" /\ StreamLength[MediaOf[k]] > 0 =>
        \E p \in Paths : IsCopy(p, MediaOf[k])

\* With a time limit on transfers cclive always comes to its end, however
\* often the server fails: every loop is bounded.
AlwaysEnds == vm.transfer_timeout > 0 => <>(exit # "running")

\* A SIGUSR1 that has been caught ends the transfer that is on, even if the
\* server never sends another byte.
SignalEndsTransfer == pc = "perform" /\ sigusr1 ~> pc # "perform"

-----------------------------------------------------------------------------
(* What the manual page says, and the code does not do.                    *)

\* "The program will exit with EXIT_SUCCESS on success, and with EXIT_FAILURE
\* if an error occurred" (cclive.1).
ExitReportsErrors ==
  exit = "ok" => \A k \in 1 .. N : outcome[k] \notin {"failed", "exhausted"}

\* --throttle: "Do not exceed the specified transfer rate" (cclive.1).
ThrottleIsKept == pc = "perform" => curl.speed = vm.throttle

\* SIGUSR1: "Interrupt the current transfer" and "move onto the next URL in
\* the batch" (cclive.1).
SkipsTheCurrentTransfer ==
  \A k \in 1 .. N : outcome[k] = "skipped" => k \in aimed
=============================================================================
