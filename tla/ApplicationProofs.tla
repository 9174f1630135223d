-------------------------- MODULE ApplicationProofs -------------------------
(***************************************************************************)
(* Theorems about Application, for any number of URLs and signals.         *)
(***************************************************************************)
EXTENDS Application, GetProofs, FiniteSetTheorems

-----------------------------------------------------------------------------
(* Types, and where exec can be.                                           *)

\* The type invariant of exec's own variables.
OwnTypeOK ==
  /\ at \in {"start", "streams", "next", "parse", "get", "main", "exited"}
  /\ i \in 0 .. (N + 1)
  /\ es \in {"ok", "error"}
  /\ exit \in {"running", "ok", "error", "killed"}
  /\ inherited \in {"default", "ignored"}
  /\ disposition \in {"default", "ignored", "ours"}
  /\ sent \in 0 .. MaxSignals
  /\ outcome \in [1 .. N -> Outcomes]
  /\ aimed \subseteq 0 .. (N + 1)

\* URL i exists wherever exec deals with it, and the process is gone exactly
\* when exec has been left for good.
Located ==
  /\ at \in {"parse", "get"} => i \in 1 .. N
  /\ at \in {"streams", "next"} => i >= 1
  /\ at = "exited" <=> exit # "running"

OwnInv == OwnTypeOK /\ Located

\* The outcome of a return of cc::get is one of the outcomes.
LEMMA ReturnedIsOutcome == Returned \in Outcomes \ {"pending", "failed"}
  BY DEF Returned, Outcomes

\* A URL is settled with one of the outcomes and one of the statuses.
LEMMA SettleHasTypes ==
  ASSUME OwnTypeOK, i \in 1 .. N,
         NEW r \in Outcomes, NEW s \in {"ok", "error"}, Settle(r, s)
  PROVE  /\ outcome' \in [1 .. N -> Outcomes]
         /\ es' \in {"ok", "error"}
         /\ i' \in 0 .. (N + 1) /\ i' >= 1
  BY ApplicationAssumption DEF OwnTypeOK, Settle

\* OwnInv holds initially.
LEMMA OwnInvInit == AppInit => OwnInv
  BY ApplicationAssumption DEF AppInit, OwnInv, OwnTypeOK, Located, Outcomes

\* OwnInv is inductive, whatever cc::get does.
LEMMA OwnInvStep == OwnInv /\ [AppNext]_appvars => OwnInv'
<1> SUFFICES ASSUME OwnInv, [AppNext]_appvars PROVE OwnInv'
  OBVIOUS
<1> USE ApplicationAssumption DEF OwnInv
<1>1. CASE PrintStreams
  BY <1>1 DEF PrintStreams, OwnTypeOK, Located
<1>2. CASE StreamsFound \/ StreamsFail
  <2>1. i \in 1 .. N
    BY <1>2 DEF StreamsFound, StreamsFail, OwnTypeOK, Located
  <2>2. /\ outcome' \in [1 .. N -> Outcomes]
        /\ es' \in {"ok", "error"}
        /\ i' \in 0 .. (N + 1) /\ i' >= 1
    BY <1>2, <2>1, SettleHasTypes DEF StreamsFound, StreamsFail, Outcomes
  <2> QED BY <1>2, <2>2 DEF StreamsFound, StreamsFail, OwnTypeOK, Located
<1>3. CASE StreamsDone
  BY <1>3 DEF StreamsDone, OwnTypeOK, Located
<1>4. CASE InstallHandlers
  BY <1>4 DEF InstallHandlers, OwnTypeOK, Located
<1>5. CASE PreferEscapes \/ GetEscapes \/ Return
  <2>1. /\ at \in {"next", "get"} /\ at' = "main" /\ es' \in {"ok", "error"}
        /\ disposition' = inherited
        /\ UNCHANGED <<i, exit, inherited, sent, outcome, aimed>>
    BY <1>5 DEF PreferEscapes, GetEscapes, Return, LeaveExec, OwnTypeOK
  <2> QED BY <2>1 DEF OwnTypeOK, Located
<1>6. CASE Setup \/ Parse
  <2>1. /\ at \in {"next", "parse"} /\ at' \in {"parse", "get"}
        /\ UNCHANGED <<i, es, exit, inherited, disposition, sent, outcome, aimed>>
    BY <1>6 DEF Setup, Parse
  <2>2. i \in 1 .. N
    BY <1>6 DEF Setup, Parse, OwnTypeOK, Located
  <2> QED BY <2>1, <2>2 DEF OwnTypeOK, Located
<1>7. CASE ParseFails \/ GetReturns \/ GetThrows
  <2>1. i \in 1 .. N
    BY <1>7 DEF ParseFails, GetReturns, GetThrows, OwnTypeOK, Located
  <2>2. /\ outcome' \in [1 .. N -> Outcomes]
        /\ es' \in {"ok", "error"}
        /\ i' \in 0 .. (N + 1) /\ i' >= 1
    <3>1. "failed" \in Outcomes /\ Returned \in Outcomes
      BY ReturnedIsOutcome DEF Outcomes
    <3> QED BY <1>7, <2>1, <3>1, SettleHasTypes
            DEF ParseFails, GetReturns, GetThrows
  <2> QED BY <1>7, <2>2 DEF ParseFails, GetReturns, GetThrows, OwnTypeOK, Located
<1>8. CASE GetStep
  BY <1>8 DEF GetStep, ownvars, OwnTypeOK, Located
<1>9. CASE Exit
  BY <1>9 DEF Exit, OwnTypeOK, Located
<1>10. CASE Caught \/ Ignored \/ Killed
  <2>1. Send
    BY <1>10 DEF Caught, Ignored, Killed
  <2>2. aimed' \subseteq 0 .. (N + 1)
    BY <2>1 DEF Send, OwnTypeOK
  <2>3. sent' \in 0 .. MaxSignals
    BY <2>1 DEF Send, OwnTypeOK
  <2>4. at # "exited"
    BY <2>1 DEF Send, Located
  <2> QED BY <1>10, <2>2, <2>3, <2>4 DEF Caught, Ignored, Killed, OwnTypeOK,
             Located
<1>11. CASE UNCHANGED appvars
  BY <1>11 DEF appvars, ownvars, OwnTypeOK, Located
<1> QED BY <1>1, <1>2, <1>3, <1>4, <1>5, <1>6, <1>7, <1>8, <1>9, <1>10, <1>11
        DEF AppNext, Main, Exited

\* Every step of the program is a step of cc::get, or one that its variables
\* do not notice.
LEMMA StepOfGet == OwnInv /\ [AppNext]_appvars => [Next]_vars
<1> SUFFICES ASSUME OwnInv, [AppNext]_appvars PROVE [Next]_vars
  OBVIOUS
<1>1. CASE StreamsFound \/ StreamsFail \/ Setup
  BY <1>1 DEF StreamsFound, StreamsFail, Setup, Next
<1>2. CASE Parse
  <2>1. MediaOf[i] \in Media
    BY <1>2, ApplicationAssumption DEF Parse, OwnInv, Located
  <2> QED BY <1>2, <2>1 DEF Parse, Next
<1>3. CASE GetStep
  BY <1>3 DEF GetStep, Next
<1>4. CASE GetReturns \/ GetThrows
  BY <1>4 DEF GetReturns, GetThrows, Next
<1>5. CASE Caught
  BY <1>5 DEF Caught, Next
<1>6. CASE UNCHANGED vars
  BY <1>6
<1> QED BY <1>1, <1>2, <1>3, <1>4, <1>5, <1>6 DEF AppNext, Main, PrintStreams,
        StreamsDone, InstallHandlers, PreferEscapes, ParseFails, GetEscapes,
        Return, Exit, Ignored, Killed, Exited, appvars

\* The application uses cc::get as Get says it is used, so that all theorems
\* about Get hold of the whole program.
THEOREM ApplicationUsesGet == AppSpec => Spec
<1>1. AppInit => Init
  BY DEF AppInit
<1> QED BY <1>1, OwnInvInit, OwnInvStep, StepOfGet, PTL DEF AppSpec, Spec

\* The type invariant of the program.
THEOREM AppTypeCorrect == AppSpec => []AppTypeOK
<1>1. OwnInv /\ TypeOK => AppTypeOK
  BY DEF OwnInv, OwnTypeOK, AppTypeOK
<1> QED BY <1>1, OwnInvInit, OwnInvStep, ApplicationUsesGet, TypeCorrect, PTL
        DEF AppSpec

\* Whatever the batch does, no byte of any file moves, and none is lost without
\* --overwrite.
THEOREM BatchKeepsFiles == AppSpec => ImplementsStore
  BY ApplicationUsesGet, FilesAreStored, PTL

-----------------------------------------------------------------------------
(* SIGUSR1 does not kill.                                                  *)

\* From the installation of the handlers to the end of exec, SIGUSR1 is caught
\* or ignored.
Handled == at \in {"next", "parse", "get"} => disposition # "default"

\* Handled is inductive.
LEMMA HandledStep == OwnInv /\ Handled /\ [AppNext]_appvars => Handled'
<1> SUFFICES ASSUME OwnInv, Handled, [AppNext]_appvars PROVE Handled'
  OBVIOUS
<1>1. CASE InstallHandlers
  BY <1>1 DEF InstallHandlers, Handled, OwnInv, OwnTypeOK
<1>2. CASE at' \in {"start", "streams", "main", "exited"}
  BY <1>2 DEF Handled
<1>3. CASE UNCHANGED disposition /\ at \in {"next", "parse", "get"}
  BY <1>3 DEF Handled
<1>4. CASE UNCHANGED <<at, disposition>>
  BY <1>4 DEF Handled
<1>5. CASE Main
  BY <1>1, <1>2, <1>3, <1>4, <1>5 DEF Main, PrintStreams, StreamsFound,
     StreamsFail, StreamsDone, PreferEscapes, LeaveExec, Setup, Parse,
     ParseFails, GetReturns, GetThrows, GetEscapes, Return, Exit
<1>6. CASE GetStep \/ Caught \/ Ignored \/ Exited \/ UNCHANGED appvars
  BY <1>4, <1>6 DEF GetStep, Caught, Ignored, Exited, appvars, ownvars
<1>7. CASE Killed
  BY <1>2, <1>7 DEF Killed
<1> QED BY <1>5, <1>6, <1>7 DEF AppNext

\* A batch in progress is never killed by a SIGUSR1, in whatever way the
\* signal was disposed of when cclive was started.
THEOREM NeverKilledInTheBatch == AppSpec => KilledOnlyOutsideTheBatch
<1>1. AppInit => Handled
  BY DEF AppInit, Handled
<1>2. OwnInv /\ Handled /\ [AppNext]_appvars =>
        [exit' = "killed" => at \in {"start", "streams", "main"}]_appvars
  <2> SUFFICES ASSUME OwnInv, Handled, AppNext, exit' = "killed",
                      ~ UNCHANGED appvars
               PROVE  at \in {"start", "streams", "main"}
    OBVIOUS
  <2>1. CASE exit' = exit
    BY <2>1, Zenon DEF OwnInv, Located, AppNext, Main, PrintStreams, StreamsFound,
       StreamsFail, StreamsDone, InstallHandlers, PreferEscapes, Setup, Parse,
       ParseFails, GetReturns, GetThrows, GetEscapes, Return, Exit, GetStep,
       Caught, Ignored, Killed, Send, Exited
  <2>2. CASE Killed
    BY <2>2 DEF Killed, Send, OwnInv, OwnTypeOK, Located, Handled
  <2>3. CASE Exit
    BY <2>3 DEF Exit, OwnInv, OwnTypeOK
  <2> QED BY <2>1, <2>2, <2>3 DEF AppNext, Main, PrintStreams, StreamsFound,
       StreamsFail, StreamsDone, InstallHandlers, PreferEscapes, Setup, Parse,
       ParseFails, GetReturns, GetThrows, GetEscapes, Return, GetStep, ownvars,
       Caught, Ignored, Exited
<1> QED BY <1>1, <1>2, OwnInvInit, OwnInvStep, HandledStep, PTL
        DEF AppSpec, KilledOnlyOutsideTheBatch

-----------------------------------------------------------------------------
(* The batch.                                                              *)

\* The URLs before the one that is up are settled and the others are not; the
\* exit status so far is that of the last one settled, until an error that
\* concerns the whole batch ends it with URLs left.
SettledInOrder ==
  /\ at = "start" => i = 0
  /\ \A k \in 1 .. N : outcome[k] = "pending" <=> k >= i
StatusOfLast ==
  /\ at \in {"streams", "next", "parse", "get"} /\ i > 1 =>
       es = Settled(outcome[i - 1])
  /\ at = "main" => \/ i = N + 1 /\ es = Settled(outcome[N])
                    \/ i <= N /\ es = "error"
BatchInv == SettledInOrder /\ StatusOfLast

\* An outcome stands for the status that exec gives it.
LEMMA StatusOfOutcome ==
  /\ Settled("pending") = "pending"
  /\ Settled("failed") = "error"
  /\ \A r \in Outcomes \ {"pending", "failed"} : Settled(r) = "ok"
  BY DEF Settled, Outcomes

\* Settling URL i settles the first one pending in the abstract batch.
LEMMA SettleIsSettle ==
  ASSUME OwnInv, BatchInv, i \in 1 .. N, exit = "running", UNCHANGED exit,
         at' # "start", NEW r \in Outcomes \ {"pending"}, Settle(r, Settled(r))
  PROVE  TheBatch!Settle(i) /\ SettledInOrder'
<1> DEFINE bar == [k \in 1 .. N |-> Settled(outcome[k])]
<1>1. /\ outcome \in [1 .. N -> Outcomes]
      /\ outcome' = [outcome EXCEPT ![i] = r] /\ i' = i + 1
  BY DEF OwnInv, OwnTypeOK, Settle
<1>2. Settled(r) \in {"ok", "error"}
  BY StatusOfOutcome
<1>3. bar' = [bar EXCEPT ![i] = Settled(r)]
  BY <1>1
<1>4. bar[i] = "pending"
  BY StatusOfOutcome DEF BatchInv, SettledInOrder
<1>5. ASSUME NEW j \in 1 .. (i - 1) PROVE bar[j] # "pending"
  <2>1. j \in 1 .. N /\ outcome[j] # "pending"
    BY ApplicationAssumption DEF BatchInv, SettledInOrder
  <2>2. outcome[j] \in Outcomes
    BY <1>1, <2>1
  <2> QED BY <2>1, <2>2, StatusOfOutcome
<1>6. TheBatch!Settle(i)
  BY <1>2, <1>3, <1>4, <1>5 DEF TheBatch!Settle, TheBatch!Pending
<1>7. \A k \in 1 .. N : outcome'[k] = "pending" <=> k >= i'
  BY <1>1, ApplicationAssumption DEF BatchInv, SettledInOrder
<1> QED BY <1>6, <1>7 DEF SettledInOrder

\* After URL i is settled the status is that of its outcome.
LEMMA SettleSetsStatus ==
  ASSUME OwnInv, i \in 1 .. N, NEW r \in Outcomes, Settle(r, Settled(r))
  PROVE  i' > 1 /\ i' = i + 1 /\ es' = Settled(outcome'[i' - 1])
<1>1. outcome \in [1 .. N -> Outcomes] /\ outcome' = [outcome EXCEPT ![i] = r]
  BY DEF OwnInv, OwnTypeOK, Settle
<1>2. outcome'[i] = r
  BY <1>1
<1>3. i' = i + 1 /\ i \in Nat /\ i >= 1 /\ es' = Settled(r)
  BY ApplicationAssumption DEF Settle
<1>4. i' - 1 = i
  BY <1>3
<1> QED BY <1>2, <1>3, <1>4

\* BatchInv is inductive, and every step that settles a URL, ends the process or
\* does neither is one of the abstract batch, or a stutter.
LEMMA BatchStep ==
  ASSUME OwnInv, BatchInv, [AppNext]_appvars
  PROVE  BatchInv' /\ [TheBatch!Next]_(TheBatch!vars)
<1> USE ApplicationAssumption
<1>1. ASSUME UNCHANGED <<i, es, exit, outcome>>,
             \/ at' = at
             \/ at \in {"next", "parse"} /\ at' \in {"parse", "get"}
      PROVE  BatchInv' /\ [TheBatch!Next]_(TheBatch!vars)
  <2>1. SettledInOrder'
    BY <1>1 DEF BatchInv, SettledInOrder
  <2>2. Settled(outcome[i - 1])' = Settled(outcome[i - 1])
        /\ Settled(outcome[N])' = Settled(outcome[N])
    BY <1>1 DEF Settled
  <2>3. StatusOfLast'
    BY <1>1, <2>2 DEF BatchInv, StatusOfLast
  <2>4. UNCHANGED TheBatch!vars
    BY <1>1 DEF TheBatch!vars, Settled
  <2> QED BY <2>1, <2>3, <2>4 DEF BatchInv
<1>2. CASE PrintStreams \/ InstallHandlers
  BY <1>2 DEF PrintStreams, InstallHandlers, BatchInv, SettledInOrder,
     StatusOfLast, TheBatch!vars
<1>3. ASSUME at \in {"streams", "parse", "get"}, i \in 1 .. N, UNCHANGED exit,
             NEW r \in Outcomes \ {"pending"}, Settle(r, Settled(r)),
             at' \in {"streams", "next"} \/ (at' = "main" /\ r = "failed")
      PROVE  BatchInv' /\ [TheBatch!Next]_(TheBatch!vars)
  <2>1. exit = "running" /\ at' # "start"
    BY <1>3 DEF OwnInv, OwnTypeOK, Located
  <2>2. TheBatch!Settle(i) /\ SettledInOrder'
    BY <1>3, <2>1, SettleIsSettle
  <2>3. i' > 1 /\ i' = i + 1 /\ es' = Settled(outcome'[i' - 1])
    BY <1>3, SettleSetsStatus
  <2>4. StatusOfLast'
    <3>1. CASE at' # "main"
      BY <2>3, <3>1 DEF StatusOfLast
    <3>2. CASE at' = "main" /\ r = "failed"
      <4>1. es' = "error"
        BY <1>3, <3>2, StatusOfOutcome DEF Settle
      <4>2. CASE i = N
        <5>1. i' = N + 1 /\ i' - 1 = N
          BY <2>3, <4>2
        <5> QED BY <2>3, <3>2, <5>1 DEF StatusOfLast
      <4>3. CASE i # N
        BY <1>3, <2>3, <3>2, <4>1, <4>3 DEF StatusOfLast
      <4> QED BY <4>2, <4>3
    <3> QED BY <1>3, <3>1, <3>2
  <2> QED BY <1>3, <2>2, <2>4 DEF BatchInv, TheBatch!Next
<1>4. CASE StreamsFound \/ StreamsFail
  <2>1. i \in 1 .. N /\ at = "streams"
    BY <1>4 DEF StreamsFound, StreamsFail, OwnInv, OwnTypeOK, Located
  <2>2. "shown" \in Outcomes \ {"pending", "failed"}
        /\ "failed" \in Outcomes \ {"pending"}
    BY DEF Outcomes
  <2>3. CASE StreamsFound
    BY <1>3, <2>1, <2>2, <2>3, StatusOfOutcome DEF StreamsFound
  <2>4. CASE StreamsFail
    BY <1>3, <2>1, <2>2, <2>4, StatusOfOutcome DEF StreamsFail
  <2> QED BY <1>4, <2>3, <2>4
<1>5. CASE ParseFails \/ GetReturns \/ GetThrows
  <2>1. i \in 1 .. N /\ at \in {"parse", "get"}
    BY <1>5 DEF ParseFails, GetReturns, GetThrows, OwnInv, Located
  <2>2. Returned \in Outcomes \ {"pending", "failed"}
        /\ "failed" \in Outcomes \ {"pending"}
    BY ReturnedIsOutcome DEF Outcomes
  <2>3. CASE GetReturns
    BY <1>3, <2>1, <2>2, <2>3, StatusOfOutcome DEF GetReturns
  <2>4. CASE ParseFails \/ GetThrows
    BY <1>3, <2>1, <2>2, <2>4, StatusOfOutcome DEF ParseFails, GetThrows
  <2> QED BY <1>5, <2>3, <2>4
<1>6. CASE PreferEscapes \/ GetEscapes
  <2>1. at' = "main" /\ es' = "error" /\ i <= N /\ UNCHANGED <<i, exit, outcome>>
    BY <1>6 DEF PreferEscapes, GetEscapes, LeaveExec, OwnInv, OwnTypeOK, Located
  <2> QED BY <2>1 DEF BatchInv, SettledInOrder, StatusOfLast, TheBatch!vars
<1>7. CASE StreamsDone \/ Return
  <2>1. at \in {"streams", "next"} /\ at' = "main" /\ i > N
        /\ UNCHANGED <<i, es, exit, outcome>>
    BY <1>7 DEF StreamsDone, Return, LeaveExec
  <2>2. i = N + 1 /\ i > 1 /\ i - 1 = N
    BY <2>1 DEF OwnInv, OwnTypeOK
  <2>3. es = Settled(outcome[N])
    BY <2>1, <2>2 DEF BatchInv, StatusOfLast
  <2> QED BY <2>1, <2>2, <2>3 DEF BatchInv, SettledInOrder, StatusOfLast,
             TheBatch!vars
<1>8. CASE Exit
  <2>1. BatchInv'
    BY <1>8 DEF Exit, BatchInv, SettledInOrder, StatusOfLast
  <2>2. exit = "running" /\ exit' = es /\ UNCHANGED outcome /\ at = "main"
    BY <1>8 DEF Exit, OwnInv, OwnTypeOK, Located
  <2>3. CASE i = N + 1 /\ es = Settled(outcome[N])
    <3>1. ASSUME NEW k \in 1 .. N PROVE Settled(outcome[k]) # "pending"
      BY <2>3, StatusOfOutcome DEF BatchInv, SettledInOrder, OwnInv, OwnTypeOK
    <3>2. TheBatch!Finish
      BY <2>2, <2>3, <3>1 DEF TheBatch!Finish, TheBatch!Pending
    <3> QED BY <2>1, <3>2 DEF TheBatch!Next
  <2>4. CASE i <= N /\ es = "error"
    <3>1. Settled(outcome[N]) = "pending"
      BY <2>4, StatusOfOutcome DEF BatchInv, SettledInOrder
    <3>2. TheBatch!Abort
      BY <2>2, <2>4, <3>1 DEF TheBatch!Abort, TheBatch!Pending
    <3> QED BY <2>1, <3>2 DEF TheBatch!Next
  <2> QED BY <2>2, <2>3, <2>4 DEF BatchInv, StatusOfLast
<1>9. CASE Killed
  <2>1. exit = "running" /\ exit' = "killed" /\ at' = "exited"
        /\ UNCHANGED <<i, es, outcome>>
    BY <1>9 DEF Killed, Send
  <2> QED BY <2>1 DEF BatchInv, SettledInOrder, StatusOfLast, TheBatch!Abort,
             TheBatch!Next
<1>10. CASE Setup \/ Parse \/ GetStep \/ Caught \/ Ignored \/ UNCHANGED appvars
  BY <1>1, <1>10 DEF Setup, Parse, GetStep, Caught, Ignored, appvars, ownvars
<1> QED BY <1>2, <1>4, <1>5, <1>6, <1>7, <1>8, <1>9, <1>10
        DEF AppNext, Main, Exited

\* cclive implements the abstract batch: each URL is settled once and in order,
\* whatever became of the others, and the exit status is that of the last.
THEOREM BatchIsImplemented == AppSpec => ImplementsBatch
<1>1. AppInit => BatchInv /\ TheBatch!Init
  <2> SUFFICES ASSUME AppInit PROVE BatchInv /\ TheBatch!Init
    OBVIOUS
  <2>1. BatchInv
    BY ApplicationAssumption DEF AppInit, BatchInv, SettledInOrder, StatusOfLast
  <2>2. TheBatch!Init
    BY StatusOfOutcome DEF AppInit, TheBatch!Init
  <2> QED BY <2>1, <2>2
<1>2. OwnInv /\ BatchInv /\ [AppNext]_appvars =>
        BatchInv' /\ [TheBatch!Next]_(TheBatch!vars)
  BY BatchStep
<1> QED BY <1>1, <1>2, OwnInvInit, OwnInvStep, PTL
        DEF AppSpec, ImplementsBatch, TheBatch!Spec

-----------------------------------------------------------------------------
(* One transfer per signal.                                                *)

\* Each signal sent is in at most one place: as the flag, as the result of the
\* transfer it has interrupted, or as a URL skipped.
One(b) == IF b THEN 1 ELSE 0
SignalsInHand == One(sigusr1) + One(xfer.rc = CURLE_ABORTED_BY_CALLBACK)
SignalsCounted == Cardinality(Skipped) + SignalsInHand <= sent

\* An interruption has a CURLcode of its own.
LEMMA CodesDiffer ==
  CURLE_ABORTED_BY_CALLBACK \notin {CURLE_OK, CURLE_WRITE_ERROR,
      CURLE_OPERATION_TIMEDOUT, CURLE_RANGE_ERROR, CURLE_RECV_ERROR}
  BY DEF CURLE_ABORTED_BY_CALLBACK, CURLE_OK, CURLE_WRITE_ERROR,
         CURLE_OPERATION_TIMEDOUT, CURLE_RANGE_ERROR, CURLE_RECV_ERROR

\* cc::get makes no signal of its own, whichever step it takes.
LEMMA GetMakesNoSignal ==
  ASSUME TypeOK, Attempt \/ Transfer \/ Verdict
  PROVE  SignalsInHand' <= SignalsInHand
<1> USE DEF SignalsInHand, One
<1>1. CASE UNCHANGED <<sigusr1, xfer>>
  BY <1>1
<1>2. CASE Open
  BY <1>2, CodesDiffer DEF Open, NoTransfer
<1>3. CASE UNCHANGED sigusr1 /\ xfer'.rc = xfer.rc
  BY <1>3
<1>4. ASSUME UNCHANGED sigusr1, NEW rc \in Nat,
             rc # CURLE_ABORTED_BY_CALLBACK, Performed(rc)
      PROVE  SignalsInHand' <= SignalsInHand
  <2>1. xfer'.rc = rc
    BY <1>4 DEF Performed, TypeOK, Transfers
  <2> QED BY <1>4, <2>1
<1>5. CASE ProgressAbort
  BY <1>5 DEF ProgressAbort
<1>6. CASE ReceiveFails \/ Complete \/ RangeRefused \/ NetworkFails \/ TimeOut
  <2>1. PICK rc \in {CURLE_OK, CURLE_WRITE_ERROR, CURLE_OPERATION_TIMEDOUT,
                     CURLE_RANGE_ERROR, CURLE_RECV_ERROR} : Performed(rc)
    BY <1>6 DEF ReceiveFails, Complete, RangeRefused, NetworkFails, TimeOut
  <2>2. UNCHANGED sigusr1
    BY <1>6 DEF ReceiveFails, Complete, RangeRefused, NetworkFails, TimeOut
  <2>3. rc \in Nat
    BY <2>1 DEF CURLE_OK, CURLE_WRITE_ERROR, CURLE_OPERATION_TIMEDOUT,
       CURLE_RANGE_ERROR, CURLE_RECV_ERROR
  <2> QED BY <1>4, <2>1, <2>2, <2>3, CodesDiffer
<1>7. CASE Receive \/ \E code \in ErrorCodes \cup {200, 206} : Respond(code)
  <2>1. UNCHANGED sigusr1 /\ xfer'.rc = xfer.rc
    BY <1>7 DEF Receive, Respond, TypeOK, Transfers
  <2> QED BY <1>3, <2>1
<1>8. CASE OpenFails \/ Attempt \/ Verdict
  <2>1. UNCHANGED <<sigusr1, xfer>>
    BY <1>8 DEF OpenFails, Attempt, TrEscapes, StatFails, FoundComplete,
       Construct, Wait, Try, Exhausted, Verdict, WriteSucceeds, WriteIsTrue,
       TimestampFails, WriteThrows, WriteSkips, WriteFails, ExecDone, ExecFails
  <2> QED BY <1>1, <2>1
<1> QED BY <1>2, <1>5, <1>6, <1>7, <1>8 DEF Transfer

\* The URLs skipped are finitely many, before and after a step.
LEMMA SkippedFinite ==
  IsFiniteSet(Skipped) /\ Cardinality(Skipped) \in Nat
<1>1. IsFiniteSet(1 .. N)
  BY ApplicationAssumption, FS_Interval
<1>2. Skipped \subseteq 1 .. N
  BY DEF Skipped
<1> QED BY <1>1, <1>2, FS_Subset, FS_CardinalityType

\* SignalsCounted is inductive.
LEMMA SignalsCountedStep ==
  OwnInv /\ TypeOK /\ SignalsCounted /\ [AppNext]_appvars => SignalsCounted'
<1> SUFFICES ASSUME OwnInv, TypeOK, SignalsCounted, [AppNext]_appvars
             PROVE  SignalsCounted'
  OBVIOUS
<1> DEFINE card == Cardinality(Skipped)
<1>1. /\ IsFiniteSet(Skipped) /\ card \in Nat
      /\ SignalsInHand \in Nat /\ SignalsInHand' \in Nat /\ sent \in Nat
  BY SkippedFinite, ApplicationAssumption DEF SignalsInHand, One, OwnInv, OwnTypeOK
<1>2. UNCHANGED outcome => card' = card
  BY DEF Skipped
<1>3. ASSUME UNCHANGED <<outcome, sent>>, SignalsInHand' <= SignalsInHand
      PROVE  SignalsCounted'
  BY <1>1, <1>2, <1>3 DEF SignalsCounted
<1>4. ASSUME NEW r \in Outcomes \ {"skipped"}, NEW s, Settle(r, s),
             UNCHANGED sent, SignalsInHand' <= SignalsInHand
      PROVE  SignalsCounted'
  <2>1. Skipped' \subseteq Skipped
    BY <1>4 DEF Settle, Skipped, OwnInv, OwnTypeOK
  <2>2. card' <= card /\ card' \in Nat
    BY <1>1, <2>1, FS_Subset, FS_CardinalityType
  <2> QED BY <1>1, <1>4, <2>2 DEF SignalsCounted
<1>5. CASE StreamsFound \/ StreamsFail \/ ParseFails \/ GetThrows
  <2>1. UNCHANGED sent /\ UNCHANGED sigusr1 /\ (UNCHANGED xfer \/ xfer' = NoTransfer)
    BY <1>5 DEF StreamsFound, StreamsFail, ParseFails, GetThrows, SetupCurl,
       Leave, vars
  <2>2. SignalsInHand' <= SignalsInHand
    BY <2>1, CodesDiffer DEF SignalsInHand, One, NoTransfer
  <2>3. \E r \in {"shown", "failed"}, s \in {"ok", "error"} : Settle(r, s)
    BY <1>5 DEF StreamsFound, StreamsFail, ParseFails, GetThrows
  <2> QED BY <1>4, <2>1, <2>2, <2>3 DEF Outcomes
<1>6. CASE GetReturns
  <2>1. UNCHANGED <<sent, sigusr1>> /\ xfer' = NoTransfer /\ Settle(Returned, "ok")
    BY <1>6 DEF GetReturns, Leave
  <2>2. One(xfer'.rc = CURLE_ABORTED_BY_CALLBACK) = 0
    BY <2>1, CodesDiffer DEF One, NoTransfer
  <2>3. SignalsInHand' <= SignalsInHand
    BY <2>1, <2>2 DEF SignalsInHand, One
  <2>4. CASE Returned # "skipped"
    BY <1>4, <2>1, <2>3, <2>4, ReturnedIsOutcome
  <2>5. CASE Returned = "skipped"
    <3>1. xfer.rc = CURLE_ABORTED_BY_CALLBACK
      BY <2>5 DEF Returned
    <3>2. SignalsInHand' + 1 = SignalsInHand
      BY <2>1, <2>2, <3>1 DEF SignalsInHand, One
    <3>3. Skipped' \subseteq Skipped \cup {i}
      BY <2>1 DEF Settle, Skipped, OwnInv, OwnTypeOK
    <3>4. IsFiniteSet(Skipped \cup {i}) /\ Cardinality(Skipped \cup {i}) <= card + 1
          /\ Cardinality(Skipped \cup {i}) \in Nat
      BY <1>1, FS_AddElement, FS_CardinalityType
    <3>5. card' \in Nat /\ card' <= card + 1
      BY <1>1, <3>3, <3>4, FS_Subset, FS_CardinalityType
    <3>6. card + SignalsInHand <= sent /\ sent' = sent
      BY <2>1 DEF SignalsCounted
    <3>7. ASSUME NEW a \in Nat, NEW a1 \in Nat, NEW h \in Nat, NEW h1 \in Nat,
                 NEW s \in Nat, a + h <= s, h1 + 1 = h, a1 <= a + 1
          PROVE  a1 + h1 <= s
      BY <3>7
    <3>8. card' + SignalsInHand' <= sent'
      <4>1. card' + SignalsInHand' <= sent
        BY <1>1, <3>2, <3>5, <3>6, <3>7
      <4> QED BY <3>6, <4>1
    <3> QED BY <3>8 DEF SignalsCounted
  <2> QED BY <2>4, <2>5
<1>7. CASE GetStep
  BY <1>3, <1>7, GetMakesNoSignal DEF GetStep, ownvars
<1>8. CASE Caught \/ Ignored \/ Killed
  <2>1. sent' = sent + 1 /\ UNCHANGED outcome /\ UNCHANGED xfer
    BY <1>8 DEF Caught, Ignored, Killed, Send, Sigusr1, vars
  <2>2. SignalsInHand' <= SignalsInHand + 1
    BY <2>1 DEF SignalsInHand, One
  <2> QED BY <1>1, <1>2, <2>1, <2>2 DEF SignalsCounted
<1>9. CASE PrintStreams \/ StreamsDone \/ InstallHandlers \/ PreferEscapes
           \/ Setup \/ Parse \/ GetEscapes \/ Return \/ Exit \/ Exited
           \/ UNCHANGED appvars
  <2>1. UNCHANGED <<outcome, sent, sigusr1, xfer>>
    BY <1>9 DEF PrintStreams, StreamsDone, InstallHandlers, PreferEscapes,
       Setup, SetupCurl, Parse, Call, GetEscapes, Return, Exit, Exited, LeaveExec,
       appvars, ownvars, vars
  <2> QED BY <1>1, <1>3, <2>1 DEF SignalsInHand, One
<1> QED BY <1>5, <1>6, <1>7, <1>8, <1>9 DEF AppNext, Main

\* One SIGUSR1 interrupts one transfer at most: not two URLs, and not the
\* retry of the one it has interrupted.
THEOREM OneSkip == AppSpec => []OneSkipPerSignal
<1>1. AppInit => SignalsCounted
  <2> SUFFICES ASSUME AppInit PROVE SignalsCounted
    OBVIOUS
  <2>1. Skipped = {}
    BY DEF AppInit, Skipped
  <2>2. SignalsInHand = 0
    BY CodesDiffer DEF AppInit, Init, SignalsInHand, One, NoTransfer
  <2> QED BY <2>1, <2>2, FS_EmptySet DEF SignalsCounted, AppInit
<1>2. OwnInv /\ SignalsCounted => OneSkipPerSignal
  <2>1. SignalsInHand \in Nat /\ One(sigusr1) \in Nat
        /\ One(sigusr1) <= SignalsInHand
    BY DEF SignalsInHand, One
  <2> QED BY <2>1, SkippedFinite, ApplicationAssumption
          DEF SignalsCounted, OneSkipPerSignal, One, OwnInv, OwnTypeOK
<1> QED BY <1>1, <1>2, OwnInvInit, OwnInvStep, SignalsCountedStep,
        ApplicationUsesGet, TypeCorrect, PTL DEF AppSpec

-----------------------------------------------------------------------------
(* What is done stays done.                                                *)

\* cc::get is working on the media of the URL at hand.
InHand == at = "get" => media = MediaOf[i]

\* A media reported as retrieved is in a file that is not being received into.
Kept ==
  Fresh =>
    \A k \in 1 .. N :
      outcome[k] = "done" /\ StreamLength[MediaOf[k]] > 0 =>
        \E p \in Paths :
          disk[p] = CopyOf(MediaOf[k]) /\ (pc = "perform" => p # file.path)

\* The media at hand changes only when cc::get is called.
LEMMA InHandStep == InHand /\ [AppNext]_appvars => InHand'
<1> SUFFICES ASSUME InHand, [AppNext]_appvars PROVE InHand'
  OBVIOUS
<1>1. CASE at' # "get"
  BY <1>1 DEF InHand
<1>2. CASE UNCHANGED <<at, media, i>>
  BY <1>2 DEF InHand
<1>3. CASE Parse
  BY <1>3 DEF Parse, Call, InHand
<1>4. CASE GetStep
  <2>1. UNCHANGED <<at, i>> /\ (Attempt \/ Transfer \/ Verdict)
    BY <1>4 DEF GetStep, ownvars
  <2>2. media' = media
    BY <2>1 DEF Attempt, TrEscapes, StatFails, FoundComplete, Construct, Wait,
       Try, Exhausted, Transfer, Open, OpenFails, Respond, Receive,
       ReceiveFails, Complete, RangeRefused, NetworkFails, TimeOut,
       ProgressAbort, Performed, Verdict, WriteSucceeds, TimestampFails,
       WriteThrows, WriteSkips, WriteFails, ExecDone, ExecFails, WriteIsTrue
  <2> QED BY <1>2, <2>1, <2>2
<1>5. CASE Main
  BY <1>1, <1>2, <1>3, <1>5 DEF Main, PrintStreams, StreamsFound, StreamsFail,
     StreamsDone, SetupCurl, InstallHandlers, PreferEscapes, Setup, ParseFails,
     GetReturns, GetThrows, GetEscapes, Return, LeaveExec, Exit, vars
<1>6. CASE Caught \/ Ignored \/ Killed \/ Exited \/ UNCHANGED appvars
  BY <1>1, <1>2, <1>6 DEF Caught, Ignored, Killed, Exited, Sigusr1, appvars,
     ownvars, vars
<1> QED BY <1>4, <1>5, <1>6 DEF AppNext

\* A URL is newly reported as done only when cc::get returns with a copy of its
\* media.
LEMMA NewlyDone ==
  ASSUME OwnInv, InHand, FreshInv, Fresh, [AppNext]_appvars,
         NEW k \in 1 .. N, outcome'[k] = "done", outcome[k] # "done"
  PROVE  /\ disk[file.path] = CopyOf(MediaOf[k])
         /\ UNCHANGED disk /\ pc' = "idle"
<1>1. CASE GetReturns
  <2>1. outcome' = [outcome EXCEPT ![i] = Returned]
    BY <1>1 DEF GetReturns, Settle
  <2>2. k = i /\ Returned = "done"
    BY <2>1 DEF OwnInv, OwnTypeOK
  <2>3. ~vm.no_download /\ ~Failed
    BY <2>2 DEF Returned
  <2>4. disk[file.path] = CopyOf(media)
    BY <1>1, <2>3 DEF GetReturns, FreshInv
  <2>5. media = MediaOf[k]
    BY <1>1, <2>2 DEF GetReturns, InHand
  <2> QED BY <1>1, <2>4, <2>5 DEF GetReturns, Leave
<1>2. CASE StreamsFound \/ StreamsFail \/ ParseFails \/ GetThrows
  <2>1. PICK r \in {"shown", "failed"} : outcome' = [outcome EXCEPT ![i] = r]
    BY <1>2 DEF StreamsFound, StreamsFail, ParseFails, GetThrows, Settle
  <2> QED BY <2>1 DEF OwnInv, OwnTypeOK
<1>3. CASE UNCHANGED outcome
  BY <1>3
<1>4. CASE Main
  BY <1>1, <1>2, <1>3, <1>4 DEF Main, PrintStreams, StreamsDone,
     InstallHandlers, PreferEscapes, Setup, Parse, GetEscapes, Return, Exit
<1>5. CASE GetStep \/ Caught \/ Ignored \/ Killed \/ Exited \/ UNCHANGED appvars
  BY <1>3, <1>5 DEF GetStep, Caught, Ignored, Killed, Exited, appvars, ownvars
<1> QED BY <1>4, <1>5 DEF AppNext

\* A copy of a media that is not empty is no empty file.
LEMMA CopyIsNotEmpty ==
  ASSUME NEW m \in Media, StreamLength[m] > 0
  PROVE  CopyOf(m) # <<>>
<1>1. StreamLength[m] \in Nat
  BY FileAssumption
<1>2. DOMAIN CopyOf(m) = 1 .. StreamLength[m]
  BY DEF CopyOf
<1>3. 1 \in DOMAIN CopyOf(m)
  BY <1>1, <1>2
<1> QED BY <1>3

\* Kept is inductive.
LEMMA KeptStep ==
  ASSUME OwnInv, InHand, TypeOK, InStep, FreshInv, Kept, [AppNext]_appvars,
         [Next]_vars, vm' = vm, file.path \in Paths
  PROVE  Kept'
<1> SUFFICES ASSUME Fresh, NEW k \in 1 .. N, outcome'[k] = "done",
                    StreamLength[MediaOf[k]] > 0
             PROVE  \E p \in Paths : /\ disk'[p] = CopyOf(MediaOf[k])
                                     /\ pc' = "perform" => p # file'.path
  BY DEF Kept, Fresh, CopyOf
<1>1. CASE outcome[k] # "done"
  BY <1>1, NewlyDone
<1>2. CASE outcome[k] = "done"
  <2>1. PICK p \in Paths : /\ disk[p] = CopyOf(MediaOf[k])
                           /\ pc = "perform" => p # file.path
    BY <1>2 DEF Kept
  <2>2. disk[p] # <<>>
    BY <2>1, CopyIsNotEmpty, ApplicationAssumption
  <2>3. disk'[p] = disk[p] /\ (pc' = "perform" => p # file'.path)
    BY <2>1, <2>2, OthersStay
  <2> QED BY <2>1, <2>3
<1> QED BY <1>1, <1>2

\* Without --continue, --output-file and --overwrite a media that was reported
\* as retrieved is whole in some file, and stays so, whatever the transfers of
\* the other URLs, their retries and failures do (cc::file::_init, get).
THEOREM DoneStays == AppSpec => []DoneStaysWhole
<1>1. Init => FreshInv
  BY DEF Init, FreshInv
<1>2. Spec => [](TypeOK /\ Whole /\ FreshInv)
  BY <1>1, TypeCorrect, AlwaysWhole, FreshStep, PTL DEF Spec
<1>3. AppInit => InHand /\ Kept
  BY DEF AppInit, InHand, Kept
<1>4. TypeOK /\ [Next]_vars => vm' = vm /\ file.path \in Paths
  BY DEF TypeOK, Files, Next, vars, SetupCurl, Call, Leave, Escaped, Sigusr1,
     Attempt, TrEscapes, StatFails, FoundComplete, Construct, Wait, Try,
     Exhausted, Transfer, Open, OpenFails, Respond, Receive, ReceiveFails,
     Complete, RangeRefused, NetworkFails, TimeOut, ProgressAbort, Performed,
     Verdict, WriteSucceeds, TimestampFails, WriteThrows, WriteSkips,
     WriteFails, ExecDone, ExecFails, WriteIsTrue
<1>5. OwnInv /\ InHand /\ TypeOK /\ Whole /\ FreshInv /\ Kept
        /\ [AppNext]_appvars => Kept'
  BY <1>4, KeptStep, StepOfGet DEF Whole
<1>6. Kept => DoneStaysWhole
  BY DEF Kept, DoneStaysWhole, Fresh, IsCopy, CopyOf
<1> QED BY <1>2, <1>3, <1>5, <1>6, OwnInvInit, OwnInvStep, InHandStep,
        ApplicationUsesGet, PTL DEF AppSpec
=============================================================================
