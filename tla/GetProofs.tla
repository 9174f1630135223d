------------------------------ MODULE GetProofs -----------------------------
(***************************************************************************)
(* Theorems about Get, for every set of media, every length, every command *)
(* line, any number of retries and calls, and every initial content of the *)
(* output directory.                                                       *)
(***************************************************************************)
EXTENDS Get, TLAPS

-----------------------------------------------------------------------------
(* The handle.                                                             *)

\* The three updates of the handle keep its type.
LEMMA HandleTypes ==
  ASSUME NEW h \in Handle
  PROVE  /\ NewHandle \in Handle
         /\ \A s, t \in Nat : curl_setup(h, s, t) \in Handle
         /\ \A n \in Nat, b \in BOOLEAN : set_transfer(h, n, b) \in Handle
         /\ restore(h) \in Handle
  BY DEF Handle, NewHandle, curl_setup, set_transfer, restore

\* What a transfer sets, and libquvi would stumble over, is undone by restore,
\* and curl_setup sets none of it.
LEMMA HandleCleaning ==
  ASSUME NEW h \in Handle
  PROVE  /\ CallsNobody(NewHandle) /\ AsksForPages(NewHandle)
         /\ CallsNobody(restore(h)) /\ AsksForPages(restore(h))
         /\ \A s, t \in Nat :
              CallsNobody(h) /\ AsksForPages(h) =>
                CallsNobody(curl_setup(h, s, t)) /\ AsksForPages(curl_setup(h, s, t))
<1> USE DEF CallsNobody, AsksForPages
<1>1. CallsNobody(NewHandle) /\ AsksForPages(NewHandle)
  BY DEF NewHandle
<1>2. CallsNobody(restore(h)) /\ AsksForPages(restore(h))
  BY DEF Handle, restore
<1>3. ASSUME NEW s \in Nat, NEW t \in Nat, CallsNobody(h), AsksForPages(h)
      PROVE  CallsNobody(curl_setup(h, s, t)) /\ AsksForPages(curl_setup(h, s, t))
  BY <1>3 DEF Handle, curl_setup
<1> QED BY <1>1, <1>2, <1>3

-----------------------------------------------------------------------------
(* Types.                                                                  *)

\* The option values have their types.
LEMMA SettingsHaveTypes ==
  ASSUME TypeOK
  PROVE  /\ vm.max_retries \in Nat /\ vm.throttle \in Nat
         /\ vm.transfer_timeout \in Nat /\ vm.timestamp \in BOOLEAN
  BY FileAssumption DEF TypeOK, SettingsType

\* NoFile and NoTransfer are values of the types they stand in for.
LEMMA NothingHasType == NoFile \in Files /\ NoTransfer \in Transfers
  BY FileAssumption DEF NoFile, Files, NoTransfer, Transfers, Paths, Names,
     CURLE_OK

\* The file object made for a path has its type.
LEMMA FileAtHasType ==
  ASSUME TypeOK, NEW p \in Paths
  PROVE  FileAt(p) \in Files
<1>1. exists(p) \in Nat
  BY DEF TypeOK, Bytes, exists
<1>2. InitialLength(p) \in Nat
  BY <1>1 DEF InitialLength
<1>3. NothingTodo(p) \in BOOLEAN
  BY DEF NothingTodo
<1> QED BY <1>2, <1>3 DEF FileAt, Files

\* What opening leaves in a file is bytes.
LEMMA OpenedHasType ==
  ASSUME TypeOK
  PROVE  Opened \in Bytes
<1>1. disk[file.path] \in Bytes
  BY DEF TypeOK, Files
<1>2. <<>> \in Bytes
  BY DEF Bytes
<1> QED BY <1>1, <1>2 DEF Opened

\* A reply has a response code.
LEMMA RepliesAreCodes == ASSUME NEW code \in Replies PROVE code \in Nat
  BY GetAssumption DEF Replies

\* The state in which curl_easy_perform has returned has its type.
LEMMA PerformedHasType ==
  ASSUME TypeOK, NEW rc \in Nat, Performed(rc)
  PROVE  /\ vm' \in Settings /\ disk' \in [Paths -> Bytes] /\ media' \in Media
         /\ file' \in Files /\ curl' \in Handle /\ xfer' \in Transfers
         /\ retry' \in 0 .. (vm'.max_retries + 1) /\ pc' \in Locations
  BY HandleTypes DEF TypeOK, Performed, Transfers, Locations

\* TypeOK bounds the attempts counted, and is not inductive alone: an attempt
\* is only made, and counted, while there is one left.
AttemptLeft == pc \in {"wait", "try"} => retry <= vm.max_retries

\* The type invariant holds of every command line and every environment.  In
\* particular no more than max_retries + 1 attempts are ever counted.
THEOREM TypeCorrect == Spec => []TypeOK
<1>1. Init => TypeOK
  <2> SUFFICES ASSUME Init PROVE TypeOK
    OBVIOUS
  <2>1. vm \in Settings /\ disk \in [Paths -> Bytes] /\ media \in Media
    BY GetAssumption DEF Init
  <2>2. file \in Files /\ curl \in Handle /\ xfer \in Transfers
    BY NothingHasType DEF Init, NewHandle, Handle
  <2>3. retry \in 0 .. (vm.max_retries + 1)
    BY <2>1, FileAssumption DEF Init, SettingsType
  <2>4. sigusr1 \in BOOLEAN /\ pc \in Locations
    BY DEF Init, Locations
  <2> QED BY <2>1, <2>2, <2>3, <2>4 DEF TypeOK
<1>2. TypeOK /\ AttemptLeft /\ [Next]_vars => TypeOK'
  <2> SUFFICES ASSUME TypeOK, AttemptLeft, [Next]_vars PROVE TypeOK'
    OBVIOUS
  <2> USE SettingsHaveTypes
  <2>1. CASE SetupCurl
    BY <2>1, HandleTypes DEF SetupCurl, TypeOK, Locations
  <2>2. ASSUME NEW m \in Media, Call(m) PROVE TypeOK'
    BY <2>2 DEF Call, TypeOK, Locations
  <2>3. CASE Leave
    BY <2>3, NothingHasType DEF Leave, TypeOK, Locations
  <2>4. CASE Attempt
    <3>1. CASE TrEscapes
      BY <3>1 DEF TrEscapes, TypeOK, Locations
    <3>2. CASE StatFails
      BY <3>2 DEF StatFails, TypeOK, Locations
    <3>3. CASE FoundComplete
      BY <3>3, FileAtHasType DEF FoundComplete, TypeOK, Locations
    <3>4. CASE Construct
      BY <3>4, FileAtHasType DEF Construct, TypeOK, Locations
    <3>5. CASE Wait
      BY <3>5 DEF Wait, TypeOK, Locations
    <3>6. CASE Try
      BY <3>6 DEF Try, AttemptLeft, TypeOK, Locations
    <3>7. CASE Exhausted
      BY <3>7 DEF Exhausted, TypeOK, Locations
    <3> QED BY <2>4, <3>1, <3>2, <3>3, <3>4, <3>5, <3>6, <3>7 DEF Attempt
  <2>5. CASE Transfer
    <3>1. CASE Open
      <4>1. curl' \in Handle
        BY <3>1, HandleTypes DEF Open, TypeOK, Files
      <4>2. disk' \in [Paths -> Bytes]
        BY <3>1, OpenedHasType DEF Open, TypeOK
      <4> QED BY <3>1, <4>1, <4>2, NothingHasType DEF Open, TypeOK, Locations
    <3>2. CASE OpenFails
      BY <3>2 DEF OpenFails, TypeOK, Locations
    <3>3. ASSUME NEW code \in ErrorCodes \cup {200, 206}, Respond(code)
          PROVE  TypeOK'
      BY <3>3, RepliesAreCodes DEF Respond, TypeOK, Transfers
    <3>4. CASE Receive
      <4>1. <<BodySource, curl.resume + xfer.got + 1>> \in Sources \X Nat
        BY DEF TypeOK, Transfers, Handle, BodySource, Sources
      <4>2. ASSUME NEW f \in Bytes
            PROVE  Append(f, <<BodySource, curl.resume + xfer.got + 1>>) \in Bytes
        BY <4>1 DEF Bytes
      <4>3. disk' \in [Paths -> Bytes]
        BY <3>4, <4>2 DEF Receive, TypeOK, Files
      <4> QED BY <3>4, <4>3 DEF Receive, TypeOK, Transfers
    <3>5. ASSUME NEW rc \in Nat, Performed(rc), sigusr1' \in BOOLEAN
          PROVE  TypeOK'
      BY <3>5, PerformedHasType DEF TypeOK
    <3>6. CASE ReceiveFails
      BY <3>5, <3>6 DEF ReceiveFails, CURLE_WRITE_ERROR, TypeOK
    <3>7. CASE Complete
      BY <3>5, <3>7 DEF Complete, CURLE_OK, TypeOK
    <3>8. CASE RangeRefused
      BY <3>5, <3>8 DEF RangeRefused, CURLE_OK, CURLE_RANGE_ERROR, TypeOK
    <3>9. CASE NetworkFails
      BY <3>5, <3>9 DEF NetworkFails, CURLE_RECV_ERROR, TypeOK
    <3>10. CASE TimeOut
      BY <3>5, <3>10 DEF TimeOut, CURLE_OPERATION_TIMEDOUT, TypeOK
    <3>11. CASE ProgressAbort
      BY <3>5, <3>11 DEF ProgressAbort, CURLE_ABORTED_BY_CALLBACK
    <3> QED BY <2>5, <3>1, <3>2, <3>3, <3>4, <3>6, <3>7, <3>8, <3>9, <3>10,
               <3>11 DEF Transfer
  <2>6. CASE Verdict
    BY <2>6 DEF Verdict, WriteSucceeds, TimestampFails, WriteThrows, WriteSkips,
       WriteFails, ExecDone, ExecFails, WriteIsTrue, TypeOK, Locations
  <2>7. CASE Sigusr1
    BY <2>7 DEF Sigusr1, TypeOK
  <2>8. CASE UNCHANGED vars
    BY <2>8 DEF vars, TypeOK
  <2> QED BY <2>1, <2>2, <2>3, <2>4, <2>5, <2>6, <2>7, <2>8 DEF Next, Escaped
<1>3. Init => AttemptLeft
  BY DEF Init, AttemptLeft
<1>4. TypeOK /\ AttemptLeft /\ [Next]_vars => AttemptLeft'
  BY DEF AttemptLeft, Next, vars, SetupCurl, Call, Leave, Escaped, Sigusr1,
     Attempt, TrEscapes, StatFails, FoundComplete, Construct, CanTry, Wait, Try,
     Exhausted, Transfer, Open, OpenFails, Respond, Receive, ReceiveFails,
     Complete, RangeRefused, NetworkFails, TimeOut, ProgressAbort, Performed,
     Verdict, WriteSucceeds, TimestampFails, WriteThrows, WriteSkips,
     WriteFails, ExecDone, ExecFails, WriteIsTrue
<1> QED BY <1>1, <1>2, <1>3, <1>4, PTL DEF Spec

-----------------------------------------------------------------------------
(* The handle outside curl_easy_perform.                                   *)

\* Every way out of a transfer goes through restore, and nothing but Open sets
\* write_cb again: what CURLOPT_WRITEDATA points to is used only as long as it
\* is there, and libquvi's requests are for whole pages (_set, _restore, write).
THEOREM HandleReturned == Spec => []HandleIsSafe
<1>1. Init => HandleIsSafe
  BY DEF Init, HandleIsSafe, CallsNobody, AsksForPages, NewHandle
<1>2. TypeOK /\ HandleIsSafe /\ [Next]_vars => HandleIsSafe'
  <2> SUFFICES ASSUME TypeOK, HandleIsSafe, [Next]_vars
               PROVE  HandleIsSafe'
    OBVIOUS
  <2> USE DEF HandleIsSafe
  <2>1. CASE SetupCurl
    BY <2>1, HandleCleaning, SettingsHaveTypes DEF SetupCurl, TypeOK
  <2>2. CASE Open
    BY <2>2 DEF Open, set_transfer, TypeOK, Handle
  <2>3. ASSUME NEW rc, Performed(rc) PROVE HandleIsSafe'
    BY <2>3, HandleCleaning DEF Performed, TypeOK
  <2>4. CASE UNCHANGED curl /\ (pc = "perform" <=> pc' = "perform")
    BY <2>4 DEF CallsNobody, AsksForPages
  <2>5. CASE Transfer
    BY <2>2, <2>3, <2>4, <2>5 DEF Transfer, OpenFails, Respond, Receive,
       ReceiveFails, Complete, RangeRefused, NetworkFails, TimeOut,
       ProgressAbort
  <2>6. CASE (\E m \in Media : Call(m)) \/ Leave \/ Attempt \/ Verdict
    BY <2>4, <2>6 DEF Call, Leave, Attempt, TrEscapes, StatFails, FoundComplete,
       Construct, CanTry, Wait, Try, Exhausted, Verdict, WriteSucceeds,
       TimestampFails, WriteThrows, WriteSkips, WriteFails, ExecDone,
       ExecFails, WriteIsTrue
  <2>7. CASE Sigusr1 \/ UNCHANGED vars
    BY <2>4, <2>7 DEF Sigusr1, vars
  <2> QED BY <2>1, <2>5, <2>6, <2>7 DEF Next, Escaped
<1> QED BY <1>1, <1>2, TypeCorrect, PTL DEF Spec

-----------------------------------------------------------------------------
(* The files.                                                              *)

\* cc::file's length is taken in Construct.  Until the file is opened nobody
\* touches it, and from then on each byte received makes it one longer.
LengthIsCurrent ==
  pc \in {"wait", "try", "open"} => file.initial = InitialLength(file.path)

\* The two invariants are inductive together: ResumeInStep needs
\* LengthIsCurrent when the file is opened.
InStep == LengthIsCurrent /\ ResumeInStep

\* Opening a file leaves as many bytes in it as its initial length says.
LEMMA OpenedLength ==
  ASSUME TypeOK, LengthIsCurrent, pc = "open"
  PROVE  Len(Opened) = file.initial
<1>1. file.initial = InitialLength(file.path)
  BY DEF LengthIsCurrent
<1>2. CASE vm.overwrite
  BY <1>1, <1>2 DEF Opened, InitialLength
<1>3. CASE ~vm.overwrite /\ file.initial > 0
  BY <1>1, <1>3 DEF Opened, InitialLength, should_continue, exists
<1>4. CASE ~vm.overwrite /\ ~(file.initial > 0)
  <2>1. file.initial = 0
    BY <1>4 DEF TypeOK, Files
  <2> QED BY <1>4, <2>1 DEF Opened, should_continue
<1> QED BY <1>2, <1>3, <1>4

\* No step takes the offset asked for, the bytes received and the length of
\* the file apart.
LEMMA StaysInStep == TypeOK /\ InStep /\ [Next]_vars => InStep'
<1> SUFFICES ASSUME TypeOK, InStep, [Next]_vars PROVE InStep'
  OBVIOUS
<1>1. CASE Construct
  BY <1>1 DEF Construct, InStep, LengthIsCurrent, ResumeInStep, FileAt,
     InitialLength, exists
<1>2. CASE Open
  <2>1. disk'[file.path] = Opened
    BY <1>2 DEF Open, TypeOK, Files
  <2>2. Len(disk'[file.path]) = file.initial
    BY <1>2, <2>1, OpenedLength DEF Open, InStep
  <2>3. curl'.resume = file.initial /\ xfer'.got = 0 /\ file' = file
    BY <1>2 DEF Open, set_transfer, NoTransfer, TypeOK, Handle
  <2>4. ResumeInStep'
    BY <2>2, <2>3 DEF ResumeInStep, exists, TypeOK, Files
  <2> QED BY <1>2, <2>4 DEF Open, InStep, LengthIsCurrent
<1>3. CASE Receive
  <2>1. disk[file.path] \in Bytes
    BY DEF TypeOK, Files
  <2>2. Len(disk'[file.path]) = Len(disk[file.path]) + 1
    BY <1>3, <2>1 DEF Receive, TypeOK, Files, Bytes
  <2>3. xfer'.got = xfer.got + 1 /\ curl' = curl /\ file' = file
    BY <1>3 DEF Receive, TypeOK, Transfers
  <2>4. ResumeInStep'
    BY <1>3, <2>2, <2>3 DEF Receive, BodyLeft, InStep, ResumeInStep, exists,
       TypeOK, Files, Handle, Transfers
  <2> QED BY <1>3, <2>4 DEF Receive, BodyLeft, InStep, LengthIsCurrent
<1>4. ASSUME NEW code, Respond(code) PROVE InStep'
  BY <1>4 DEF Respond, InStep, ResumeInStep, LengthIsCurrent, exists, TypeOK,
     Transfers
<1>5. ASSUME NEW rc, Performed(rc) PROVE InStep'
  BY <1>5 DEF Performed, InStep, ResumeInStep, LengthIsCurrent
<1>6. CASE pc' \notin {"perform", "wait", "try", "open"}
  BY <1>6 DEF InStep, ResumeInStep, LengthIsCurrent
<1>7. CASE /\ UNCHANGED <<vm, disk, file, curl, xfer>>
           /\ pc' = pc \/ (pc \in {"wait", "try"} /\ pc' \in {"try", "open"})
  BY <1>7 DEF InStep, ResumeInStep, LengthIsCurrent, InitialLength, exists
<1>8. CASE SetupCurl \/ (\E m \in Media : Call(m)) \/ Leave
  BY <1>6, <1>8 DEF SetupCurl, Call, Leave
<1>9. CASE Attempt
  BY <1>1, <1>6, <1>7, <1>9 DEF Attempt, TrEscapes, StatFails, FoundComplete,
     Wait, Try, Exhausted
<1>10. CASE Transfer
  BY <1>2, <1>3, <1>4, <1>5, <1>6, <1>10 DEF Transfer, OpenFails, ReceiveFails,
     Complete, RangeRefused, NetworkFails, TimeOut, ProgressAbort
<1>11. CASE Verdict
  BY <1>6, <1>11 DEF Verdict, WriteSucceeds, TimestampFails, WriteThrows,
     WriteSkips, WriteFails, ExecDone, ExecFails, WriteIsTrue
<1>12. CASE Sigusr1 \/ UNCHANGED vars
  BY <1>7, <1>12 DEF Sigusr1, vars
<1> QED BY <1>8, <1>9, <1>10, <1>11, <1>12 DEF Next, Escaped

\* While a transfer is on, the file is as long as the offset asked for and the
\* bytes received make it, on every retry and every resumption.
THEOREM TransferInStep == Spec => []ResumeInStep
<1>1. Init => InStep
  BY DEF Init, InStep, LengthIsCurrent, ResumeInStep
<1>2. InStep => ResumeInStep
  BY DEF InStep
<1> QED BY <1>1, <1>2, StaysInStep, TypeCorrect, PTL DEF Spec

\* A step that does not write to disk is a stutter of the abstract files.
LEMMA DiskStutters ==
  ASSUME UNCHANGED <<vm, disk>>
  PROVE  UNCHANGED Stored!vars
  BY DEF Stored!vars

\* Opening a file discards what it holds only with --overwrite; otherwise it
\* is either appended to or already empty.
LEMMA OpenIsDiscard ==
  ASSUME TypeOK, LengthIsCurrent, Open
  PROVE  Stored!Discard(file.path) \/ UNCHANGED Stored!vars
<1>1. disk' = [disk EXCEPT ![file.path] = Opened] /\ vm' = vm
  BY DEF Open
<1>2. disk \in [Paths -> Bytes] /\ file.path \in Paths
  BY DEF TypeOK, Files
<1>3. CASE vm.overwrite
  BY <1>1, <1>3 DEF Opened, Stored!Discard
<1>4. CASE ~vm.overwrite
  <2>1. Len(Opened) = Len(disk[file.path])
    BY <1>4, OpenedLength DEF Open, LengthIsCurrent, InitialLength, exists
  <2>2. CASE should_continue
    <3>1. Opened = disk[file.path]
      BY <1>4, <2>2 DEF Opened
    <3>2. disk' = disk
      BY <1>1, <1>2, <3>1
    <3> QED BY <1>1, <3>2 DEF Stored!vars
  <2>3. CASE ~should_continue
    <3>1. Opened = <<>>
      BY <2>3 DEF Opened
    <3>2. Len(disk[file.path]) = 0
      BY <2>1, <3>1
    <3>3. disk[file.path] = <<>>
      BY <1>2, <3>2 DEF Bytes
    <3>4. disk' = disk
      BY <1>1, <1>2, <3>1, <3>3
    <3> QED BY <1>1, <3>4 DEF Stored!vars
  <2> QED BY <2>2, <2>3
<1> QED BY <1>3, <1>4

\* write_cb puts a byte where the file ends, and that is the offset it has in
\* its body.
LEMMA ReceiveIsExtend ==
  ASSUME TypeOK, ResumeInStep, Receive
  PROVE  Stored!Extend(file.path, BodySource)
<1>1. curl.resume + xfer.got = Len(disk[file.path])
  BY DEF Receive, BodyLeft, ResumeInStep, exists
<1>2. disk' = [disk EXCEPT ![file.path] =
                 Append(@, <<BodySource, curl.resume + xfer.got + 1>>)]
  BY DEF Receive
<1>3. disk' = [disk EXCEPT ![file.path] =
                 Append(@, <<BodySource, Len(@) + 1>>)]
  BY <1>1, <1>2
<1> QED BY <1>3 DEF Stored!Extend, Receive

\* cc::get implements the abstract files of Store: no sequence of failures,
\* signals, retries, resumptions and calls moves a byte to another offset,
\* leaves a hole, or loses what a file holds without --overwrite.
THEOREM FilesAreStored == Spec => ImplementsStore
<1>1. Init => Stored!Init
  <2> SUFFICES ASSUME Init PROVE Stored!Init
    OBVIOUS
  <2>1. disk \in [Paths -> Stored!Content]
    BY GetAssumption DEF Init, Bytes, Stored!Content
  <2>2. \A p \in Paths : Stored!WellPlaced(disk[p])
    BY GetAssumption DEF Init, Stored!WellPlaced
  <2>3. vm.overwrite \in BOOLEAN
    BY FileAssumption DEF Init, SettingsType
  <2> QED BY <2>1, <2>2, <2>3 DEF Stored!Init
<1>2. TypeOK /\ InStep /\ [Next]_vars => [Stored!Next]_(Stored!vars)
  <2> SUFFICES ASSUME TypeOK, InStep, [Next]_vars
               PROVE  [Stored!Next]_(Stored!vars)
    OBVIOUS
  <2>1. CASE Open
    <3>1. file.path \in Paths
      BY DEF TypeOK, Files
    <3> QED BY <2>1, <3>1, OpenIsDiscard DEF InStep, Stored!Next
  <2>2. CASE Receive
    <3>1. file.path \in Paths /\ BodySource \in Sources
      BY DEF TypeOK, Files, BodySource, Sources
    <3> QED BY <2>2, <3>1, ReceiveIsExtend DEF InStep, Stored!Next
  <2>3. CASE UNCHANGED <<vm, disk>>
    BY <2>3, DiskStutters
  <2>4. CASE Transfer
    BY <2>1, <2>2, <2>3, <2>4 DEF Transfer, OpenFails, Respond, ReceiveFails,
       Complete, RangeRefused, NetworkFails, TimeOut, ProgressAbort, Performed
  <2>5. CASE SetupCurl \/ (\E m \in Media : Call(m)) \/ Leave \/ Attempt \/ Verdict
    BY <2>3, <2>5 DEF SetupCurl, Call, Leave, Attempt, TrEscapes, StatFails,
       FoundComplete, Construct, Wait, Try, Exhausted, Verdict, WriteSucceeds,
       TimestampFails, WriteThrows, WriteSkips, WriteFails, ExecDone,
       ExecFails, WriteIsTrue
  <2>6. CASE Sigusr1 \/ UNCHANGED vars
    BY <2>3, <2>6 DEF Sigusr1, vars
  <2> QED BY <2>4, <2>5, <2>6 DEF Next, Escaped
<1>3. Init => InStep
  BY DEF Init, InStep, LengthIsCurrent, ResumeInStep
<1> QED BY <1>1, <1>2, <1>3, StaysInStep, TypeCorrect, PTL
        DEF Spec, ImplementsStore, Stored!Spec

-----------------------------------------------------------------------------
(* What a success means.                                                   *)

\* While the body of a 200 or a 206 arrives, what is behind the initial length
\* is the stream's.  Before there is a reply there is no body.
RestIsTheStream ==
  pc = "perform" =>
    /\ xfer.resp = 0 => xfer.got = 0
    /\ xfer.resp \in {200, 206} =>
         \A k \in (file.initial + 1) .. exists(file.path) :
           disk[file.path][k] = <<media, k>>

\* The invariant of which SuccessIsTheWholeRest is the visible part.
Whole == InStep /\ RestIsTheStream /\ SuccessIsTheWholeRest

\* A transfer that libcurl ends with CURLE_OK and a 200 or a 206 has appended
\* the rest of the stream.
LEMMA CompleteIsWhole ==
  ASSUME TypeOK, Whole, Complete
  PROVE  SuccessIsTheWholeRest'
<1> SUFFICES ASSUME xfer.resp \in {200, 206} PROVE SuccessIsTheWholeRest'
  BY DEF Complete, Performed, SuccessIsTheWholeRest, Failed, TypeOK, Transfers
<1>1. curl.resume = file.initial /\ exists(file.path) = curl.resume + xfer.got
  BY DEF Complete, Whole, InStep, ResumeInStep
<1>2. xfer.got = StreamLength[media] - curl.resume
  BY DEF Complete, BodyLength
<1>3. exists(file.path) = StreamLength[media]
  BY <1>1, <1>2, FileAssumption DEF TypeOK, Handle
<1>4. \A k \in (file.initial + 1) .. StreamLength[media] :
        disk[file.path][k] = <<media, k>>
  BY <1>3 DEF Complete, Whole, RestIsTheStream
<1> QED BY <1>3, <1>4 DEF Complete, Performed, SuccessIsTheWholeRest, exists

\* A byte received is the next one of the stream.
LEMMA ReceiveKeepsTheStream ==
  ASSUME TypeOK, Whole, Receive
  PROVE  RestIsTheStream'
<1>1. xfer.resp # 0 /\ xfer'.resp = xfer.resp /\ file' = file /\ media' = media
  BY DEF Receive, BodyLeft, TypeOK, Transfers
<1> SUFFICES ASSUME xfer.resp \in {200, 206},
                    NEW k \in (file.initial + 1) .. Len(disk'[file.path])
             PROVE  disk'[file.path][k] = <<media, k>>
  BY <1>1 DEF RestIsTheStream, exists
<1> DEFINE f == disk[file.path]
<1>2. f \in Bytes /\ file.path \in Paths /\ disk \in [Paths -> Bytes]
  BY DEF TypeOK, Files
<1>3. curl.resume + xfer.got = Len(f)
  BY DEF Receive, BodyLeft, Whole, InStep, ResumeInStep, exists
<1>4. disk'[file.path] = Append(f, <<media, Len(f) + 1>>)
  BY <1>2, <1>3 DEF Receive, BodySource
<1>5. Len(disk'[file.path]) = Len(f) + 1
  BY <1>2, <1>4 DEF Bytes
<1>6. file.initial \in Nat
  BY DEF TypeOK, Files
<1>7. CASE k = Len(f) + 1
  BY <1>2, <1>4, <1>7 DEF Bytes
<1>8. CASE k \in (file.initial + 1) .. Len(f)
  <2>1. f[k] = <<media, k>>
    BY <1>8 DEF Whole, RestIsTheStream, Receive, BodyLeft, exists
  <2>2. k \in 1 .. Len(f)
    BY <1>2, <1>6, <1>8 DEF Bytes
  <2> QED BY <1>2, <1>4, <2>1, <2>2 DEF Bytes
<1> QED BY <1>2, <1>5, <1>6, <1>7, <1>8 DEF Bytes

\* Whole is an invariant: it is inductive.
LEMMA AlwaysWhole == Spec => []Whole
<1>1. Init => Whole
  BY DEF Init, Whole, InStep, LengthIsCurrent, ResumeInStep, RestIsTheStream,
     SuccessIsTheWholeRest
<1>2. TypeOK /\ Whole /\ [Next]_vars => Whole'
  <2> SUFFICES ASSUME TypeOK, Whole, [Next]_vars PROVE Whole'
    OBVIOUS
  <2>1. InStep'
    BY StaysInStep DEF Whole
  <2> SUFFICES RestIsTheStream' /\ SuccessIsTheWholeRest'
    BY <2>1 DEF Whole
  <2>2. CASE Open
    <3>1. exists(file.path)' = file'.initial
      BY <2>1, <2>2 DEF Open, InStep, ResumeInStep, NoTransfer, set_transfer,
         TypeOK, Handle, Files
    <3> QED BY <2>2, <3>1 DEF Open, NoTransfer, RestIsTheStream,
              SuccessIsTheWholeRest
  <2>3. ASSUME NEW code, Respond(code) PROVE RestIsTheStream' /\ SuccessIsTheWholeRest'
    <3>1. exists(file.path) = file.initial
      <4>1. xfer.got = 0 /\ file.initial \in Nat
        BY <2>3 DEF Respond, Whole, RestIsTheStream, TypeOK, Files
      <4>2. exists(file.path) = file.initial + xfer.got
        BY <2>3 DEF Respond, Whole, InStep, ResumeInStep
      <4> QED BY <4>1, <4>2
    <3>2. code # 0
      BY <2>3, GetAssumption DEF Respond, Replies
    <3> QED BY <2>3, <3>1, <3>2 DEF Respond, RestIsTheStream,
              SuccessIsTheWholeRest, exists, TypeOK, Transfers, Files
  <2>4. CASE Receive
    BY <2>4, ReceiveKeepsTheStream DEF Receive, BodyLeft, SuccessIsTheWholeRest
  <2>5. ASSUME NEW rc, Performed(rc),
               rc = CURLE_OK => SuccessIsTheWholeRest'
        PROVE  RestIsTheStream' /\ SuccessIsTheWholeRest'
    BY <2>5 DEF Performed, RestIsTheStream, SuccessIsTheWholeRest, Failed,
       TypeOK, Transfers
  <2>6. CASE Complete
    BY <2>5, <2>6, CompleteIsWhole DEF Complete
  <2>7. CASE RangeRefused
    <3>1. PICK rc : /\ Performed(rc)
                    /\ rc = CURLE_OK => xfer.resp # 200
      BY <2>7 DEF RangeRefused, CURLE_OK, CURLE_RANGE_ERROR
    <3>2. rc = CURLE_OK => Failed'
      BY <2>7, <3>1 DEF RangeRefused, Accepted, Performed, Failed, TypeOK,
         Transfers
    <3> QED BY <2>5, <3>1, <3>2 DEF SuccessIsTheWholeRest
  <2>8. CASE ReceiveFails \/ NetworkFails \/ TimeOut \/ ProgressAbort
    BY <2>5, <2>8 DEF ReceiveFails, NetworkFails, TimeOut, ProgressAbort,
       CURLE_OK, CURLE_WRITE_ERROR, CURLE_RECV_ERROR, CURLE_OPERATION_TIMEDOUT,
       CURLE_ABORTED_BY_CALLBACK
  <2>9. CASE pc' \notin {"perform", "performed"}
    BY <2>9 DEF RestIsTheStream, SuccessIsTheWholeRest
  <2>10. CASE UNCHANGED <<disk, media, file, xfer, pc>>
    BY <2>10 DEF Whole, RestIsTheStream, SuccessIsTheWholeRest, Failed, exists
  <2>11. CASE Transfer
    BY <2>2, <2>3, <2>4, <2>6, <2>7, <2>8, <2>9, <2>11 DEF Transfer, OpenFails
  <2>12. CASE Attempt \/ Verdict
    BY <2>9, <2>12 DEF Attempt, TrEscapes, StatFails, FoundComplete, Construct,
       Wait, Try, Exhausted, Verdict, WriteSucceeds, TimestampFails,
       WriteThrows, WriteSkips, WriteFails, ExecDone, ExecFails, WriteIsTrue
  <2>13. CASE SetupCurl \/ (\E m \in Media : Call(m)) \/ Leave
    BY <2>9, <2>13 DEF SetupCurl, Call, Leave
  <2>14. CASE Sigusr1 \/ UNCHANGED vars
    BY <2>10, <2>14 DEF Sigusr1, vars
  <2> QED BY <2>11, <2>12, <2>13, <2>14 DEF Next, Escaped
<1> QED BY <1>1, <1>2, TypeCorrect, PTL DEF Spec

\* A transfer that cc::file::write reports as a success has put the rest of the
\* stream, to its end, behind the initial length of the file: an error page, a
\* refused range or a broken connection is never taken for a success.
THEOREM SuccessIsWhole == Spec => []SuccessIsTheWholeRest
<1>1. Whole => SuccessIsTheWholeRest
  BY DEF Whole
<1> QED BY <1>1, AlwaysWhole, PTL

-----------------------------------------------------------------------------
(* Media retrieved afresh.                                                 *)

\* Neither an option nor a name given makes cc::get use a file that is there.
Fresh == ~(vm.continue \/ vm.output_file \/ vm.overwrite)
CopyOf(m) == [k \in 1 .. StreamLength[m] |-> <<m, k>>]

\* A transfer starts with an empty file, and what cc::get returns from, if not
\* a failure, is a copy of the media.  The loop is only taken again, and left
\* by its condition, after a failure.
FreshInv ==
  Fresh =>
    /\ pc \in {"wait", "try", "open", "perform", "performed"} => file.initial = 0
    /\ pc = "loop" => retry = 0 \/ Failed
    /\ pc = "exec" => file.nothing_todo \/ Failed \/ disk[file.path] = CopyOf(media)
    /\ pc = "returned" => vm.no_download \/ Failed \/ disk[file.path] = CopyOf(media)

\* The name found for a media that is not complete is that of an empty file.
LEMMA TargetIsEmpty ==
  ASSUME TypeOK, Fresh, NEW p \in Paths, IsTarget(p), ~NothingTodo(p)
  PROVE  FileAt(p).initial = 0
<1>1. PICK k \in 0 .. MaxSuffix : IsFirstStop(k) /\ p = Candidate(k)
  BY DEF IsTarget, Fresh
<1>2. exists(p) = 0 \/ exists(p) >= ContentLength[media]
  BY <1>1 DEF IsFirstStop, StopsAt, Fresh
<1>3. exists(p) \in Nat
  BY DEF exists, TypeOK, Bytes
<1>4. exists(p) = 0
  BY <1>2, <1>3 DEF NothingTodo, Fresh, exists
<1> QED BY <1>4 DEF FileAt, InitialLength

\* A success that started with an empty file leaves a copy in it.
LEMMA SuccessIsCopy ==
  ASSUME TypeOK, SuccessIsTheWholeRest, pc = "performed", ~Failed,
         file.initial = 0
  PROVE  disk[file.path] = CopyOf(media)
<1> DEFINE f == disk[file.path]
<1>1. f \in Bytes
  BY DEF TypeOK, Files
<1>2. /\ Len(f) = StreamLength[media]
      /\ \A k \in 1 .. StreamLength[media] : f[k] = <<media, k>>
  BY DEF SuccessIsTheWholeRest, exists
<1>3. f = [k \in 1 .. Len(f) |-> f[k]]
  BY <1>1 DEF Bytes
<1> QED BY <1>2, <1>3 DEF CopyOf

\* FreshInv is inductive, with what a success means.
LEMMA FreshStep == TypeOK /\ Whole /\ FreshInv /\ [Next]_vars => FreshInv'
<1> SUFFICES ASSUME TypeOK, Whole, FreshInv, [Next]_vars, Fresh' PROVE FreshInv'
  BY DEF FreshInv
<1>1. vm' = vm
  BY DEF Next, vars, SetupCurl, Call, Leave, Escaped, Sigusr1, Attempt,
     TrEscapes, StatFails, FoundComplete, Construct, Wait, Try, Exhausted,
     Transfer, Open, OpenFails, Respond, Receive, ReceiveFails, Complete,
     RangeRefused, NetworkFails, TimeOut, ProgressAbort, Performed, Verdict,
     WriteSucceeds, TimestampFails, WriteThrows, WriteSkips, WriteFails,
     ExecDone, ExecFails, WriteIsTrue
<1>2. Fresh
  BY <1>1 DEF Fresh
<1>3. CASE pc' \in {"idle", "threw", "escaped"}
  BY <1>3 DEF FreshInv
<1>4. ASSUME NEW m \in Media, Call(m) PROVE FreshInv'
  BY <1>4 DEF Call, FreshInv
<1>5. CASE FoundComplete
  <2>1. CASE pc' = "exec"
    <3>1. PICK p \in Paths : NothingTodo(p) /\ file' = FileAt(p)
      BY <1>5 DEF FoundComplete
    <3> QED BY <2>1, <3>1 DEF FileAt, FreshInv
  <2> QED BY <1>3, <1>5, <2>1 DEF FoundComplete
<1>6. CASE Construct
  <2>1. file'.initial = 0 /\ pc' \in {"wait", "try"}
    BY <1>2, <1>6, TargetIsEmpty DEF Construct
  <2> QED BY <2>1 DEF FreshInv
<1>7. CASE Wait \/ Try
  BY <1>2, <1>7 DEF Wait, Try, FreshInv
<1>8. CASE Exhausted
  <2>1. retry # 0
    BY <1>8, SettingsHaveTypes DEF Exhausted, TypeOK
  <2> QED BY <1>2, <1>8, <2>1 DEF Exhausted, FreshInv, Failed
<1>9. CASE Open \/ Receive \/ \E code \in ErrorCodes \cup {200, 206} : Respond(code)
  BY <1>2, <1>9 DEF Open, Receive, BodyLeft, Respond, FreshInv
<1>10. ASSUME NEW rc, Performed(rc), pc = "perform" PROVE FreshInv'
  BY <1>2, <1>10 DEF Performed, FreshInv
<1>11. CASE Transfer
  BY <1>3, <1>9, <1>10, <1>11 DEF Transfer, OpenFails, ReceiveFails, BodyLeft,
     Complete, RangeRefused, NetworkFails, TimeOut, ProgressAbort
<1>12. CASE WriteSucceeds
  <2>1. disk[file.path] = CopyOf(media)
    BY <1>2, <1>12, SuccessIsCopy DEF WriteSucceeds, FreshInv, Whole
  <2> QED BY <1>12, <2>1 DEF WriteSucceeds, WriteIsTrue, FreshInv
<1>13. CASE WriteSkips \/ WriteFails
  BY <1>13 DEF WriteSkips, WriteFails, WriteIsTrue, FreshInv, Failed
<1>14. CASE ExecDone
  BY <1>2, <1>14 DEF ExecDone, FreshInv, Failed
<1>15. CASE Sigusr1 \/ UNCHANGED vars
  BY <1>2, <1>15 DEF Sigusr1, vars, FreshInv, Failed
<1>16. CASE Attempt
  BY <1>3, <1>5, <1>6, <1>7, <1>8, <1>16 DEF Attempt, TrEscapes, StatFails
<1>17. CASE Verdict
  BY <1>3, <1>12, <1>13, <1>14, <1>17 DEF Verdict, TimestampFails, WriteThrows,
     ExecFails
<1>18. CASE SetupCurl \/ Leave
  BY <1>3, <1>18 DEF SetupCurl, Leave
<1> QED BY <1>4, <1>11, <1>15, <1>16, <1>17, <1>18 DEF Next, Escaped

\* A file that is not empty, and not being received into, stays as it is.
LEMMA OthersStay ==
  ASSUME TypeOK, InStep, FreshInv, Fresh, [Next]_vars, NEW p \in Paths,
         disk[p] # <<>>, pc = "perform" => p # file.path
  PROVE  disk'[p] = disk[p] /\ (pc' = "perform" => p # file'.path)
<1>1. CASE Open
  <2>1. Len(disk[file.path]) = 0
    BY <1>1 DEF Open, InStep, LengthIsCurrent, InitialLength, exists, FreshInv,
       Fresh
  <2>2. disk[file.path] \in Bytes
    BY DEF TypeOK, Files
  <2>3. p # file.path
    BY <2>1, <2>2 DEF Bytes
  <2> QED BY <1>1, <2>3 DEF Open, TypeOK
<1>2. CASE Receive
  BY <1>2 DEF Receive, BodyLeft, TypeOK
<1>3. CASE UNCHANGED <<disk, file>> /\ (pc' = "perform" => pc = "perform")
  BY <1>3
<1>4. CASE disk' = disk /\ pc' # "perform"
  BY <1>4
<1>5. CASE Transfer
  BY <1>1, <1>2, <1>3, <1>4, <1>5 DEF Transfer, OpenFails, Respond, ReceiveFails,
     Complete, RangeRefused, NetworkFails, TimeOut, ProgressAbort, Performed
<1>6. CASE Attempt
  BY <1>4, <1>6 DEF Attempt, TrEscapes, StatFails, FoundComplete, Construct,
     Wait, Try, Exhausted
<1>7. CASE Verdict
  BY <1>4, <1>7 DEF Verdict, WriteSucceeds, TimestampFails, WriteThrows,
     WriteSkips, WriteFails, ExecDone, ExecFails, WriteIsTrue
<1>8. CASE SetupCurl \/ (\E m \in Media : Call(m)) \/ Leave
  BY <1>4, <1>8 DEF SetupCurl, Call, Leave
<1>9. CASE Sigusr1 \/ UNCHANGED vars
  BY <1>3, <1>9 DEF Sigusr1, vars
<1> QED BY <1>5, <1>6, <1>7, <1>8, <1>9 DEF Next, Escaped
=============================================================================
