--------------------------------- MODULE Get --------------------------------
(***************************************************************************)
(* cc::get: one media stream is transferred to a file, with retries.  The  *)
(* function makes a cc::file (module File), waits, asks cc::file::write    *)
(* for the transfer, and runs the --exec commands.  libcurl calls write_cb *)
(* and progress_cb from within curl_easy_perform; SIGUSR1 may arrive at    *)
(* any moment and is only looked at in progress_cb.                        *)
(*                                                                         *)
(* The server and libcurl are part of the environment.  A reply is a       *)
(* response code and a body: the rest of the stream for 200 and 206, an    *)
(* error page otherwise (CURLOPT_FAILONERROR is not set, and write looks   *)
(* at the response code itself).  libcurl refuses a reply to a resumed     *)
(* request that is not a 206, and reports success only when the whole body *)
(* has arrived.                                                            *)
(***************************************************************************)
EXTENDS File, Curl

CONSTANTS
  ErrorCodes,    \* the HTTP error response codes under study
  PageLength,    \* the length of the body of an error reply
  InitialDisks   \* what the output directory may hold when cclive starts

\* The CURLcode values that cclive tells apart, and one for each other cause.
CURLE_OK == 0
CURLE_WRITE_ERROR == 23
CURLE_OPERATION_TIMEDOUT == 28
CURLE_RANGE_ERROR == 33
CURLE_ABORTED_BY_CALLBACK == 42
CURLE_RECV_ERROR == 56

ASSUME GetAssumption ==
  /\ ErrorCodes \subseteq Nat \ {0, 200, 206}
  /\ PageLength \in Nat
  /\ \A d \in InitialDisks :
       /\ d \in [Paths -> Bytes]
       /\ \A p \in Paths : \A i \in 1 .. Len(d[p]) : d[p][i][2] = i

VARIABLES
  curl,     \* the easy handle
  sigusr1,  \* cc::var::recv_sigusr1
  retry,    \* the local variable of that name in cc::get
  xfer,     \* the transfer: response code (0: none yet), CURLcode, and the
            \* number of bytes that write_cb has been given
  pc        \* where the program is

vars == <<vm, disk, media, file, curl, sigusr1, retry, xfer, pc>>

Transfers == [resp : Nat, rc : Nat, got : Nat]
NoTransfer == [resp |-> 0, rc |-> CURLE_OK, got |-> 0]
NoFile == [path |-> <<OutputFile, 0>>, initial |-> 0, nothing_todo |-> FALSE]

\* idle: not in cc::get.  loop: about to test retry <= max_retries.  wait, try:
\* before and after cc::wait.  open, perform, performed: in cc::file::write,
\* before open_file, in curl_easy_perform, after _restore.  exec: in cc::exec.
\* returned, threw: cc::get returned, or threw a std::runtime_error.  escaped:
\* it threw cc::error::tuple, which is no std::runtime_error.
Locations == {"idle", "loop", "wait", "try", "open", "perform", "performed",
              "exec", "returned", "threw", "escaped"}

Init ==
  /\ vm \in Settings
  /\ disk \in InitialDisks
  /\ media \in Media
  /\ file = NoFile
  /\ curl = NewHandle
  /\ sigusr1 = FALSE
  /\ retry = 0
  /\ xfer = NoTransfer
  /\ pc = "idle"

-----------------------------------------------------------------------------
(* Before and after the call.                                              *)

\* query::setup_curl, before libquvi is asked to parse the input URL.
SetupCurl ==
  /\ pc = "idle"
  /\ curl' = curl_setup(curl, vm.throttle, vm.transfer_timeout)
  /\ UNCHANGED <<vm, disk, media, file, sigusr1, retry, xfer, pc>>

\* A bound: each attempt may need a new suffix, so there must be enough left.
HasRoom(m) == Len(disk[<<BaseName[m], MaxSuffix - vm.max_retries>>]) = 0

\* cc::get is called with the media that libquvi made of the URL.
Call(m) ==
  /\ pc = "idle"
  /\ HasRoom(m)
  /\ media' = m
  /\ retry' = 0
  /\ pc' = "loop"
  /\ UNCHANGED <<vm, disk, file, curl, sigusr1, xfer>>

\* The caller has taken the return or caught the exception.
Leave ==
  /\ pc \in {"returned", "threw"}
  /\ file' = NoFile
  /\ retry' = 0
  /\ xfer' = NoTransfer
  /\ pc' = "idle"
  /\ UNCHANGED <<vm, disk, media, curl, sigusr1>>

-----------------------------------------------------------------------------
(* The loop of cc::get up to the transfer.                                 *)

\* Mutation: one attempt too many.
CanTry_OneMore == pc = "loop" /\ retry <= vm.max_retries + 1

CanTry == pc = "loop" /\ retry <= vm.max_retries

\* A pattern of --tr does not compile, and the title has got to it: the ones
\* before it have not left it empty.  --output-file does not use --tr.
TrEscapes ==
  /\ CanTry
  /\ media \in vm.tr_fails /\ ~vm.output_file
  /\ pc' = "escaped"
  /\ UNCHANGED <<vm, disk, media, file, curl, sigusr1, retry, xfer>>

HasName == media \notin vm.tr_fails \/ vm.output_file

\* fs::exists or fs::file_size throws (--overwrite with a formatted name
\* does not look at the file).
StatFails ==
  /\ CanTry /\ HasName
  /\ vm.output_file \/ ~vm.overwrite
  /\ pc' = "threw"
  /\ UNCHANGED <<vm, disk, media, file, curl, sigusr1, retry, xfer>>

\* The file is complete: the commands are run, then E_NOTHING_TODO is thrown.
FoundComplete ==
  /\ CanTry /\ HasName
  /\ \E p \in Paths :
       /\ IsTarget(p) /\ NothingTodo(p)
       /\ file' = FileAt(p)
  /\ pc' = IF vm.exec THEN "exec" ELSE "threw"
  /\ UNCHANGED <<vm, disk, media, curl, sigusr1, retry, xfer>>

\* The file is to be transferred.  Its path and length are settled here,
\* before the wait.
Construct ==
  /\ CanTry /\ HasName
  /\ \E p \in Paths :
       /\ IsTarget(p) /\ ~NothingTodo(p)
       /\ file' = FileAt(p)
  /\ pc' = IF retry > 0 THEN "wait" ELSE "try"
  /\ UNCHANGED <<vm, disk, media, curl, sigusr1, retry, xfer>>

\* cc::wait.
Wait ==
  /\ pc = "wait"
  /\ pc' = "try"
  /\ UNCHANGED <<vm, disk, media, file, curl, sigusr1, retry, xfer>>

\* Mutation: the attempt is not counted.
Try_Uncounted ==
  /\ pc = "try"
  /\ pc' = IF vm.no_download THEN "returned" ELSE "open"
  /\ UNCHANGED <<vm, disk, media, file, curl, sigusr1, retry, xfer>>

\* The details are printed, ++retry, and --no-download ends the call.
Try ==
  /\ pc = "try"
  /\ retry' = retry + 1
  /\ pc' = IF vm.no_download THEN "returned" ELSE "open"
  /\ UNCHANGED <<vm, disk, media, file, curl, sigusr1, xfer>>

\* Too many attempts: the loop ends, and cc::get returns like any other call.
Exhausted ==
  /\ pc = "loop" /\ retry > vm.max_retries
  /\ pc' = "returned"
  /\ UNCHANGED <<vm, disk, media, file, curl, sigusr1, retry, xfer>>

-----------------------------------------------------------------------------
(* cc::file::write up to curl_easy_perform.                                *)

Open ==
  /\ pc = "open"
  /\ disk' = [disk EXCEPT ![file.path] = Opened]
  /\ curl' = set_transfer(curl, file.initial, vm.timestamp)
  /\ xfer' = NoTransfer
  /\ pc' = "perform"
  /\ UNCHANGED <<vm, media, file, sigusr1, retry>>

OpenFails ==
  /\ pc = "open"
  /\ pc' = "threw"
  /\ UNCHANGED <<vm, disk, media, file, curl, sigusr1, retry, xfer>>

-----------------------------------------------------------------------------
(* Inside curl_easy_perform.                                               *)

Replies ==
  ErrorCodes \cup IF curl.resume = 0 THEN {200}
                  ELSE IF curl.resume < StreamLength[media] THEN {200, 206}
                  ELSE {200}

\* libcurl takes the body of this reply: it was not asked to resume, or the
\* server did.
Accepted == curl.resume = 0 \/ xfer.resp = 206

BodySource == IF xfer.resp \in {200, 206} THEN media ELSE Other
BodyLength == IF xfer.resp \in {200, 206} THEN StreamLength[media] - curl.resume
              ELSE PageLength

Respond(code) ==
  /\ pc = "perform" /\ xfer.resp = 0
  /\ code \in Replies
  /\ xfer' = [xfer EXCEPT !.resp = code]
  /\ UNCHANGED <<vm, disk, media, file, curl, sigusr1, retry, pc>>

BodyLeft ==
  /\ pc = "perform" /\ xfer.resp # 0
  /\ Accepted /\ curl.write_cb /\ curl.write_data
  /\ xfer.got < BodyLength

\* write_cb writes and flushes the next byte of the body.
Receive ==
  /\ BodyLeft
  /\ disk' = [disk EXCEPT ![file.path] =
                Append(@, <<BodySource, curl.resume + xfer.got + 1>>)]
  /\ xfer' = [xfer EXCEPT !.got = @ + 1]
  /\ UNCHANGED <<vm, media, file, curl, sigusr1, retry, pc>>

\* curl_easy_perform returns rc, and the options are restored.
Performed(rc) ==
  /\ pc' = "performed"
  /\ xfer' = [xfer EXCEPT !.rc = rc]
  /\ curl' = restore(curl)
  /\ UNCHANGED <<vm, disk, media, file, retry>>

\* write_cb could not write.
ReceiveFails == BodyLeft /\ Performed(CURLE_WRITE_ERROR) /\ UNCHANGED sigusr1

\* The whole body has arrived.
Complete ==
  /\ pc = "perform" /\ xfer.resp # 0
  /\ Accepted /\ xfer.got = BodyLength
  /\ Performed(CURLE_OK)
  /\ UNCHANGED sigusr1

\* The server did not resume.  An error reply (416 among them) may also end
\* the transfer without an error, its body ignored.
RangeRefused ==
  /\ pc = "perform" /\ xfer.resp # 0
  /\ ~Accepted
  /\ \E rc \in {CURLE_RANGE_ERROR} \cup
               (IF xfer.resp = 200 THEN {} ELSE {CURLE_OK}) : Performed(rc)
  /\ UNCHANGED sigusr1

\* The connection cannot be made, or breaks.
NetworkFails ==
  /\ pc = "perform"
  /\ Performed(CURLE_RECV_ERROR)
  /\ UNCHANGED sigusr1

\* --transfer-timeout expires.
TimeOut ==
  /\ pc = "perform" /\ curl.timeout > 0
  /\ Performed(CURLE_OPERATION_TIMEDOUT)
  /\ UNCHANGED sigusr1

\* Mutation: the flag is not reset when the transfer is aborted for it.
ProgressAbort_KeepsFlag ==
  /\ pc = "perform" /\ curl.progress_cb /\ sigusr1
  /\ Performed(CURLE_ABORTED_BY_CALLBACK)
  /\ UNCHANGED sigusr1

\* progress_cb finds recv_sigusr1 set.
ProgressAbort ==
  /\ pc = "perform" /\ curl.progress_cb /\ sigusr1
  /\ sigusr1' = FALSE
  /\ Performed(CURLE_ABORTED_BY_CALLBACK)

-----------------------------------------------------------------------------
(* After curl_easy_perform: write's verdict, and what cc::get makes of it. *)

\* Mutation: the response code is not looked at.
Failed_CurlOnly == xfer.rc # CURLE_OK

\* write has something to report: libcurl failed, or the reply was neither a
\* 200 nor a 206.
Failed == xfer.rc # CURLE_OK \/ xfer.resp \notin {200, 206}

\* print_error: the errors that are not worth a retry.
Unrecoverable == xfer.resp >= 400 /\ xfer.resp <= 500

\* write returns true: the commands are run, if any, and cc::get returns.
WriteIsTrue ==
  /\ pc' = IF vm.exec THEN "exec" ELSE "returned"
  /\ UNCHANGED <<vm, disk, media, file, curl, sigusr1, retry, xfer>>

WriteSucceeds == pc = "performed" /\ ~Failed /\ WriteIsTrue

\* fs::last_write_time throws.
TimestampFails ==
  /\ pc = "performed" /\ ~Failed /\ vm.timestamp
  /\ pc' = "threw"
  /\ UNCHANGED <<vm, disk, media, file, curl, sigusr1, retry, xfer>>

WriteThrows ==
  /\ pc = "performed" /\ Failed /\ Unrecoverable
  /\ pc' = "threw"
  /\ UNCHANGED <<vm, disk, media, file, curl, sigusr1, retry, xfer>>

\* SIGUSR1: the transfer is skipped as if it had succeeded.
WriteSkips ==
  /\ pc = "performed" /\ Failed /\ ~Unrecoverable
  /\ xfer.rc = CURLE_ABORTED_BY_CALLBACK
  /\ WriteIsTrue

\* Any other error: write returns false, and cc::get goes round the loop.
WriteFails ==
  /\ pc = "performed" /\ Failed /\ ~Unrecoverable
  /\ xfer.rc # CURLE_ABORTED_BY_CALLBACK
  /\ pc' = "loop"
  /\ UNCHANGED <<vm, disk, media, file, curl, sigusr1, retry, xfer>>

\* All commands have run; what they return is not looked at.
ExecDone ==
  /\ pc = "exec"
  /\ pc' = IF file.nothing_todo THEN "threw" ELSE "returned"
  /\ UNCHANGED <<vm, disk, media, file, curl, sigusr1, retry, xfer>>

\* fork fails.
ExecFails ==
  /\ pc = "exec"
  /\ pc' = "threw"
  /\ UNCHANGED <<vm, disk, media, file, curl, sigusr1, retry, xfer>>

-----------------------------------------------------------------------------
\* The handler of SIGUSR1 sets the flag, wherever the program is.
Sigusr1 ==
  /\ sigusr1' = TRUE
  /\ UNCHANGED <<vm, disk, media, file, curl, retry, xfer, pc>>

Attempt == \/ TrEscapes \/ StatFails \/ FoundComplete \/ Construct
           \/ Wait \/ Try \/ Exhausted

Transfer == \/ Open \/ OpenFails
            \/ \E code \in ErrorCodes \cup {200, 206} : Respond(code)
            \/ Receive \/ ReceiveFails \/ Complete \/ RangeRefused
            \/ NetworkFails \/ TimeOut \/ ProgressAbort

Verdict == \/ WriteSucceeds \/ TimestampFails \/ WriteThrows
           \/ WriteSkips \/ WriteFails \/ ExecDone \/ ExecFails

\* An exception that cc::get's caller does not catch ends the process.
Escaped == pc = "escaped" /\ UNCHANGED vars

Next ==
  \/ SetupCurl \/ (\E m \in Media : Call(m)) \/ Leave
  \/ Attempt \/ Transfer \/ Verdict \/ Sigusr1 \/ Escaped

Spec == Init /\ [][Next]_vars

-----------------------------------------------------------------------------
(* Properties.                                                             *)

\* The type invariant.
TypeOK ==
  /\ vm \in Settings
  /\ disk \in [Paths -> Bytes]
  /\ media \in Media
  /\ file \in Files
  /\ curl \in Handle
  /\ sigusr1 \in BOOLEAN
  /\ retry \in 0 .. (vm.max_retries + 1)
  /\ xfer \in Transfers
  /\ pc \in Locations

\* The offset the server was asked for and the bytes received so far always
\* add up to the length of the file: cc::file's length is taken long before
\* the file is opened (a wait lies between), and the open mode, the offset
\* given to libcurl and the body libcurl accepts must all agree with it.
ResumeInStep ==
  pc = "perform" => /\ curl.resume = file.initial
                    /\ exists(file.path) = curl.resume + xfer.got

\* Across all attempts, and the calls that follow on the same handle and the
\* same files, cc::get never moves a byte to another offset, leaves a hole or
\* gives up what a file holds without --overwrite.
Stored == INSTANCE Store WITH Path <- Paths, Source <- Sources,
                              overwrite <- vm.overwrite
ImplementsStore == Stored!Spec

\* Outside curl_easy_perform, where libquvi uses the handle for pages of its
\* own, libcurl calls neither write_cb, whose CURLOPT_WRITEDATA points to an
\* object that is gone (file.cpp never resets it), nor progress_cb, whose bar
\* is gone, and asks for whole pages, whichever way the last transfer ended: on
\* SIGUSR1, on a timeout, on an error, with an exception.  Inside it, write_cb
\* is never without its object.
HandleIsSafe ==
  IF pc = "perform" THEN curl.write_cb /\ curl.write_data
  ELSE CallsNobody(curl) /\ AsksForPages(curl)

\* When cc::file::write takes a transfer for a success, everything from the
\* offset it started at is the stream's, up to its very end.
SuccessIsTheWholeRest ==
  pc = "performed" /\ ~Failed =>
    /\ exists(file.path) = StreamLength[media]
    /\ \A i \in (file.initial + 1) .. StreamLength[media] :
         disk[file.path][i] = <<media, i>>

-----------------------------------------------------------------------------
(* What the manual page says, and the code does not do.                    *)

\* --exec: the commands are invoked "after each successfully finished
\* download" and "if the media is fully retrieved already" (cclive.1).
CommandsRunOnWholeMedia ==
  pc = "exec" => exists(file.path) >= StreamLength[media]

\* --max-retries: "the program will skip retrying altogether if the server
\* returned HTTP 400 (and over)" (cclive.1).
NoRetryAfterHttpError ==
  [][pc = "performed" /\ pc' = "loop" => xfer.resp < 400]_vars
=============================================================================
