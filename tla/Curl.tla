-------------------------------- MODULE Curl --------------------------------
(***************************************************************************)
(* The options of the one CURL easy handle of the process.  libquvi owns   *)
(* the handle and uses it to fetch and parse the media page; cclive        *)
(* borrows it (QUVIINFO_CURL), sets its own options for the transfer of    *)
(* the media stream, and resets some of them afterwards, by name.  Neither *)
(* CURLOPT_WRITEDATA nor CURLOPT_URL is among those: the first still       *)
(* points to the write_data object of cc::file::write when that is gone.   *)
(* The options that no behaviour of cclive depends on (URL, proxy, agent,  *)
(* DNS and connect timeouts, verbosity) are left out.                      *)
(***************************************************************************)
EXTENDS Naturals

\* The type of the handle: whether CURLOPT_WRITEFUNCTION is cclive's write_cb;
\* whether CURLOPT_WRITEDATA is an object of cclive's, alive or not; whether
\* libcurl asks cclive's progress_cb; how the body is to be encoded; whether
\* headers are part of it; whether the file time is asked for; the offset to
\* resume from; and the speed and time limits (0: none).
Handle == [write_cb : BOOLEAN, write_data : BOOLEAN, progress_cb : BOOLEAN,
           identity : BOOLEAN, header : BOOLEAN, filetime : BOOLEAN,
           resume : Nat, speed : Nat, timeout : Nat]

\* The handle as quvi_init() leaves it: what cclive sets has libcurl's default.
NewHandle == [write_cb |-> FALSE, write_data |-> FALSE, progress_cb |-> FALSE,
              identity |-> FALSE, header |-> FALSE, filetime |-> FALSE,
              resume |-> 0, speed |-> 0, timeout |-> 0]

\* cc::curl_setup: run before each use of libquvi, once per input URL.
curl_setup(h, throttle, transfer_timeout) ==
  [h EXCEPT !.speed = throttle, !.timeout = transfer_timeout]

\* Mutation: CURLOPT_NOPROGRESS stays 1, and libcurl asks nobody.
set_transfer_NoProgress(h, initial, timestamp) ==
  [h EXCEPT !.write_cb = TRUE, !.write_data = TRUE, !.identity = TRUE,
            !.header = FALSE, !.filetime = @ \/ timestamp, !.resume = initial]

\* _set: the options of one transfer, which starts at offset initial.
set_transfer(h, initial, timestamp) ==
  [h EXCEPT !.write_cb = TRUE, !.write_data = TRUE, !.progress_cb = TRUE,
            !.identity = TRUE, !.header = FALSE, !.filetime = @ \/ timestamp,
            !.resume = initial]

\* Mutation: CURLOPT_WRITEFUNCTION is not reset, and libquvi's next page goes
\* to the object that is gone.
restore_KeepsFunction(h) ==
  [h EXCEPT !.progress_cb = FALSE, !.identity = FALSE, !.header = TRUE,
            !.filetime = FALSE, !.resume = 0, !.speed = 0]

\* _restore, and the resets that cc::file::write adds to it: write_data stays
\* as it is.  The speed limit goes too, although curl_setup and not _set put
\* it there, and CURLOPT_HEADER becomes 1, whatever it was before.
restore(h) ==
  [h EXCEPT !.write_cb = FALSE, !.progress_cb = FALSE, !.identity = FALSE,
            !.header = TRUE, !.filetime = FALSE, !.resume = 0, !.speed = 0]

\* libcurl calls none of cclive's functions.
CallsNobody(h) == ~h.write_cb /\ ~h.progress_cb

\* What is asked for is all of a page, from its beginning, and no file time.
AsksForPages(h) == ~h.identity /\ ~h.filetime /\ h.resume = 0
=============================================================================
