------------------------------- MODULE Sharing ------------------------------
(***************************************************************************)
(* Several cclive at work in one directory, at the same time or after one  *)
(* another, killed and started again.  Each takes the length of its file   *)
(* when cc::file is constructed and opens it later, after cc::wait; in     *)
(* between and afterwards the others do as they like, and so no process    *)
(* can rely on the length it took.  Nothing locks a file.                  *)
(*                                                                         *)
(* A process opens its file for appending, and then every write goes to    *)
(* the end that the file has at that moment; or truncates it, and then its *)
(* writes go where the last one ended, leaving a hole if another process   *)
(* has cut the file short.  Which file, which offset and which mode are    *)
(* those of File, taken for each process.                                  *)
(***************************************************************************)
EXTENDS Integers, Sequences

CONSTANTS
  Media, Other, BaseName, OutputFile, ContentLength, StreamLength, MaxSuffix,
  Settings,      \* as in File
  Processes,     \* the processes
  Beginnings,    \* what the directory may hold before: functions as disk
  Jobs,          \* the command lines: [vm : Settings, media : Media]
  PageLength,    \* the length of the body of an error reply
  MaxAttempts    \* bound on the transfers of a process, restarts included

ThePaths == ({BaseName[m] : m \in Media} \cup {OutputFile}) \X (0 .. MaxSuffix)

\* Every byte of the media m is at its offset.
InPlace(f, m) == \A k \in 1 .. Len(f) : f[k][1] = m => f[k] = <<m, k>>

ASSUME SharingAssumption ==
  /\ MaxSuffix \in Nat /\ PageLength \in Nat /\ MaxAttempts \in Nat
  /\ Jobs \subseteq [vm : Settings, media : Media]
  /\ \A s \in Settings : s.overwrite \in BOOLEAN
  /\ StreamLength \in [Media -> Nat]
  /\ Beginnings \subseteq [ThePaths -> Seq((Media \cup {Other}) \X Nat)]
  /\ \A b \in Beginnings : \A x \in ThePaths, m \in Media : InPlace(b[x], m)

VARIABLES
  disk,       \* the contents of the files, as in File
  job,        \* [Processes -> Jobs]; never changes
  files,      \* [Processes -> the cc::file in use]
  xfer,       \* [Processes -> what is being received: source, got, offset]
  at,         \* [Processes -> where the process is]
  attempts,   \* [Processes -> the number of cc::file constructed]
  beginning,  \* history: what the directory held before
  overlap     \* history: two processes have been at work at the same time

sharingvars == <<disk, job, files, xfer, at, attempts, beginning, overlap>>
fixed == <<job, beginning>>

P(p) == INSTANCE File WITH vm <- job[p].vm, media <- job[p].media,
                           file <- files[p]

\* What a hole reads as.
Zero == <<Other, 0>>

\* off: not started, or killed.  stat: about to construct a cc::file.  open:
\* in cc::wait or just before open_file.  request, body: in curl_easy_perform.
\* done, complete, failed: cc::get has returned, thrown E_NOTHING_TODO, or
\* thrown or returned because of an error.
Places == {"off", "stat", "open", "request", "body", "done", "complete",
           "failed"}
Working(p) == at[p] \in {"open", "request", "body"}

\* Mutation: the position is that of a stream that is not open (tellp).
Nothing_NoPosition == [source |-> Other, got |-> 0, offset |-> -1]

\* Nothing received, and written, yet.
Nothing == [source |-> Other, got |-> 0, offset |-> 0]

Init ==
  /\ disk \in Beginnings
  /\ job \in [Processes -> Jobs]
  /\ files = [p \in Processes |-> [path |-> <<OutputFile, 0>>, initial |-> 0,
                                   nothing_todo |-> FALSE]]
  /\ xfer = [p \in Processes |-> Nothing]
  /\ at = [p \in Processes |-> "off"]
  /\ attempts = [p \in Processes |-> 0]
  /\ beginning = disk
  /\ overlap = FALSE

Goto(p, place) == at' = [at EXCEPT ![p] = place]

-----------------------------------------------------------------------------
Start(p) ==
  /\ at[p] = "off"
  /\ Goto(p, "stat")
  /\ UNCHANGED <<disk, fixed, files, xfer, attempts, overlap>>

\* The file object is made: path and length are settled.
Construct(p) ==
  /\ at[p] = "stat" /\ attempts[p] < MaxAttempts
  /\ \E x \in ThePaths :
       /\ P(p)!IsTarget(x)
       /\ files' = [files EXCEPT ![p] = P(p)!FileAt(x)]
       /\ Goto(p, IF P(p)!NothingTodo(x) THEN "complete" ELSE "open")
       /\ overlap' = (overlap \/ (~P(p)!NothingTodo(x) /\
                                  \E q \in Processes \ {p} : Working(q)))
  /\ attempts' = [attempts EXCEPT ![p] = @ + 1]
  /\ UNCHANGED <<disk, fixed, xfer>>

\* std::ofstream::app, which File!Opened keeps what is there for.
Appends(p) == ~job[p].vm.overwrite /\ P(p)!should_continue

\* Mutation: the file is opened for writing from its start.
Left_Truncated(p) == <<>>

\* What opening the file leaves in it.
Left(p) == P(p)!Opened

Open(p) ==
  /\ at[p] = "open"
  /\ disk' = [disk EXCEPT ![files[p].path] = Left(p)]
  /\ xfer' = [xfer EXCEPT ![p] = Nothing]
  /\ Goto(p, "request")
  /\ UNCHANGED <<fixed, files, attempts, overlap>>

\* The stream, from the offset asked for; or an error page, which libcurl
\* takes only if it was not asked to resume.
Reply(p) ==
  /\ at[p] = "request"
  /\ \E s \in {job[p].media} \cup (IF Appends(p) THEN {} ELSE {Other}) :
       xfer' = [xfer EXCEPT ![p].source = s]
  /\ Goto(p, "body")
  /\ UNCHANGED <<disk, fixed, files, attempts, overlap>>

BodyLength(p) ==
  IF xfer[p].source = Other THEN PageLength
  ELSE StreamLength[job[p].media] - files[p].initial

Max2(a, b) == IF a > b THEN a ELSE b

\* f after the byte b has been written at position k.
WriteAt(f, k, b) ==
  [j \in 1 .. Max2(Len(f), k) |-> IF j = k THEN b
                                  ELSE IF j <= Len(f) THEN f[j] ELSE Zero]

\* Mutation: a process that truncated the file writes to its end as well.
Position_End(p) == Len(disk[files[p].path]) + 1

\* Mutation: a process that continues a file writes from its start.
Position_Start(p) == xfer[p].offset + 1

\* Where the next write goes.
Position(p) == IF Appends(p) THEN Len(disk[files[p].path]) + 1
               ELSE xfer[p].offset + 1

\* write_cb.
Receive(p) ==
  /\ at[p] = "body" /\ xfer[p].got < BodyLength(p)
  /\ disk' = [disk EXCEPT ![files[p].path] =
       WriteAt(@, Position(p),
               <<xfer[p].source, files[p].initial + xfer[p].got + 1>>)]
  /\ xfer' = [xfer EXCEPT ![p] = [source |-> @.source, got |-> @.got + 1,
                                  offset |-> Position(p)]]
  /\ UNCHANGED <<fixed, files, at, attempts, overlap>>

Succeed(p) ==
  /\ at[p] = "body" /\ xfer[p].got = BodyLength(p)
  /\ xfer[p].source # Other
  /\ Goto(p, "done")
  /\ UNCHANGED <<disk, fixed, files, xfer, attempts, overlap>>

\* The transfer breaks, or an error page has come: cc::get tries again or gives
\* up.
Fail(p) ==
  /\ at[p] \in {"request", "body"}
  /\ \E place \in {"stat", "failed"} : Goto(p, place)
  /\ UNCHANGED <<disk, fixed, files, xfer, attempts, overlap>>

\* The process is killed, or has ended; cclive may be started once more.
Kill(p) ==
  /\ at[p] # "off"
  /\ Goto(p, "off")
  /\ UNCHANGED <<disk, fixed, files, xfer, attempts, overlap>>

Next ==
  \E p \in Processes :
    \/ Start(p) \/ Construct(p) \/ Open(p) \/ Reply(p) \/ Receive(p)
    \/ Succeed(p) \/ Fail(p) \/ Kill(p)

Spec == Init /\ [][Next]_sharingvars

-----------------------------------------------------------------------------
(* Properties.                                                             *)

\* The type invariant.
SharingTypeOK ==
  /\ disk \in [ThePaths -> Seq((Media \cup {Other}) \X Nat)]
  /\ job \in [Processes -> Jobs]
  /\ files \in [Processes -> [path : ThePaths, initial : Nat,
                              nothing_todo : BOOLEAN]]
  /\ xfer \in [Processes -> [source : Media \cup {Other}, got : Nat,
                             offset : Nat]]
  /\ at \in [Processes -> Places]
  /\ attempts \in [Processes -> 0 .. MaxAttempts]
  /\ beginning \in Beginnings
  /\ overlap \in BOOLEAN

\* What was in the directory before stays, however many cclive run at once,
\* are killed and started again: unless one of them was given --overwrite no
\* file that held something loses or changes a byte of it.
IsPrefixOf(f, g) == Len(f) <= Len(g) /\ \A k \in 1 .. Len(f) : g[k] = f[k]
NothingLost ==
  (\A p \in Processes : ~job[p].vm.overwrite) =>
    \A x \in ThePaths : IsPrefixOf(beginning[x], disk[x])

\* A transfer that is complete has left every byte of the stream it wrote or
\* found in its place, whatever processes were killed on the way to it, if
\* only they did not work at the same time.
Received(p) == at[p] = "body" /\ xfer[p].source # Other
               /\ xfer[p].got = BodyLength(p)
OneByOneIsWhole ==
  \A p \in Processes :
    LET f == disk[files[p].path] IN
    ~overlap /\ Received(p) =>
      /\ Len(f) = StreamLength[job[p].media]
      /\ InPlace(f, job[p].media)

\* Processes that retrieve the same media at the same time from its start may
\* truncate each other's file and leave holes in it; when all have succeeded,
\* none of them by a retry, the file is whole.
Copy(m) == [k \in 1 .. StreamLength[m] |-> <<m, k>>]
AllSucceededIsWhole ==
  \A m \in Media :
    (\A p \in Processes : /\ job[p].media = m
                          /\ at[p] = "done" /\ attempts[p] = 1
                          /\ files[p].initial = 0)
    => \A p \in Processes : disk[files[p].path] = Copy(m)
=============================================================================
