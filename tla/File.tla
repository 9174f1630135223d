-------------------------------- MODULE File --------------------------------
(***************************************************************************)
(* cc::file: which path the media goes to, from which offset it is         *)
(* continued, when there is nothing left to do, and what opening the file  *)
(* does to it.                                                             *)
(*                                                                         *)
(* A file is the sequence of its bytes, and a byte is the pair of the body *)
(* it came from and its offset there: this is all that is needed to tell a *)
(* file that is a copy of the stream from one that is not.  cclive cannot  *)
(* tell an absent file from an empty one (cc::file::exists returns 0 for   *)
(* both), so neither can the model: an absent file is the empty sequence.  *)
(***************************************************************************)
EXTENDS Integers, Sequences

CONSTANTS
  Media,          \* the media that the input URLs name
  Other,          \* a body that is not a media stream: an error page, or
                  \* whatever else is in a file that was there before
  BaseName,       \* [Media -> Names]: --filename-format applied to the media
  OutputFile,     \* the name given with --output-file
  ContentLength,  \* [Media -> Nat]: the length libquvi reports, 0 if unknown
  StreamLength,   \* [Media -> Nat]: the length of the stream that is served
  MaxSuffix,      \* bound on the digits appended to a name (INT_MAX - 1)
  Settings        \* the command lines: the option values under study

Sources == Media \cup {Other}
Names == {BaseName[m] : m \in Media} \cup {OutputFile}

\* <<n, 0>> is the path of name n and <<n, i + 1>> the path "n.i".
Paths == Names \X (0 .. MaxSuffix)

Bytes == Seq(Sources \X Nat)

\* The option values that a behaviour depends on.  The patterns inside
\* --tr and --prefer-format are not compiled before they are used: tr_fails are
\* the media whose titles get to one of --tr that does not compile (an empty
\* title gets to none), prefer_fails the URLs, by number, that get to one of
\* --prefer-format (none if --stream is given, and none behind a match).
SettingsType ==
  [output_file : BOOLEAN, overwrite : BOOLEAN, continue : BOOLEAN,
   no_download : BOOLEAN, exec : BOOLEAN, timestamp : BOOLEAN,
   print_streams : BOOLEAN, tr_fails : SUBSET Media, prefer_fails : SUBSET Nat,
   max_retries : Nat, throttle : Nat, transfer_timeout : Nat]

ASSUME FileAssumption ==
  /\ Other \notin Media
  /\ ContentLength \in [Media -> Nat]
  /\ StreamLength \in [Media -> Nat]
  /\ MaxSuffix \in Nat
  /\ Settings \subseteq SettingsType

VARIABLES
  vm,     \* the option values; never change
  disk,   \* [Paths -> Bytes]: the contents of the files
  media,  \* the media being retrieved
  file    \* the cc::file being used: path, initial length, nothing_todo

Files == [path : Paths, initial : Nat, nothing_todo : BOOLEAN]

-----------------------------------------------------------------------------
\* cc::file::exists: the size of the file, 0 if there is none.
exists(p) == Len(disk[p])

\* cc::file::should_continue.
should_continue == file.initial > 0

Candidate(i) == <<BaseName[media], i>>

\* Mutation: a partial file is resumed whether --continue is given or not.
StopsAt_Anything(i) == i \in 0 .. MaxSuffix

\* The loop over the names stops at candidate i: the file is absent or empty,
\* holds content_length bytes or more, or may be continued.
StopsAt(i) ==
  \/ exists(Candidate(i)) = 0
  \/ exists(Candidate(i)) >= ContentLength[media]
  \/ vm.continue

\* The first candidate the loop stops at.
IsFirstStop(i) == StopsAt(i) /\ \A j \in 0 .. (i - 1) : ~StopsAt(j)

\* The path that _init stores.
IsTarget(p) ==
  IF vm.output_file THEN p = <<OutputFile, 0>>
  ELSE IF vm.overwrite THEN p = Candidate(0)
  ELSE \E i \in 0 .. MaxSuffix : IsFirstStop(i) /\ p = Candidate(i)

\* Nothing to do: the file has content_length bytes or more.  A file that is
\* absent or empty is never complete, unless --output-file names it: that
\* branch compares before it looks for 0.
NothingTodo(p) ==
  /\ ~vm.overwrite
  /\ exists(p) >= ContentLength[media]
  /\ vm.output_file \/ exists(p) > 0

\* Mutation: the offset of the file that is about to be overwritten is kept.
InitialLength_OfOverwritten(p) == exists(p)

\* The offset the transfer is to start from.
InitialLength(p) == IF vm.overwrite THEN 0 ELSE exists(p)

\* cc::file::_init: the file object for the current media.
FileAt(p) == [path |-> p, initial |-> InitialLength(p),
              nothing_todo |-> NothingTodo(p)]

\* Mutation: the file is opened for writing from its start, as without
\* std::ofstream::app, and loses what a resumed transfer adds to.
Opened_Truncates == <<>>

\* write_data::open_file: what opening the file leaves in it.  Without trunc
\* and without app an output stream truncates as well.
Opened ==
  IF ~vm.overwrite /\ should_continue THEN disk[file.path] ELSE <<>>
=============================================================================
