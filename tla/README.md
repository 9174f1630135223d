# cclive in TLA+

cclive is a command line tool that downloads media from video hosts: it asks
libquvi to turn each input URL into a media stream, and libcurl to retrieve the
stream into a file. This directory holds TLA+ models of that program, the TLC
configurations that check them, and theorems about them that TLAPS proves.
Paths below are relative to the root of the repository (`src/` in
`PROJECT.json`).

    tlc -workers 2 -config MCGet.cfg MCGet            # a model-checking run
    tlapm GetProofs.tla                               # the proofs of a module

`PROJECT.json` lists the components, the runs, the source lines of every
definition, the disagreements found between code and manual, and the hazards.

## 1. Inventory

### Components

| Component | Source | State it keeps | Operations |
|---|---|---|---|
| application | `src/cc/application.cpp`, `main.cpp` | URL counter, exit status so far, signal handlers in scope | `exec` (batch loop, two catch clauses), `print_streams`, `set_stream`, `parse_prefer_format`; `main`'s own catch clauses |
| get | `src/cc/get.cpp`, `wait.cpp` | attempts so far | the retry loop: make a `cc::file`, wait, count, write, run the commands |
| file | `src/cc/file.cpp`, `file.h` | path, initial length, `nothing_todo` (and the file on disk) | `_init` (choice of path and offset), `write`, `open_file`, `write_cb`, `progress_cb` |
| curl handle | `src/cc/curl.cpp`, `file.cpp` | the options of the one easy handle, owned by libquvi and borrowed by cclive | `curl_setup` once per URL, `_set`/`_restore` around each transfer |
| signals | `src/cc/sig.h`, `var.h` | two flags, the dispositions found at start | `sighandler::setup/reset`, `default_handler` |
| exec | `src/cc/exec.cpp` | the child awaited | substitute, tokenise, `fork`/`execvp`, `waitpid` loop |
| progressbar | `src/cc/progressbar.h`, `sig.h` | bytes shown, time of last update, dots, `failed`/`done`; global terminal width | `update`, `finish` (in the destructor), `print_error`, three renderers |
| input | `src/cc/input.h`, `fstream.h` | the list of URLs | positional arguments, stdin, `file://` followed recursively, removal of duplicates |
| options | `src/cc/options.h` | the option map, and which options an earlier source has given | command line, then configuration file; validators; early exits |
| regular expressions | `src/cc/re.cpp` | none | `tr`, `subst`, `capture`, `grep`, `trim` |
| background | `src/cc/background.cpp` | the process that goes on | `fork`, the parent exits; `--log-file` |
| log | `src/cc/log.h`, `fstream.h` | the sinks of the log | tee to the terminal and the log file |
| libquvi wrappers | `src/compat/*` | the libquvi session | `setup_curl`, `parse`, `streams`, errors |

### How they interact

`exec` drives everything in one thread. For each URL it puts the per-URL options
on the handle (`setup_curl`), lets libquvi use the handle (`parse`), then calls
`cc::get`, which hands the same handle to `cc::file::write`. Inside
`curl_easy_perform` libcurl calls back: `write_cb` appends to the file,
`progress_cb` looks at the SIGUSR1 flag and feeds the progress bar. What the
progress bar's `print_error` returns or throws decides whether `cc::get` retries,
skips or fails. Signals set flags at any moment. The file system is shared by
all attempts, all URLs of a batch, and by other processes.

### What is hard here

* **State read early and used late.** The length of the file is taken in the
  `cc::file` constructor; a wait of several seconds lies between it and the open
  mode, the offset of the request and the first byte written.
* **One handle, three owners.** libquvi, `curl_setup` and `_set`/`_restore` set
  options of the same handle at different rates (session, URL, attempt).
* **Failures that leave something behind.** An error page, a refused range, a
  broken connection or a signal leaves bytes in a file that the next attempt or
  the next URL finds and interprets.
* **Asynchronous SIGUSR1**: before the handlers exist, between transfers, during
  a wait, after the last transfer; two in a row.
* **Exceptions of three families** (`quvi::error`, `std::runtime_error`,
  `cc::error::tuple`) of which `exec` catches two.
* **Termination** of nested loops around a network that may hang, of lists of
  URLs that name each other, and of substitutions repeated until nothing matches.
* **Two sources of options** stored into one map, where what the second may do
  depends on what the first has done.
* **Two processes after `--background`**: both are alive after the fork, in any
  order; the shell has its answer when the first exits, and the second has nobody
  to report to.
* **Several cclive in one directory**, none of which locks anything.
* **Text that becomes code**: the title decides a file name and, by `--exec`, the
  arguments of a command.

### What makes each component correct

* file/get: a byte is only ever appended at the offset it has in its body;
  nothing a file holds is lost without `--overwrite`; offset, bytes received and
  file length agree during a transfer; a success means the rest is there.
* curl handle: outside a transfer libcurl calls none of cclive's functions, whose
  objects are gone by then, and asks for whole pages.
* application: every URL has its turn, once and in order; the exit status is
  that of the last URL settled; what is done stays done.
* signals: one signal skips one transfer at most; it never kills a batch; a
  transfer that hangs is still interrupted.
* progressbar: a final line only after a success, dots and columns aligned,
  nothing wider than the terminal, the size shown never shrinks.
* input: order kept, duplicates removed, termination whenever no list of URLs
  contains itself.
* options: command line before configuration file; cclive starts exactly if both
  are sound.
* start: whatever is wrong with options or input is found before the process that
  the shell waits for exits; and that one exits, whatever its child does.
* exec: commands run one after another, whichever signals come, and with the
  arguments that the command line shows.
* several cclive: none costs a file what it held before any of them started.

## 2. Modules

    Curl ──┐                     Store (abstract files)
           ├─> Get ──────────────────^         Batch (abstract batch)
    File ──┤     └─> Application ──────────────────^
           └─> Sharing (one File per process)
    Options ─┬─> Startup         Title ─> Exec         Progress
    Input ───┘

An arrow is an EXTENDS or INSTANCE, `^` a refinement. For each module at the end
of an arrow, and for `Get` and `Progress`, there is a module `MC...` with the
instances for TLC. `GetProofs`, `ApplicationProofs`, `ProgressProofs`,
`InputProofs`, `StartupProofs`, `SharingProofs` and `ExecProofs` hold the
theorems. `Induction` holds what several of them need: induction and recursion
over the naturals and over anything that has a rank, stated with sets and
functions.

`Application` begins where `Startup` ends (its step `Run` is the whole batch).
`Get` takes the progress bar for its verdict only, `Progress` takes the transfer
for bytes that arrive; nothing that `Progress` keeps flows back. `Exec` is the
inside of the place in `Get` where the commands are run.

| Module | Models | Correspondence |
|---|---|---|
| `Curl` | the easy handle | a record of the options behaviour depends on (the write function and its data apart, since only the first is ever reset); `curl_setup`, `set_transfer` (`_set`), `restore` (`_restore` and the resets in `file::write`) |
| `File` | `cc::file` | variables `vm`, `disk`, `media`, `file`; `IsTarget` is the choice of `_init`, `NothingTodo` its exception, `InitialLength` the offset, `Opened` what `open_file` leaves in the file |
| `Get` | `cc::get` with `cc::file::write`, the callbacks and `print_error` | variable `pc` is the place in the code, one action per way of leaving each place |
| `Store` | what the files promise | a file grows at its end by the byte that belongs there; `Discard` only with `--overwrite` |
| `Application` | `exec` and `main`, the handlers, the signals | variable `at`; every step of `cc::get` is a step of `Get` (`GetStep`), `Call`/`Leave` are its call and return |
| `Batch` | what the batch promises | settle the first pending URL, finish with the last one's status, or abort |
| `Progress` | `cc::progressbar` and SIGWINCH | the bar's members are the record `bar`; `line` is what is on the terminal; `Tick` is the clock, `Arrive` libcurl's count, `Skip` an update that comes too early, `Resize` the terminal |
| `Options` | `cc::options` | `Store`, `Reject`, `Overridden` are what boost's `store` does with one occurrence of an option, `final` its set of options given by an earlier source; `phase` is the place in the constructor |
| `Input` | `cc::input`, `fstream::read` | `stack` is the stack of calls of `extract_uris` and `determine_input`, one frame per open list; `rm` holds the iterators of `duplicates` and of `std::remove` inside it |
| `Startup` | `exec` up to the batch, `go_background`, `main` | `front` is the place of the process the shell waits for, `child` that of its child, and a process that has ended is at its status; `Fork` leaves two, then `ParentExits` and `Detach`, `OpenLog` or `LogFails`, `Run` interleave |
| `Sharing` | several processes in one directory | `P(p)` is the `File` of process `p`; the steps of `Get` that touch a file, with `write(2)`'s offset where the file is not opened to append |
| `Title` | `re::tr`, `re::trim`, `file::_init`'s name | one action per pattern, per find within a pattern, and per substitution of `trim` |
| `Exec` | `cc::exec` | `Tokenize` is the substitution and the splitting of one command; `Fork`, `Reap`, `Interrupted` the parent, `ChildEnds` the child |

**Data.** A file is the sequence of its bytes and a byte is the pair
`<<body, offset>>`; that tells a copy of the stream from anything else, and no
more. `Other` is a body that is no media: an error page, or what was there
before. cclive cannot tell an absent file from an empty one (`file.h:73-78`
returns 0 for both), so an absent file is the empty sequence. A path is
`<<name, k>>`, with `k = 0` for the name itself and `k = i + 1` for the name with
`.i` appended. The option values are a record in the variable `vm`, which never
changes; one run thus covers many command lines. The patterns inside
`--tr` and `--prefer-format` are not compiled before they are used: `options.h`
only matches the frame around a pattern, and `re.cpp:143` and `171` return before
compiling it for an empty text. `tr_fails` are the media whose titles get to a
pattern that does not compile, and `prefer_fails` the URLs that get to one: none
behind a match (`application.cpp:234-238`), and none with `--stream` (`248`). A
bad pattern may thus end a batch at any of its URLs. Texts are sequences of characters in `Title` and `Exec` only, where the
properties are about them; a character is one of a few that the code tells
apart. A `--tr` pattern is a set of characters with what its matches become, and
two flags: whether it takes as many of them as there are (and so matches no
text as well), and `g`. A value in `Options` is a number or another text.

**libquvi, libcurl and the server** are modelled from how cclive uses them, and
marked external. A reply to a fresh request is a 200 with the whole stream, or
one of `ErrorCodes` with a page. A request with an offset is answered by 206
with the rest, by a 200 or by an error; libcurl takes the body of a 206 only,
and ends the transfer otherwise (`CURLE_RANGE_ERROR`, or `CURLE_OK` with an
error reply). `CURLE_OK` after a body means that all of it has arrived. The
connection may break at any byte. libquvi restores the handle to what `NewHandle`
says; it fails or yields the media of the URL.

**Loops that run once.** `query::parse` throws `quvi::error` with a code other
than `QUVI_OK` only, for which `cannot_retry()` is true, so that the inner catch
in `exec` always rethrows and the loop around it (`application.cpp:329-353`)
never comes round.

**Mutations.** A definition named `X_Something` beside `X` is a plausible wrong
version of `X`. No specification uses it; with it in the place of `X`, TLC finds
the property that `PROJECT.json` pairs it with violated, which shows that the
property depends on that piece of code.

## 3. Runs

| Run | Module | Distinct states | Shows |
|---|---|---|---|
| `get` | `MCGet` | 422 952 | any number of calls on one handle and directory: types, `ResumeInStep`, `HandleIsSafe`, `SuccessIsTheWholeRest`, and that `Get` implements `Store` |
| `batch` | `MCApplication` | 266 504 | a batch of two URLs, two SIGUSR1: `OneSkipPerSignal`, `DoneStaysWhole`, `KilledOnlyOutsideTheBatch`, and that `Application` implements `Batch` |
| `liveness` | `MCApplication` | 78 772 | `AlwaysEnds`, `SignalEndsTransfer` |
| `progress` | `MCProgress` | 281 156 | bars of the three styles one after the other: `DotsBeforeSummary`, `FinalLineOnSuccess`, `SizeNeverShrinks`, `FitsTerminal`, `CatchesUp` |
| `startup` | `MCStartup` | 274 828 | every short command line and configuration file, and every small nest of lists: `CommandLineFirst`, `Verdict`, `InputAsRead`, `OneOfEach`, `ErrorsBeforeDetaching`, `StartsOrEnds`, `ShellIsReleased` |
| `sharing` | `MCSharing` | 2 436 147 (processes are symmetric) | two cclive at once or in turn: `NothingLost`, `OneByOneIsWhole`, `AllSucceededIsWhole` |
| `exec` | `MCExec` | 22 786 | every short title to a file name and to arguments: `NameIsTrimmed`, `OneAfterAnother`, `ArgumentsAsWritten`, `ExecEnds` |
| `exec_after_skip` ... `stale_signal` | `MCGet`, `MCApplication` | small | the five disagreements of section 5 |

**What the properties say.**

* `ResumeInStep`: during a transfer the handle's offset is `file.initial`, and
  the file is exactly that plus the bytes received long. The offset, the open
  mode and the reply accepted come from four functions that share nothing but
  `_initial_length`.
* `ImplementsStore`: across attempts and calls no byte lands at a wrong offset,
  no hole appears, and no content is given up without `--overwrite`.
* `SuccessIsTheWholeRest`: when `write` returns true for a transfer, everything
  from its starting offset to the end is the stream's. What was in the file
  before is *not* claimed to be: see section 6.
* `HandleIsSafe`: in every other place than `perform`, also after exceptions, libcurl
  calls neither `write_cb` nor `progress_cb` and asks for all of a page, in any
  encoding, and for no file time. `CURLOPT_WRITEDATA` still points to the object of the
  last transfer then; see section 6.
* `DoneStaysWhole`: without `--continue`, `--output-file` and `--overwrite`, a URL
  reported as done has a file that is its whole stream, and keeps it until the
  end, although later URLs have the same title, fail and retry. A media
  of length 0 is left out: its file cannot be told from an absent one.
* `OneSkipPerSignal`: URLs skipped plus a pending flag never exceed the number of
  signals sent: a signal does not skip twice, and a retry does not see it again.
* `KilledOnlyOutsideTheBatch`: SIGUSR1 takes its default effect only before the
  handlers are installed, in `--print-streams`, and after `exec`.
* `ImplementsBatch`: one URL's failure neither costs another its turn nor settles
  it twice, whichever exception ends it; after an error of the whole batch some
  URL is left unsettled.
* `DotsBeforeSummary`: each summary of the dotline style, the last one included,
  follows 30 dots, although dots are counted by updates, reset by summaries and
  filled up by the destructor.
* `FinalLineOnSuccess`: a transfer that succeeds ends with a final line, at 100% if
  its length is known, even if it was too short for one update; one that has
  failed never shows one, although the destructor runs on every way out.
* `SizeNeverShrinks`: also when the server sends more than it announced and
  `finish` corrects the length. It is claimed for a known length only.
* `FitsTerminal`: after any sequence of resizes, as far as SIGWINCH is handled.
* `CatchesUp`: an update that comes too early does not put off the next one.
* `CommandLineFirst`: the value of every option, lists included, is the command
  line's if it is given there, else the file's, else the default.
* `Verdict`: the constructor succeeds only with sound sources and fails only for an
  unsound one; a value that is overridden is not looked at.
* `InputAsRead`: the state machine of nested lists yields what a recursive reading
  of them would, and fails with the first error such a reading meets.
* `OneOfEach`: the two nested loops that overwrite the vector they read leave each
  URL once, and no other.
* `ErrorsBeforeDetaching`: with `--background` too, status 0 means that options,
  configuration file and input were sound. It speaks of
  options and input: an error that the child meets later is told to nobody.
* `StartsOrEnds`: each process comes to its work on the URLs or to its end; the stack
  is used up by circular lists only.
* `ShellIsReleased`: with `--background` the process that the shell waits for ends,
  although the child's work may last for ever.
* `NothingLost`: whatever the interleaving and whoever is killed, a file that held
  something before keeps it, if no process has `--overwrite`.
* `OneByOneIsWhole`: processes that do not overlap, each killed and started again
  at will, never leave a byte of the stream at a wrong offset.
* `AllSucceededIsWhole`: processes that do overlap, truncate the file under each
  other and leave holes in it, have made it whole once all succeed at their first
  attempt. With one that fails or retries this is false: see section 6.
* `NameIsTrimmed`: the name has no white space at its ends and no two in a row,
  whatever the `--tr` patterns before it have left.
* `OneAfterAnother`: a signal during `waitpid` neither starts the next command early
  nor leaves a child behind.
* `ArgumentsAsWritten`: replacing `%f`, `%n` and `%t` first and splitting the result
  gives the arguments that the command line shows, one sequence between quotation
  marks being one argument. It needs that neither path nor title has a quotation mark
  or a backslash, that the path has no `%`, and that each part of the command is
  enclosed in quotation marks or has neither a quotation mark nor a `%`; section 6
  says what happens otherwise. A title with blanks or `%` does no harm.
* `ExecEnds`: the whole of it ends if the commands do, unless a `g` pattern also
  matches no text (section 6).

**Bounds**, each named where it is declared:

* `StreamLength = 2`: a partial file has a byte before and a byte after the
  offset; the longer stream adds no new case, since all comparisons are with 0
  and with the content length. `PageLength = 1` (an error page is then shorter
  than the media, so `--continue` appends to it); `0` in `retry_after_503`.
* Two media with the same title, since names clash; in `MCGet` one has an unknown
  length (`ContentLength` 0).
* `ErrorCodes = {404, 503}`: one inside and one outside `print_error`'s interval.
* `max_retries` is 0 or 1: no retry, and a retry after a failure. The theorems
  hold for any value.
* `MaxSuffix` bounds the digits appended to a name. `HasRoom` lets `cc::get` be
  called only if one attempt after another can still find a free name, because
  the code's own bound, `INT_MAX`, is never met in practice.
* `MaxSignals`: two signals can hit one transfer, two transfers, or the moments
  between.
* `InitialDisks`: an empty directory, or the first byte of the media or of
  something else under one of the names.
* `MCGet` ties switches that do not interact (`timestamp` with `exec`, `throttle`
  with `transfer_timeout`); `MCApplication` takes one command line per way of
  choosing a file and per early exit; the patterns that do not compile are met at the
  second URL, with the first one settled.
* `MCProgress`: lengths 0 (unknown) and 2, beginnings 0 and 1, up to `MaxBytes = 3`
  bytes, so that more comes than announced; `Interval = 2`, so that updates come too
  early; terminals of 10 and 12 columns or none; texts of 9, 10 and 11 columns,
  which leave the meter room, none, or do not fit; `SizeMax = 256` for `size_t`, so
  that a difference below 0 becomes a very large number.
* `MCStartup`: up to two occurrences on the command line, out of 19 that cover each
  kind of option with a valid and an invalid value, and up to two in the file, out of
  7; two are needed for a repetition and for precedence. `IntMax = 127`. Two list
  files with nine contents, so that they can name each other and themselves;
  `StackLimit = 4` is more than the deepest nesting that is not circular (3).
* `MCSharing`: two processes, two media of the same name and of lengths 3 and 2,
  `MaxAttempts = 2`, `MaxSuffix = 2` (three names), four settings
  and four contents of the directory. Three bytes are needed for a hole: one process
  truncates between two writes of another.
* `MCExec`: titles of up to three characters out of five (a letter, white space,
  quotation mark, `%`, backslash) and three with a sequence in them; eight lists of
  patterns; two lists of commands, made of four: sequences with and without quotation
  marks, a sequence that is a part of an argument, and nothing but white space.

Deadlock is checked in every run: a process that has exited takes the step
`Exited`, one that an exception left the step `Escaped`, and in `Sharing` cclive
can always be started once more.

**Fairness** is assumed for `AlwaysEnds`, `SignalEndsTransfer`, `CatchesUp`,
`StartsOrEnds`, `ShellIsReleased` and `ExecEnds` only. In `Application` (`Fairness`) the program's
own steps outside `curl_easy_perform` are weakly fair: they are sequential code,
and the commands of `--exec`, whose end `waitpid` awaits, are taken to end, as
are libquvi's requests. `ProgressAbort` is weakly fair, because libcurl calls
the progress function about once a second even when nothing arrives. `TimeOut`
is weakly fair, because libcurl enforces `CURLOPT_TIMEOUT`. Nothing else inside
`curl_easy_perform` is fair: the server may hang for ever. Hence `AlwaysEnds`
assumes `--transfer-timeout`; without it only a signal ends a transfer that
hangs, which is `SignalEndsTransfer`. In `Progress` (`ProgressFair`) the clock
goes on, and libcurl's calls of `progress_cb` for the same reason as above. In
`Startup` each of the two processes is weakly fair up to its work on the URLs
(`FrontStep`, `ChildStep`): the kernel schedules both, and stdin is taken to end,
`quvi_init` and the opening of `--log-file` to return. The work itself (`Run`) is not
fair: `ShellIsReleased` must not rest on it. In `Exec` the parent (`Step`) and the child
(`ChildEnds`) are weakly fair, since the kernel schedules both; signals are not.

## 4. Theorems

All are of the form `Spec => ...`, for every set of media, every length, every
set of command lines, every number of retries, URLs and signals, and every
initial content of the directory, from the named assumptions of the modules
only. Those of `File`, `Get` and `Application` say that the constants have their
types, that an error reply is none of 0, 200 and 206, and that the bytes found
in the directory are at their offsets; those of the other modules that the
constants have their types (that of `Input`: what `file://` names is a list, a
directory, or cannot be read).

`GetProofs`:

* `TypeCorrect`. `TypeOK` says `retry <= max_retries + 1`, which is not inductive:
  `Try` adds one. The strengthening is that an attempt that is under way but not
  counted yet still has one left (`AttemptLeft`).
* `HandleReturned` (`HandleIsSafe`). From the algebra of `curl_setup`, `set_transfer`
  and `restore` on the handle (`HandleCleaning`): every step that leaves `perform`
  goes through `Performed`, and every one that enters it is `Open`.
* `TransferInStep`. `ResumeInStep` holds from the opening of the file on only if
  its length is still the one measured. `LengthIsCurrent` says so for the places
  between the constructor and `open_file`; the two are inductive together
  (`InStep`). This is where the proof uses that nobody else writes the file.
* `FilesAreStored`. Under `InStep`, `Open` is a stutter of `Store` or a `Discard`,
  which needs `--overwrite` (truncating an empty file changes nothing), and
  `Receive` is an `Extend`: `curl.resume + xfer.got` is the file's length.
* `SuccessIsWhole`. `RestIsTheStream` carries the claim through the transfer;
  libcurl's `CURLE_OK` turns it into the whole rest. `FreshInv` is the same for a
  file begun at 0, which is then the whole stream.

`ApplicationProofs`:

* `ApplicationUsesGet`: the composed program implements `Get`, so that all
  theorems above hold of it; `BatchKeepsFiles` and `AppTypeCorrect` follow. The
  invariant `OwnInv` places the URL counter: `Get` may only be called with a URL
  that exists.
* `NeverKilledInTheBatch`, from `Handled`: from the installation to the end of
  `exec` the disposition is not the default, in whatever way it was inherited.
* `BatchIsImplemented`, from `BatchInv`: the URLs before the counter are the settled
  ones (`SettledInOrder`), and the status in hand is that of the last of them,
  unless an error of the whole batch has left some unsettled (`StatusOfLast`).
* `OneSkip`, from `SignalsCounted`: each signal sent is in one place at most, the
  flag, the result of the transfer it has interrupted, or a URL skipped.

* `DoneStays` (`DoneStaysWhole`). `InHand` says what the file in use has to do with
  the URL in hand, and `Kept` that each URL done has a copy in some path, which is not
  empty, so that no later `IsTarget` chooses it without `--continue`,
  `--output-file` or `--overwrite`.

`ProgressProofs`:

* `ProgressTypeCorrect`, `DotsAligned`. `ProgressInv` adds `ShownIsCounted` (what is
  shown was counted before, and a bar that is on is not done) and `WidthKnown` (the
  width in use is the terminal's, or will be asked for). The percentage needs the
  only arithmetic: `QuotientBound`.
* `SizeGrows` follows from `ShownIsCounted`, `LineFits` from `WidthKnown` and from
  `LineLength`, the arithmetic of the unsigned width.
* `FinalLine`, with `FinalInv`: which lines are final, place by place. `Drawn` says
  what each style makes of a bar that is done.

`InputProofs` and `StartupProofs`:

* `InputHasOneOfEach`. The invariant `Loops` of the two nested loops: the iterators
  are in order; what precedes `first` occurs once; what has been kept behind it is
  something else; and the positions that still count (`Live`) hold the elements of the
  list as it was. `Keep` is the step that overwrites.
* `InputTypeCorrect`, and by composition `StartupTypeCorrect`, `StartupHasOneOfEach`.
* `VerdictIsSound`, from `PhaseInv`: of each source a part is done and that part is
  sound (`Underway`); with nothing left to do, all of it is.
* `InputReadsInOrder` (`InputAsRead`), and `StartupReadsInOrder`, which applies it to the
  start. The reference is a recursive reading, the program a stack. `RestOf` says, frame
  by frame, what such a reading of the rest of that list would yield, followed by the
  rest of the lists around it; `Ahead` is the invariant that the URLs collected and
  this rest are together the reference. A URL, a list that is opened and one that ends
  each keep it (`ItemAhead`, `OpenedAhead`, `EndedAhead`). For the removal of duplicates,
  `FirstOnesStay`: the elements that still count have the first occurrences that the
  list found had.
* `ValuesAreSourced` (`CommandLineFirst`), from `StoredSoFar`: the options that the source
  at hand has given so far hold exactly their occurrences among those that are done,
  and those that no source has given their default.
* `ErrorsAreSeen`, from `ProcessInv`, which says for each place of the first process
  what has been found sound by then, and that there is a child behind the fork only.

`SharingProofs`, for any number of processes:

* `NothingIsLost`, with `LengthsKnown`: a process at work on a file has measured at
  least what was there before everything started. That is what makes its stale length
  harmless: it appends if there was anything, and truncates only if there was not.
* `OneByOne`, from `Alone`: as long as nobody has overlapped, the offset of a process
  at work is the length of its file.
* `AllAtOnce`, from `Counted`, `Fine` and `Together`. The witness is the process that
  opened the file last: nothing it wrote was truncated, so that when it is done the
  file is whole, and what the others write over it is the same.

`ExecProofs`:

* `CommandsOneAfterAnother`, from `ExecInv`, which relates the place in the loop to the
  state of each child.
* `ExecTypes`. What the substitutions make of a text is a text (`RewrittenType`,
  `ReplacedType`, `TokensType`), and a match lies within it (`MatchRange`).
* `NamesAreTrimmed`. The three substitutions of `trim` in their order: after the first
  two no white space is left at the ends (`EndsGone`), and the third makes no new one
  there and leaves no two in a row (`CollapsedSpaced`).
* `ArgumentsWritten` (`ArgumentsAsWritten`). The code replaces and then splits, the
  property speaks of splitting and then replacing. `ReplacedFinds` shows by induction
  on the length of the command that the two commute: what is put in between two
  quotation marks has none and so does not move them (`EnclosedToken`), a part
  without `%` is not changed, and the parts are replaced independently of each other
  (`ReplacedApart`). `ReplacedAlone` and `ReplacedWithout` then say what becomes of an
  argument that is nothing but a sequence.

**Recursion in the proofs.** The provers cannot instantiate an induction theorem
whose parameter is an operator, so `Induction` states it with sets: if a claim does
not hold of everything that has a rank, there is something of least rank of which it
does not hold (`ByRank`, `ByRanks`). A
recursive function is used through the equation it satisfies, which `Solvable` (and
`SolvableInTwo`, for the recursion of lists on depth and length) derives from the
existence of a solution; each recursive function of the models has one lemma with
its equations (`ReplacedSteps`, `FindsSteps`, `OccurringSteps`, `ReadingReads`).

**Model-checked only.** The six liveness properties (`AlwaysEnds`,
`SignalEndsTransfer`, `CatchesUp`, `StartsOrEnds`, `ShellIsReleased`, `ExecEnds`), which need fairness
and ENABLED. Every invariant and every action property or refinement of the
passing runs is a theorem.

## 5. Where the code and the manual disagree

Each has a run in which TLC violates what `doc/man1/cclive.1.txt` says.

* `exec_after_skip`: the `--exec` commands run on a partial file after SIGUSR1,
  because `print_error` returns true for a skipped transfer.
* `retry_after_503`: codes above 500 are retried; the manual promises none from
  400 on.
* `throttle_lost`: `file::write` sets the speed limit to 0 after each attempt, and
  only `curl_setup`, once per URL, sets it again: retries are not throttled.
* `status_lost`: a later success overwrites an earlier error, and retries used up
  count as a success.
* `stale_signal`: the flag is only reset in `progress_cb`, so a signal that comes
  while no transfer is on skips a later URL.

## 6. Seen while modelling, promised by no source

* `--output-file` resumes a partial file although `--continue` is not given, and
  never downloads a media of unknown length (0 >= 0 counts as complete).
* Without `--continue` a retry leaves the partial file of the attempt before it
  and takes a new suffix.
* `--continue` takes whatever a file holds for the start of the media: another
  media with the same title, or an error page that a failed attempt has stored.
* `--dns-cache-timeout -1`, which the manual describes, is out of the range that
  `options.h` accepts, and what the manual calls `connect-time` is
  `connect-timeout` in the configuration file.
* An `--exec` on the command line replaces those of the configuration file. A value
  in the file that is overridden is not validated. With `--support` and `--version`
  only the former is obeyed.
* After a transfer `CURLOPT_WRITEDATA` points to an object that is gone: `_restore`
  resets `CURLOPT_WRITEFUNCTION` only (`file.cpp:174`, `190-200`, `220-226`). That is
  harmless as long as libquvi sets both for its pages. The URL stays set too, and
  `CURLOPT_HEADER` becomes 1, whatever it was.
* When `--log-file` cannot be opened in the background, the message goes to
  `/dev/null` and the status to nobody.
* Two cclive that retrieve the same media at once: each measures the file before
  either has opened it, so that the second truncates what the first has received,
  even if that is complete. If the second then fails, the finished file is gone;
  and while both are at it, or if one retries, there may be holes.
* The progress line is one column too long when the text leaves no column for the
  meter. With an unknown length the final size is shown as 0.
* `%t` of `--exec` goes through pcrecpp's `Rewrite`, so that a title with a backslash
  is cut there. What `%f` puts in is searched again for `%n` and `%t`.
* `exec = /usr/bin/totem %f` (the manual's example) without quotation marks splits a
  path with blanks into several arguments, and the default `--tr` keeps blanks.
* An `--exec` of nothing but white space reads `args[0]` of an empty vector.
* A `g` pattern that also matches no text, such as `/(\w*)/g`, never ends: `FindAndConsume`
  does not move on.

## 7. Not modelled, and the plan

* Formatting and wording of output: the sinks of the log, `--help`,
  `--print-config`, rate and remaining time of the progress bar. No decision
  depends on them.
* `re::subst`, `capture` and `grep`: used for `--prefer-format` and for libquvi 0.4
  only. Whether a pattern compiles, and who catches it, is modelled.
* The insides of the libquvi wrappers and of libquvi: `parse`, `streams` and
  `setup_curl` are modelled as `exec` sees them.
* Options that are passed through: proxy, agent, DNS and connect timeouts.
* `throttle * 1024`, which overflows `int` from 2097152 on: a property would
  restate the bound.
* The build system, Windows, and what follows a crash.

What could be added, most useful first:

1. `prefer_format`: which of the streams `re::grep` chooses, with the fallback.
2. The two wrappers as modules that implement one abstract libquvi session.
