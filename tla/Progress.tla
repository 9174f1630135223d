------------------------------ MODULE Progress ------------------------------
(***************************************************************************)
(* cc::progressbar and the width of the terminal.  cc::file::write makes a *)
(* progress bar for each transfer; libcurl's progress callback updates it  *)
(* while the bytes arrive; print_error fails it; and its destructor draws  *)
(* the final line, on every way out of write.  SIGWINCH and the width last *)
(* asked for are globals, which outlive the bars.                          *)
(*                                                                         *)
(* A line of text is its length, and of its numbers only the size and the  *)
(* percentage are kept: the rate and the remaining time depend on nothing  *)
(* else, and nothing depends on them.                                      *)
(***************************************************************************)
EXTENDS Integers

CONSTANTS
  Contents,     \* the lengths libquvi may report (0: unknown)
  Initials,     \* the lengths of partial files that are resumed (0: none)
  MaxBytes,     \* bound on the bytes that arrive in a transfer
  Interval,     \* --update-interval, in ticks of the clock
  Widths,       \* the widths the terminal may have (0: there is none)
  TextLengths,  \* the lengths of the text beside the meter
  SizeMax       \* SIZE_MAX + 1

Modes == {"normal", "simple", "dotline"}

ASSUME ProgressAssumption ==
  /\ Contents \subseteq Nat
  /\ Initials \subseteq Nat
  /\ MaxBytes \in Nat
  /\ Interval \in Nat \ {0}
  /\ Widths \subseteq Nat
  /\ TextLengths \subseteq Nat
  /\ SizeMax \in Nat
  /\ \A w \in Widths \cup {80}, l \in TextLengths : w + l < SizeMax

VARIABLES
  mode,       \* the mode of every bar; never changes
  handled,    \* SIGWINCH was not ignored when cclive started; never changes
  width,      \* the width of the terminal now
  winch,      \* cc::var::recv_sigwinch
  max_width,  \* cc::var::max_width
  at,         \* none, or the state of write's bar: on, failed, over
  bar,        \* the bar: content, initial, bytes_received, num_dots, flags
  dlnow,      \* the bytes that have arrived, as libcurl counts them
  since,      \* the time since last_update, at most Interval
  line        \* what is on the screen; see Lines

pbvars == <<mode, handled, width, winch, max_width, at, bar, dlnow, since, line>>
globals == <<mode, handled, width, winch>>

Bars == [content : Nat, initial : Nat, bytes_received : Nat,
         num_dots : 0 .. 31, failed : BOOLEAN, done : BOOLEAN]
NoBar == [content |-> 0, initial |-> 0, bytes_received |-> 0, num_dots |-> 0,
          failed |-> FALSE, done |-> FALSE]

\* The size and the percentage last shown, the length of the last line, the
\* dots since the last summary and the dots before it, and whether the line is
\* one that ended a transfer.
Lines == [size : Nat, percent : 0 .. 100, length : Nat, dots : Nat,
          before : Nat, final : BOOLEAN]
NoLine == [size |-> 0, percent |-> 0, length |-> 0, dots |-> 0, before |-> 30,
           final |-> FALSE]

\* --progressbar and --background decide the mode; in the background stderr is
\* /dev/null.
ProgressInit ==
  /\ \E progressbar \in Modes, background \in BOOLEAN :
       /\ mode = IF background THEN "dotline" ELSE progressbar
       /\ width \in IF background THEN {0} ELSE Widths
  /\ handled \in BOOLEAN
  /\ winch = FALSE
  /\ max_width = 0
  /\ at = "none"
  /\ bar = NoBar
  /\ dlnow = 0
  /\ since = 0
  /\ line = NoLine

-----------------------------------------------------------------------------
(* The width of the line.                                                  *)

default_term_width == 80

\* Mutation: the width is asked for only once.
term_width_Once ==
  IF max_width # 0 THEN max_width
  ELSE IF width = 0 THEN default_term_width ELSE width

\* calc_term_spaceleft asks again as soon as a SIGWINCH has come, and from
\* then on always: nobody clears the flag.
term_width ==
  IF max_width # 0 /\ ~winch THEN max_width
  ELSE IF width = 0 THEN default_term_width ELSE width

\* The columns left beside a text of length l, in a size_t.
space_left(l) ==
  IF l + 1 <= term_width THEN term_width - l - 1
  ELSE SizeMax + term_width - l - 1

\* render_meter puts one column between the brackets even if none is left.
\* Nothing is printed if the space has wrapped.
normal_length(l) ==
  IF term_width > space_left(l)
  THEN (IF space_left(l) = 0 THEN 2 ELSE space_left(l) + 1) + l
  ELSE 0

-----------------------------------------------------------------------------
(* update, once it has decided to draw, and the three renderers.  b is the *)
(* bar with its counters brought up to date.                               *)

\* Mutation: more than the announced length is more than 100%.
Percent_Uncapped(b, size) ==
  IF b.content = 0 THEN 0 ELSE (100 * size) \div b.content

Percent(b, size) ==
  IF b.content = 0 THEN 0
  ELSE IF 100 * size >= 100 * b.content THEN 100
  ELSE (100 * size) \div b.content

Shown(b, size) ==
  [line EXCEPT !.size = size, !.percent = Percent(b, size), !.final = b.done]

render_simple(b, size) ==
  /\ bar' = b
  /\ line' = Shown(b, size)
  /\ UNCHANGED max_width

render_normal(b, size) ==
  \E l \in TextLengths :
    /\ bar' = b
    /\ max_width' = term_width
    /\ line' = [(IF normal_length(l) > 0 THEN Shown(b, size) ELSE line)
                  EXCEPT !.length = normal_length(l)]

\* Mutation: the count starts again at 1 after a summary.
render_dotline_FromOne(b, size) ==
  /\ IF b.done \/ b.num_dots + 1 >= 31
     THEN /\ bar' = [b EXCEPT !.num_dots = IF b.done THEN 31 ELSE 1]
          /\ line' = [Shown(b, size) EXCEPT
                        !.before = line.dots + (30 - b.num_dots), !.dots = 0]
     ELSE /\ bar' = [b EXCEPT !.num_dots = @ + 1]
          /\ line' = [line EXCEPT !.dots = @ + 1]
  /\ UNCHANGED max_width

\* A dot, or the summary in the place of the 31st.  The last update fills the
\* line up with the dots that are missing.
render_dotline(b, size) ==
  /\ IF b.done \/ b.num_dots + 1 >= 31
     THEN /\ bar' = [b EXCEPT !.num_dots = IF b.done THEN 31 ELSE 0]
          /\ line' = [Shown(b, size) EXCEPT
                        !.before = line.dots + (30 - b.num_dots), !.dots = 0]
     ELSE /\ bar' = [b EXCEPT !.num_dots = @ + 1]
          /\ line' = [line EXCEPT !.dots = @ + 1]
  /\ UNCHANGED max_width

render(b, size) ==
  \/ mode = "simple" /\ render_simple(b, size)
  \/ mode = "normal" /\ render_normal(b, size)
  \/ mode = "dotline" /\ render_dotline(b, size)

-----------------------------------------------------------------------------
(* One transfer.                                                           *)

\* cc::file::write makes the bar.
New(content, initial) ==
  /\ at = "none"
  /\ at' = "on"
  /\ bar' = [NoBar EXCEPT !.content = content, !.initial = initial]
  /\ dlnow' = 0
  /\ since' = 0
  /\ line' = NoLine
  /\ UNCHANGED <<globals, max_width>>

Arrive ==
  /\ at = "on" /\ dlnow < MaxBytes
  /\ dlnow' = dlnow + 1
  /\ UNCHANGED <<globals, max_width, at, bar, since, line>>

Tick ==
  /\ at = "on" /\ since < Interval
  /\ since' = since + 1
  /\ UNCHANGED <<globals, max_width, at, bar, dlnow, line>>

\* update is called before the interval has passed.  Mutation: last_update is
\* set all the same.
Skip_Restarts ==
  /\ at = "on" /\ dlnow # 0 /\ since < Interval
  /\ since' = 0
  /\ UNCHANGED <<globals, max_width, at, bar, dlnow, line>>

Skip ==
  /\ at = "on" /\ dlnow # 0 /\ since < Interval
  /\ UNCHANGED pbvars

update ==
  /\ at = "on" /\ dlnow # 0 /\ since >= Interval
  /\ render([bar EXCEPT !.bytes_received = dlnow], dlnow + bar.initial)
  /\ since' = 0
  /\ UNCHANGED <<globals, at, dlnow>>

\* The line is cleared with as many blanks as the terminal is wide now.
print_error ==
  /\ at = "on"
  /\ at' = "failed"
  /\ bar' = [bar EXCEPT !.failed = TRUE]
  /\ line' = [line EXCEPT !.length = width, !.final = FALSE]
  /\ UNCHANGED <<globals, max_width, dlnow, since>>

\* Mutation: the announced length is kept although more has come.
FinalContent_AsAnnounced == bar.content

\* finish takes the size last shown for the length of the media if it exceeds
\* the length announced.
FinalContent ==
  IF bar.content > 0 /\ bar.bytes_received + bar.initial > bar.content
  THEN bar.initial + bar.bytes_received
  ELSE bar.content

\* Mutation: done is not set before update is called, which then minds the
\* interval.
finish_NotDone ==
  /\ at = "on"
  /\ at' = "over"
  /\ IF since >= Interval
     THEN render([bar EXCEPT !.content = FinalContent, !.done = TRUE,
                             !.bytes_received = FinalContent], FinalContent)
     ELSE bar' = [bar EXCEPT !.content = FinalContent]
          /\ UNCHANGED <<max_width, line>>
  /\ since' = 0
  /\ UNCHANGED <<globals, dlnow>>

\* The destructor of a bar that has not failed: update neither minds the
\* interval nor how many bytes have come.
finish ==
  /\ at = "on"
  /\ at' = "over"
  /\ render([bar EXCEPT !.content = FinalContent, !.done = TRUE,
                        !.bytes_received = FinalContent], FinalContent)
  /\ since' = 0
  /\ UNCHANGED <<globals, dlnow>>

\* The destructor of a bar that has failed.
finish_failed ==
  /\ at = "failed"
  /\ at' = "over"
  /\ bar' = [bar EXCEPT !.content = FinalContent]
  /\ UNCHANGED <<globals, max_width, dlnow, since, line>>

\* The caller of write goes on.
Forget ==
  /\ at = "over"
  /\ at' = "none"
  /\ UNCHANGED <<globals, max_width, bar, dlnow, since, line>>

-----------------------------------------------------------------------------
\* The terminal is resized.  default_handler sets the flag, if it is installed.
Resize(w) ==
  /\ width # 0 /\ w # 0 /\ w # width
  /\ width' = w
  /\ winch' = (winch \/ handled)
  /\ UNCHANGED <<mode, handled, max_width, at, bar, dlnow, since, line>>

ProgressNext ==
  \/ \E c \in Contents, n \in Initials : New(c, n)
  \/ Arrive \/ Tick \/ Skip \/ update \/ print_error
  \/ finish \/ finish_failed \/ Forget
  \/ \E w \in Widths : Resize(w)

ProgressSpec == ProgressInit /\ [][ProgressNext]_pbvars

\* The clock goes on, and libcurl calls progress_cb at least once a second.
ProgressFair == WF_pbvars(Tick) /\ WF_pbvars(update)

FairProgressSpec == ProgressSpec /\ ProgressFair

-----------------------------------------------------------------------------
(* Properties.                                                             *)

\* The type invariant.
ProgressTypeOK ==
  /\ mode \in Modes
  /\ handled \in BOOLEAN
  /\ width \in Widths \cup {0}
  /\ winch \in BOOLEAN
  /\ max_width \in Nat
  /\ at \in {"none", "on", "failed", "over"}
  /\ bar \in Bars
  /\ dlnow \in 0 .. MaxBytes
  /\ since \in 0 .. Interval
  /\ line \in Lines

\* A dotline summary, the final one included, always follows 30 dots, however
\* many updates came before: the summaries stand in one column.
DotsBeforeSummary ==
  /\ line.before = 30
  /\ mode = "dotline" /\ at = "on" => line.dots = bar.num_dots

\* The size shown never shrinks during a transfer of known length, not even on
\* the final line, which shows the length announced: the server may have sent
\* more than that.
SizeNeverShrinks ==
  [][at = "on" /\ at' \in {"on", "over"} /\ bar.content > 0 =>
       line'.size >= line.size]_pbvars

\* A line fits the terminal it is drawn on, whatever has been resized since the
\* first bar was drawn, unless SIGWINCH is ignored.  It is one column too long
\* if the text leaves no column for the meter, and none is drawn if the text
\* does not fit.
FitsTerminal ==
  [][(update \/ finish) /\ handled /\ width # 0 /\ mode = "normal" =>
         \/ line'.length <= width
         \/ line'.length = width + 1 /\ width - 1 \in TextLengths]_pbvars

\* A transfer that succeeds ends with a final line, at 100% if the length is
\* known, even if it was too short for a single update (unless the text does
\* not fit); one that fails never shows one.
FinalLineOnSuccess ==
  at = "over" =>
    IF bar.failed THEN ~line.final
    ELSE \/ line.final /\ line.percent = (IF bar.content > 0 THEN 100 ELSE 0)
         \/ mode = "normal" /\ line.length = 0

\* The bar catches up with the bytes that have arrived, however often it is
\* updated in between.
CatchesUp ==
  \A n \in 1 .. MaxBytes :
    at = "on" /\ dlnow = n ~> bar.bytes_received >= n \/ at # "on"
=============================================================================
