--------------------------- MODULE ProgressProofs ---------------------------
(***************************************************************************)
(* Theorems about the progress bar, for every width of the terminal, every *)
(* length of the texts and every number of bytes.                          *)
(***************************************************************************)
EXTENDS Progress, TLAPS

\* What has been shown is what has been counted, and no bar that is on is done.
ShownIsCounted ==
  at = "on" => /\ line.size <= bar.initial + bar.bytes_received
               /\ bar.bytes_received <= dlnow
               /\ bar.num_dots <= 30
               /\ ~bar.done

\* The width in use is that of the terminal, or will be asked for.
WidthKnown ==
  handled => \/ winch \/ max_width = 0
             \/ max_width = IF width = 0 THEN default_term_width ELSE width

ProgressInv ==
  ProgressTypeOK /\ DotsBeforeSummary /\ ShownIsCounted /\ WidthKnown

-----------------------------------------------------------------------------
(* The operators.                                                          *)

\* The quotient of a percentage is below 100.
LEMMA QuotientBound ==
  ASSUME NEW a \in Nat, NEW b \in Nat, b > 0, 100 * a < 100 * b
  PROVE  (100 * a) \div b \in 0 .. 100
<1> DEFINE q == (100 * a) \div b
<1>1. q \in Int /\ b * q <= 100 * a /\ 100 * a < b * q + b
  BY Z3
<1>2. q < 100
  <2>1. SUFFICES ASSUME q >= 100 PROVE FALSE
    BY <1>1
  <2>2. b * q >= b * 100
    BY <1>1, <2>1, Z3
  <2> QED BY <1>1, <2>2
<1>3. q >= 0
  <2>1. SUFFICES ASSUME q <= -1 PROVE FALSE
    BY <1>1
  <2>2. b * q <= b * (-1)
    BY <1>1, <2>1, Z3
  <2> QED BY <1>1, <2>2
<1> QED BY <1>1, <1>2, <1>3

\* The percentage that is shown is one, whatever arrives (progressbar.h:138-144).
LEMMA PercentType ==
  ASSUME NEW b \in Bars, NEW size \in Nat
  PROVE  Percent(b, size) \in 0 .. 100
<1>1. b.content \in Nat
  BY DEF Bars
<1>2. CASE b.content = 0 \/ 100 * size >= 100 * b.content
  BY <1>1, <1>2 DEF Percent
<1>3. CASE b.content > 0 /\ 100 * size < 100 * b.content
  BY <1>1, <1>3, QuotientBound DEF Percent
<1> QED BY <1>1, <1>2, <1>3

\* A line is as long as the terminal is wide, one column longer if the text
\* leaves one column too few, and is not drawn if the text does not fit.
LEMMA LineLength ==
  ASSUME ProgressTypeOK, NEW l \in TextLengths
  PROVE  /\ term_width \in Nat
         /\ normal_length(l) \in Nat
         /\ \/ normal_length(l) <= term_width
            \/ normal_length(l) = term_width + 1 /\ term_width - 1 = l
<1>1. /\ term_width \in Nat
      /\ l \in Nat /\ SizeMax \in Nat
  BY ProgressAssumption DEF ProgressTypeOK, term_width, default_term_width
<1>2. 80 + l < SizeMax
  BY ProgressAssumption
<1>3. CASE l + 1 <= term_width
  BY <1>1, <1>2, <1>3 DEF normal_length, space_left
<1>4. CASE ~(l + 1 <= term_width)
  <2>1. space_left(l) = SizeMax + term_width - l - 1
    BY <1>4 DEF space_left
  <2>2. ~(term_width > SizeMax + term_width - l - 1)
    BY <1>1, <1>2
  <2>3. normal_length(l) = 0
    BY <2>1, <2>2 DEF normal_length
  <2> QED BY <1>1, <2>3
<1> QED BY <1>3, <1>4

\* What rendering leaves, in any mode.
LEMMA Rendered ==
  ASSUME ProgressTypeOK, NEW b \in Bars, b.num_dots <= 30, NEW size \in Nat,
         line.before = 30,
         mode = "dotline" => line.dots = b.num_dots,
         render(b, size)
  PROVE  /\ max_width' \in Nat
         /\ max_width' \in {max_width, term_width}
         /\ bar' \in Bars
         /\ \E n \in 0 .. 31 : /\ bar' = [b EXCEPT !.num_dots = n]
                               /\ ~b.done => n <= 30
                               /\ mode = "dotline" /\ ~b.done => line'.dots = n
         /\ line' \in Lines
         /\ line'.before = 30
         /\ line'.size \in {line.size, size}
         /\ b.done /\ mode # "normal" => line'.size = size
<1>1. Percent(b, size) \in 0 .. 100
  BY PercentType
<1>2. Shown(b, size) \in Lines /\ Shown(b, size).size = size
      /\ Shown(b, size).before = 30
  BY <1>1 DEF ProgressTypeOK, Lines, Shown, Bars
<1>3. CASE mode = "simple" /\ render_simple(b, size)
  <2>1. b = [b EXCEPT !.num_dots = b.num_dots] /\ b.num_dots \in 0 .. 31
    BY DEF Bars
  <2> QED BY <1>2, <1>3, <2>1 DEF render_simple, ProgressTypeOK
<1>4. CASE mode = "normal" /\ render_normal(b, size)
  <2>1. PICK l \in TextLengths :
          /\ bar' = b
          /\ max_width' = term_width
          /\ line' = [(IF normal_length(l) > 0 THEN Shown(b, size) ELSE line)
                        EXCEPT !.length = normal_length(l)]
    BY <1>4 DEF render_normal
  <2>2. term_width \in Nat /\ normal_length(l) \in Nat
    BY LineLength
  <2>3. b = [b EXCEPT !.num_dots = b.num_dots] /\ b.num_dots \in 0 .. 31
    BY DEF Bars
  <2>4. /\ line' \in Lines /\ line'.before = 30
        /\ line'.size \in {line.size, size}
    BY <1>2, <2>1, <2>2 DEF ProgressTypeOK, Lines
  <2> QED BY <1>4, <2>1, <2>2, <2>3, <2>4
<1>5. CASE mode = "dotline" /\ render_dotline(b, size)
  <2>1. CASE b.done \/ b.num_dots + 1 >= 31
    <3>1. line' = [Shown(b, size) EXCEPT
                     !.before = line.dots + (30 - b.num_dots), !.dots = 0]
          /\ bar' = [b EXCEPT !.num_dots = IF b.done THEN 31 ELSE 0]
          /\ max_width' = max_width
      BY <1>5, <2>1 DEF render_dotline
    <3>2. line.dots + (30 - b.num_dots) = 30
      BY <1>5 DEF Bars
    <3>3. line' \in Lines /\ line'.before = 30 /\ line'.size = size
          /\ line'.dots = 0
      BY <1>2, <3>1, <3>2 DEF Lines
    <3>4. bar' \in Bars
      BY <3>1 DEF Bars
    <3> QED BY <3>1, <3>3, <3>4 DEF ProgressTypeOK
  <2>2. CASE ~(b.done \/ b.num_dots + 1 >= 31)
    <3>1. line' = [line EXCEPT !.dots = @ + 1]
          /\ bar' = [b EXCEPT !.num_dots = @ + 1]
          /\ max_width' = max_width
      BY <1>5, <2>2 DEF render_dotline
    <3>2. b.num_dots + 1 \in 0 .. 30
      BY <2>2 DEF Bars
    <3>3. line' \in Lines /\ line'.before = 30 /\ line'.size = line.size
          /\ line'.dots = line.dots + 1
      BY <3>1 DEF Lines, ProgressTypeOK
    <3>4. bar' \in Bars
      BY <3>1, <3>2 DEF Bars
    <3>5. ~b.done /\ b.num_dots + 1 \in 0 .. 31 /\ b.num_dots + 1 <= 30
          /\ bar' = [b EXCEPT !.num_dots = b.num_dots + 1]
      BY <2>2, <3>1, <3>2
    <3>6. mode = "dotline" /\ ~b.done => line'.dots = b.num_dots + 1
      BY <3>3
    <3>7. max_width' \in Nat
      BY <3>1 DEF ProgressTypeOK
    <3> QED BY <3>1, <3>3, <3>4, <3>5, <3>6, <3>7
  <2> QED BY <2>1, <2>2
<1> QED BY <1>3, <1>4, <1>5 DEF render

\* If SIGWINCH is not ignored, the width in use is the width of the terminal.
LEMMA WidthUsed ==
  ASSUME ProgressTypeOK, WidthKnown, handled
  PROVE  term_width = IF width = 0 THEN default_term_width ELSE width
BY DEF ProgressTypeOK, WidthKnown, term_width

\* finish never takes back what has been shown.
LEMMA FinalContentBound ==
  ASSUME ProgressTypeOK, ShownIsCounted, at = "on"
  PROVE  /\ FinalContent \in Nat
         /\ bar.content > 0 => FinalContent >= line.size
BY DEF ProgressTypeOK, ShownIsCounted, FinalContent, Bars, Lines

-----------------------------------------------------------------------------
(* The steps.                                                              *)

\* The constructor shows nothing and has counted nothing.
LEMMA InitInv == ProgressInit => ProgressInv
<1> SUFFICES ASSUME ProgressInit PROVE ProgressInv
  OBVIOUS
<1>1. mode \in Modes /\ width \in Widths \cup {0}
  <2>1. PICK progressbar \in Modes, background \in BOOLEAN :
          /\ mode = IF background THEN "dotline" ELSE progressbar
          /\ width \in IF background THEN {0} ELSE Widths
    BY DEF ProgressInit
  <2> QED BY <2>1 DEF Modes
<1>2. NoBar \in Bars /\ NoLine \in Lines
  BY DEF NoBar, Bars, NoLine, Lines
<1>3. ProgressTypeOK
  <2>1. handled \in BOOLEAN /\ winch \in BOOLEAN
    BY DEF ProgressInit
  <2>2. max_width \in Nat /\ dlnow \in 0 .. MaxBytes /\ since \in 0 .. Interval
    BY ProgressAssumption DEF ProgressInit
  <2>3. at \in {"none", "on", "failed", "over"} /\ bar \in Bars /\ line \in Lines
    BY <1>2 DEF ProgressInit
  <2> QED BY <1>1, <2>1, <2>2, <2>3 DEF ProgressTypeOK
<1> QED
  BY <1>3 DEF ProgressInit, ProgressInv, DotsBeforeSummary, ShownIsCounted,
              WidthKnown, NoBar, NoLine

\* update draws what it has counted, or returns before it draws.
LEMMA UpdateInv == ProgressInv /\ update => ProgressInv'
<1> SUFFICES ASSUME ProgressInv, update PROVE ProgressInv'
  OBVIOUS
<1> DEFINE b == [bar EXCEPT !.bytes_received = dlnow]
<1>1. /\ ProgressTypeOK /\ DotsBeforeSummary /\ ShownIsCounted /\ WidthKnown
      /\ at = "on" /\ render(b, dlnow + bar.initial) /\ since' = 0
      /\ UNCHANGED <<mode, handled, width, winch, at, dlnow>>
  BY DEF ProgressInv, update, globals
<1>2. /\ b \in Bars /\ b.num_dots = bar.num_dots /\ b.num_dots <= 30 /\ ~b.done
      /\ dlnow \in Nat /\ dlnow + bar.initial \in Nat
  BY <1>1 DEF ProgressTypeOK, ShownIsCounted, Bars
<1>3. /\ max_width' \in Nat /\ max_width' \in {max_width, term_width}
      /\ bar' \in Bars
      /\ \E n \in 0 .. 31 : /\ bar' = [b EXCEPT !.num_dots = n]
                            /\ n <= 30
                            /\ mode = "dotline" => line'.dots = n
      /\ line' \in Lines /\ line'.before = 30
      /\ line'.size \in {line.size, dlnow + bar.initial}
  <2>1. line.before = 30 /\ (mode = "dotline" => line.dots = b.num_dots)
    BY <1>1, <1>2 DEF DotsBeforeSummary
  <2> HIDE DEF b
  <2> QED BY <1>1, <1>2, <2>1, Rendered
<1>4. PICK n \in 0 .. 31 : /\ bar' = [b EXCEPT !.num_dots = n]
                           /\ n <= 30
                           /\ mode = "dotline" => line'.dots = n
  BY <1>3
<1>5. /\ bar'.num_dots = n /\ bar'.bytes_received = dlnow
      /\ bar'.initial = bar.initial /\ ~bar'.done
  BY <1>1, <1>4 DEF ProgressTypeOK, ShownIsCounted, Bars
<1>6. ProgressTypeOK'
  BY <1>1, <1>3, ProgressAssumption DEF ProgressTypeOK
<1>7. DotsBeforeSummary'
  BY <1>1, <1>3, <1>4, <1>5 DEF DotsBeforeSummary
<1>8. ShownIsCounted'
  BY <1>1, <1>2, <1>3, <1>4, <1>5 DEF ShownIsCounted, ProgressTypeOK, Bars, Lines
<1>9. WidthKnown'
  BY <1>1, <1>3, WidthUsed DEF WidthKnown
<1> QED BY <1>6, <1>7, <1>8, <1>9 DEF ProgressInv

\* finish draws its last line and ends the bar.
LEMMA FinishInv == ProgressInv /\ finish => ProgressInv'
<1> SUFFICES ASSUME ProgressInv, finish PROVE ProgressInv'
  OBVIOUS
<1> DEFINE b == [bar EXCEPT !.content = FinalContent, !.done = TRUE,
                            !.bytes_received = FinalContent]
<1>1. /\ ProgressTypeOK /\ DotsBeforeSummary /\ ShownIsCounted /\ WidthKnown
      /\ at = "on" /\ at' = "over" /\ render(b, FinalContent) /\ since' = 0
      /\ UNCHANGED <<mode, handled, width, winch, dlnow>>
  BY DEF ProgressInv, finish, globals
<1>2. FinalContent \in Nat
  BY <1>1, FinalContentBound
<1>3. b \in Bars /\ b.num_dots = bar.num_dots /\ b.num_dots <= 30
  BY <1>1, <1>2 DEF ProgressTypeOK, ShownIsCounted, Bars
<1>4. /\ max_width' \in Nat /\ max_width' \in {max_width, term_width}
      /\ bar' \in Bars /\ line' \in Lines /\ line'.before = 30
  <2>1. line.before = 30 /\ (mode = "dotline" => line.dots = b.num_dots)
    BY <1>1, <1>3 DEF DotsBeforeSummary
  <2> HIDE DEF b
  <2> QED BY <1>1, <1>2, <1>3, <2>1, Rendered
<1>5. ProgressTypeOK'
  BY <1>1, <1>4, ProgressAssumption DEF ProgressTypeOK
<1>6. DotsBeforeSummary' /\ ShownIsCounted'
  BY <1>1, <1>4 DEF DotsBeforeSummary, ShownIsCounted
<1>7. WidthKnown'
  BY <1>1, <1>4, WidthUsed DEF WidthKnown
<1> QED BY <1>5, <1>6, <1>7 DEF ProgressInv

\* Every step of the bar, of the terminal or of the clock keeps the invariant.
LEMMA StepInv == ProgressInv /\ [ProgressNext]_pbvars => ProgressInv'
<1> SUFFICES ASSUME ProgressInv, [ProgressNext]_pbvars PROVE ProgressInv'
  OBVIOUS
<1> USE DEF ProgressInv, globals
<1>1. ASSUME NEW c \in Contents, NEW n \in Initials, New(c, n)
      PROVE  ProgressInv'
  <2>1. bar' \in Bars /\ bar'.num_dots = 0 /\ bar'.bytes_received = 0
        /\ bar'.initial = n /\ ~bar'.done /\ n \in Nat
    <3>1. bar' = [NoBar EXCEPT !.content = c, !.initial = n]
          /\ c \in Nat /\ n \in Nat
      BY <1>1, ProgressAssumption DEF New
    <3>2. /\ NoBar \in Bars /\ NoBar.num_dots = 0 /\ NoBar.bytes_received = 0
          /\ ~NoBar.done
      BY DEF NoBar, Bars
    <3> QED BY <3>1, <3>2 DEF Bars
  <2>2. ProgressTypeOK'
    BY <1>1, <2>1, ProgressAssumption
    DEF New, ProgressTypeOK, NoLine, Lines
  <2> QED
    BY <1>1, <2>1, <2>2 DEF New, DotsBeforeSummary, ShownIsCounted, WidthKnown,
                            NoLine
<1>2. CASE Arrive
  BY <1>2, ProgressAssumption
  DEF Arrive, ProgressTypeOK, DotsBeforeSummary, ShownIsCounted, WidthKnown, Bars
<1>3. CASE Tick
  BY <1>3, ProgressAssumption
  DEF Tick, ProgressTypeOK, DotsBeforeSummary, ShownIsCounted, WidthKnown
<1>4. CASE update
  BY <1>4, UpdateInv
<1>5. CASE print_error
  <2>1. bar \in Bars /\ line \in Lines /\ width \in Nat
    BY ProgressAssumption DEF ProgressTypeOK
  <2>2. bar' = [bar EXCEPT !.failed = TRUE] /\ at' = "failed"
        /\ line' = [line EXCEPT !.length = width, !.final = FALSE]
    BY <1>5 DEF print_error
  <2>3. bar' \in Bars
    BY <2>1, <2>2 DEF Bars
  <2>4. line' \in Lines /\ line'.before = line.before
    BY <2>1, <2>2 DEF Lines
  <2> QED
    BY <1>5, <2>2, <2>3, <2>4 DEF print_error, ProgressTypeOK, DotsBeforeSummary,
                      ShownIsCounted, WidthKnown
<1>6. CASE finish
  BY <1>6, FinishInv
<1>7. CASE finish_failed
  <2>1. FinalContent \in Nat
    BY DEF ProgressTypeOK, Bars, FinalContent
  <2>2. bar' \in Bars /\ at' = "over"
    BY <1>7, <2>1 DEF finish_failed, ProgressTypeOK, Bars
  <2> QED
    BY <1>7, <2>2 DEF finish_failed, ProgressTypeOK, DotsBeforeSummary,
                      ShownIsCounted, WidthKnown
<1>8. CASE Forget
  BY <1>8 DEF Forget, ProgressTypeOK, DotsBeforeSummary, ShownIsCounted,
              WidthKnown
<1>9. ASSUME NEW w \in Widths, Resize(w) PROVE ProgressInv'
  BY <1>9 DEF Resize, ProgressTypeOK, DotsBeforeSummary, ShownIsCounted,
              WidthKnown
<1>10. CASE UNCHANGED pbvars
  BY <1>10 DEF pbvars, ProgressTypeOK, DotsBeforeSummary, ShownIsCounted,
               WidthKnown
<1> QED
  BY <1>1, <1>2, <1>3, <1>4, <1>5, <1>6, <1>7, <1>8, <1>9, <1>10
  DEF ProgressNext, Skip

\* The invariant of the bar holds throughout.
LEMMA Invariance == ProgressSpec => []ProgressInv
BY InitInv, StepInv, PTL DEF ProgressSpec

-----------------------------------------------------------------------------
(* The theorems.                                                           *)

\* The type invariant: no count of update, finish or the renderers leaves its
\* range, and no percentage exceeds 100.
THEOREM ProgressTypeCorrect == ProgressSpec => []ProgressTypeOK
BY Invariance, PTL DEF ProgressInv

\* render_dotline puts 30 dots before every summary.
THEOREM DotsAligned == ProgressSpec => []DotsBeforeSummary
BY Invariance, PTL DEF ProgressInv

\* The size shown never shrinks, the final line of finish included.
THEOREM SizeGrows == ProgressSpec => SizeNeverShrinks
<1>1. ProgressInv /\ [ProgressNext]_pbvars =>
        [at = "on" /\ at' \in {"on", "over"} /\ bar.content > 0 =>
           line'.size >= line.size]_pbvars
  <2> SUFFICES ASSUME ProgressInv, ProgressNext, at = "on",
                      at' \in {"on", "over"}, bar.content > 0
               PROVE  line'.size >= line.size
    BY DEF pbvars
  <2>1. line.size \in Nat
    BY DEF ProgressInv, ProgressTypeOK, Lines
  <2>2. CASE update
    <3> DEFINE b == [bar EXCEPT !.bytes_received = dlnow]
    <3>2. /\ render(b, dlnow + bar.initial) /\ b \in Bars
          /\ b.num_dots = bar.num_dots /\ b.num_dots <= 30
          /\ dlnow + bar.initial \in Nat /\ dlnow + bar.initial >= line.size
      BY <2>2 DEF update, ProgressInv, ProgressTypeOK, ShownIsCounted, Bars, Lines
    <3>3. ProgressTypeOK /\ line.before = 30
          /\ (mode = "dotline" => line.dots = b.num_dots)
      BY <3>2 DEF ProgressInv, DotsBeforeSummary
    <3>4. line'.size \in {line.size, dlnow + bar.initial}
      <4> HIDE DEF b
      <4> QED BY <3>2, <3>3, Rendered
    <3> QED BY <2>1, <3>2, <3>4
  <2>3. CASE finish
    <3> DEFINE b == [bar EXCEPT !.content = FinalContent, !.done = TRUE,
                                !.bytes_received = FinalContent]
    <3>1. FinalContent \in Nat /\ FinalContent >= line.size
      BY FinalContentBound DEF ProgressInv
    <3>2. /\ render(b, FinalContent) /\ b \in Bars
          /\ b.num_dots = bar.num_dots /\ b.num_dots <= 30
      BY <2>3, <3>1 DEF finish, ProgressInv, ProgressTypeOK, ShownIsCounted, Bars
    <3>3. ProgressTypeOK /\ line.before = 30
          /\ (mode = "dotline" => line.dots = b.num_dots)
      BY <3>2 DEF ProgressInv, DotsBeforeSummary
    <3>4. line'.size \in {line.size, FinalContent}
      <4> HIDE DEF b
      <4> QED BY <3>1, <3>2, <3>3, Rendered
    <3> QED BY <2>1, <3>1, <3>4
  <2>4. CASE ~update /\ ~finish
    <3>1. line' = line
      BY <2>4 DEF ProgressNext, New, Arrive, Tick, Skip, print_error,
                  finish_failed, Forget, Resize, pbvars, globals
    <3> QED BY <2>1, <3>1
  <2> QED BY <2>2, <2>3, <2>4
<1> QED BY <1>1, Invariance, PTL DEF ProgressSpec, SizeNeverShrinks

\* The line of render_normal fits the terminal of the moment, to the column.
THEOREM LineFits == ProgressSpec => FitsTerminal
<1>1. ProgressInv /\ [ProgressNext]_pbvars =>
        [(update \/ finish) /\ handled /\ width # 0 /\ mode = "normal" =>
           \/ line'.length <= width
           \/ line'.length = width + 1 /\ width - 1 \in TextLengths]_pbvars
  <2> SUFFICES ASSUME ProgressInv, update \/ finish, handled, width # 0,
                      mode = "normal"
               PROVE  \/ line'.length <= width
                      \/ line'.length = width + 1 /\ width - 1 \in TextLengths
    BY DEF pbvars
  <2>1. PICK b, size : render(b, size)
    BY DEF update, finish
  <2>2. PICK l \in TextLengths : line'.length = normal_length(l)
    BY <2>1 DEF render, render_normal, ProgressInv, ProgressTypeOK, Shown, Lines
  <2>3. ProgressTypeOK /\ term_width = width
    BY WidthUsed DEF ProgressInv
  <2> QED BY <2>2, <2>3, LineLength
<1> QED BY <1>1, Invariance, PTL DEF ProgressSpec, FitsTerminal

\* Whether a line is a final one, place by place.
FinalInv ==
  /\ at = "on" => ~bar.failed /\ ~line.final
  /\ at = "failed" => bar.failed /\ ~line.final
  /\ FinalLineOnSuccess

\* With the content length as the size the bar is full, or empty if the length is 0.
LEMMA FinalPercent ==
  ASSUME NEW b \in Bars
  PROVE  Percent(b, b.content) = IF b.content > 0 THEN 100 ELSE 0
  BY DEF Percent, Bars

\* What rendering the bar b makes of the line, if it draws.
LEMMA Drawn ==
  ASSUME ProgressTypeOK, NEW b \in Bars, NEW size \in Nat, render(b, size)
  PROVE  /\ bar'.failed = b.failed /\ bar'.content = b.content
         /\ ~b.done => line'.final \in {line.final, FALSE}
         /\ b.done =>
              \/ line'.final /\ line'.percent = Percent(b, size)
              \/ mode = "normal" /\ line'.length = 0
<1>1. line \in Lines /\ Percent(b, size) \in 0 .. 100 /\ b.done \in BOOLEAN
  BY PercentType DEF ProgressTypeOK, Bars
<1>2. Shown(b, size) = [line EXCEPT !.size = size, !.percent = Percent(b, size),
                                    !.final = b.done]
  BY DEF Shown
<1>3. /\ Shown(b, size).percent = Percent(b, size)
      /\ Shown(b, size).final = b.done
      /\ Shown(b, size) \in Lines
  BY <1>1, <1>2 DEF Lines
<1>4. CASE mode = "simple" /\ render_simple(b, size)
  <2>1. bar' = b /\ line' = Shown(b, size)
    BY <1>4 DEF render_simple
  <2>2. line'.percent = Percent(b, size) /\ line'.final = b.done
    BY <1>3, <2>1
  <2>3. b.done = TRUE \/ b.done = FALSE
    BY <1>1
  <2> QED BY <2>1, <2>2, <2>3
<1>5. CASE mode = "normal" /\ render_normal(b, size)
  <2>1. PICK l \in TextLengths :
          /\ bar' = b
          /\ line' = [(IF normal_length(l) > 0 THEN Shown(b, size) ELSE line)
                        EXCEPT !.length = normal_length(l)]
    BY <1>5 DEF render_normal
  <2>2. normal_length(l) > 0 \/ normal_length(l) = 0
    <3>1. normal_length(l) \in Nat
      BY LineLength
    <3> QED BY <3>1
  <2>3. CASE normal_length(l) > 0
    BY <1>3, <2>1, <2>3 DEF Lines
  <2>4. CASE normal_length(l) = 0
    BY <1>1, <1>5, <2>1, <2>4 DEF Lines
  <2> QED BY <2>2, <2>3, <2>4, Zenon
<1>6. CASE mode = "dotline" /\ render_dotline(b, size)
  <2>1. CASE b.done \/ b.num_dots + 1 >= 31
    <3>1. line' = [Shown(b, size) EXCEPT
                     !.before = line.dots + (30 - b.num_dots), !.dots = 0]
          /\ bar' = [b EXCEPT !.num_dots = IF b.done THEN 31 ELSE 0]
      BY <1>6, <2>1 DEF render_dotline
    <3>2. line'.final = b.done /\ line'.percent = Percent(b, size)
      BY <1>3, <3>1 DEF Lines
    <3> QED BY <3>1, <3>2 DEF Bars
  <2>2. CASE ~(b.done \/ b.num_dots + 1 >= 31)
    <3>1. line' = [line EXCEPT !.dots = @ + 1]
          /\ bar' = [b EXCEPT !.num_dots = @ + 1]
      BY <1>6, <2>2 DEF render_dotline
    <3> QED BY <1>1, <2>2, <3>1 DEF Bars, Lines
  <2> QED BY <2>1, <2>2
<1> QED BY <1>4, <1>5, <1>6 DEF render

\* Every step keeps what is claimed of the last line.
LEMMA FinalStep ==
  ASSUME ProgressInv, FinalInv, [ProgressNext]_pbvars
  PROVE  FinalInv'
<1>1. ProgressTypeOK /\ ShownIsCounted
  BY DEF ProgressInv
<1>2. CASE update
  <2> DEFINE b == [bar EXCEPT !.bytes_received = dlnow]
  <2>1. /\ b \in Bars /\ ~b.done /\ b.failed = bar.failed
        /\ dlnow + bar.initial \in Nat
        /\ render(b, dlnow + bar.initial) /\ at = "on" /\ at' = at
    BY <1>1, <1>2 DEF update, ProgressTypeOK, ShownIsCounted, Bars
  <2>2. bar'.failed = b.failed /\ line'.final \in {line.final, FALSE}
    <3> HIDE DEF b
    <3> QED BY <1>1, <2>1, Drawn
  <2> QED BY <2>1, <2>2 DEF FinalInv, FinalLineOnSuccess
<1>3. CASE finish
  <2> DEFINE b == [bar EXCEPT !.content = FinalContent, !.done = TRUE,
                              !.bytes_received = FinalContent]
  <2>1. FinalContent \in Nat
    BY <1>1, <1>3, FinalContentBound DEF finish
  <2>2. /\ b \in Bars /\ b.done /\ b.failed = bar.failed
        /\ b.content = FinalContent
    BY <1>1, <2>1 DEF ProgressTypeOK, Bars
  <2>3. render(b, FinalContent) /\ at = "on" /\ at' = "over" /\ mode' = mode
    BY <1>3 DEF finish, globals
  <2>4. /\ bar'.failed = bar.failed /\ bar'.content = FinalContent
        /\ \/ line'.final /\ line'.percent = Percent(b, b.content)
           \/ mode = "normal" /\ line'.length = 0
    <3> HIDE DEF b
    <3> QED BY <1>1, <2>1, <2>2, <2>3, Drawn
  <2>5. Percent(b, b.content) = IF bar'.content > 0 THEN 100 ELSE 0
    <3> HIDE DEF b
    <3> QED BY <2>2, <2>4, FinalPercent
  <2> QED BY <2>3, <2>4, <2>5 DEF FinalInv, FinalLineOnSuccess
<1>4. CASE print_error
  <2>1. bar'.failed /\ ~line'.final /\ at' = "failed"
    BY <1>1, <1>4 DEF print_error, ProgressTypeOK, Bars, Lines
  <2> QED BY <2>1 DEF FinalInv, FinalLineOnSuccess
<1>5. CASE finish_failed
  <2>1. bar'.failed = bar.failed /\ line' = line /\ at = "failed" /\ at' = "over"
    BY <1>1, <1>5 DEF finish_failed, ProgressTypeOK, Bars
  <2> QED BY <2>1 DEF FinalInv, FinalLineOnSuccess
<1>6. ASSUME NEW c \in Contents, NEW n \in Initials, New(c, n)
      PROVE  FinalInv'
  <2>1. bar' = [NoBar EXCEPT !.content = c, !.initial = n] /\ line' = NoLine
        /\ at' = "on"
    BY <1>6 DEF New
  <2>2. ~bar'.failed /\ ~line'.final
    BY <2>1 DEF NoBar, NoLine
  <2> QED BY <2>1, <2>2 DEF FinalInv, FinalLineOnSuccess
<1>7. CASE Forget
  BY <1>7 DEF Forget, FinalInv, FinalLineOnSuccess
<1>8. CASE Arrive \/ Tick \/ Skip \/ (\E w \in Widths : Resize(w))
           \/ UNCHANGED pbvars
  BY <1>8 DEF Arrive, Tick, Skip, Resize, pbvars, globals, FinalInv,
              FinalLineOnSuccess
<1> QED BY <1>2, <1>3, <1>4, <1>5, <1>6, <1>7, <1>8 DEF ProgressNext

\* A transfer that succeeds ends with a final line at 100% (finish, called by
\* the destructor), one that fails with none (print_error).
THEOREM FinalLine == ProgressSpec => []FinalLineOnSuccess
<1>1. ProgressInit => FinalInv
  BY DEF ProgressInit, FinalInv, FinalLineOnSuccess
<1>2. ProgressInv /\ FinalInv /\ [ProgressNext]_pbvars => FinalInv'
  BY FinalStep
<1>3. FinalInv => FinalLineOnSuccess
  BY DEF FinalInv
<1> QED BY <1>1, <1>2, <1>3, Invariance, PTL DEF ProgressSpec
=============================================================================
