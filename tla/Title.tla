-------------------------------- MODULE Title -------------------------------
(***************************************************************************)
(* From the title of a media to the name of its file: the --tr patterns    *)
(* one after the other, the white space (cc::re), --filename-format        *)
(* (cc::file::_init).                                                      *)
(*                                                                         *)
(* A text is a sequence of characters.  "n", "t" and "f" are letters,      *)
(* which with "%" make the sequences that are replaced; "_" is the white   *)
(* space, and "q" any quotation mark.  A pattern matches one character of  *)
(* a set, or as many of them as there are, none included; its group is all *)
(* of it.  What PCRE does with a pattern, and pcrecpp with a replacement   *)
(* text, is modelled from how it is used here.                             *)
(***************************************************************************)
EXTENDS Integers, Sequences, SequencesExt

CONSTANTS
  Titles,   \* what libquvi may say the title is
  Trs,      \* the lists of --tr under study: sequences of Patterns
  Format    \* --filename-format, with %s and %i replaced

Characters == {"n", "t", "f", "p", "_", "q", "%", "\\", "-"}
Word == {"n", "t", "f", "p"}

\* /pattern/flags, the text of which one or all matches make, or
\* s/pattern/by/flags, where they are replaced.
Filters == [kind : {"filter"}, set : SUBSET Characters, many : BOOLEAN,
            g : BOOLEAN]
Substitutions == [kind : {"subst"}, set : SUBSET Characters,
                  by : Seq(Characters \ {"\\"}), g : BOOLEAN]

ASSUME TitleAssumption ==
  /\ Titles \subseteq Seq(Characters)
  /\ Trs \subseteq Seq(Filters \cup Substitutions)
  /\ Format \in Seq(Characters)

VARIABLES
  title,  \* file.title(); never changes
  trs,    \* the patterns left
  s,      \* the text they have made of the title
  sp,     \* what FindAndConsume has left of it
  now     \* tr, find (in the loop of tr_filter), or named

titlevars == <<title, trs, s, sp, now>>

TitleInit ==
  /\ title \in Titles
  /\ trs \in Trs
  /\ s = title
  /\ sp = <<>>
  /\ now = "tr"

-----------------------------------------------------------------------------
(* Patterns.                                                               *)

\* The positions where the text has a character of the set.
Hits(text, set) == {k \in 1 .. Len(text) : text[k] \in set}
First(K) == CHOOSE k \in K : \A j \in K : k <= j

\* The first match of a filter: where it begins, and the position after it.
Matches(p, text) == p.many \/ Hits(text, p.set) # {}
MatchStart(p, text) == IF p.many THEN 1 ELSE First(Hits(text, p.set))
MatchEnd(p, text) ==
  IF p.many THEN First(Hits(text, Characters \ p.set) \cup {Len(text) + 1})
  ELSE First(Hits(text, p.set)) + 1
Match(p, text) == SubSeq(text, MatchStart(p, text), MatchEnd(p, text) - 1)

\* RE::Rewrite: a replacement text ends at a backslash, unless it is doubled.
Rewritten(v) ==
  LET from[j \in 1 .. (Len(v) + 2)] ==
        IF j > Len(v) THEN <<>>
        ELSE IF v[j] # "\\" THEN <<v[j]>> \o from[j + 1]
        ELSE IF j < Len(v) /\ v[j + 1] = "\\" THEN <<"\\">> \o from[j + 2]
        ELSE <<>>
  IN  from[1]

\* RE("%c").GlobalReplace(v, &text).
Replaced(text, c, v) ==
  LET of[t \in Seq(Characters)] ==
        IF t = <<>> THEN <<>>
        ELSE IF Len(t) > 1 /\ t[1] = "%" /\ t[2] = c
             THEN Rewritten(v) \o of[SubSeq(t, 3, Len(t))]
             ELSE <<t[1]>> \o of[SubSeq(t, 2, Len(t))]
  IN  of[text]

\* Replace and GlobalReplace: by takes the place of the characters at K.
Edited(text, K, by) ==
  FlattenSeq([j \in 1 .. Len(text) |-> IF j \in K THEN by ELSE <<text[j]>>])

-----------------------------------------------------------------------------
(* cc::re::tr.                                                             *)

Tr == Head(trs)

\* Each pattern returns at once if there is no text left.
NoText ==
  /\ now = "tr" /\ trs # <<>> /\ s = <<>>
  /\ trs' = Tail(trs)
  /\ UNCHANGED <<title, s, sp, now>>

\* tr_subst.
Substitute ==
  /\ now = "tr" /\ trs # <<>> /\ s # <<>>
  /\ Tr.kind = "subst"
  /\ LET hits == Hits(s, Tr.set)
         gone == IF Tr.g \/ hits = {} THEN hits ELSE {First(hits)}
     IN  s' = Edited(s, gone, Tr.by)
  /\ trs' = Tail(trs)
  /\ UNCHANGED <<title, sp, now>>

\* tr_filter without "g".
FilterOne ==
  /\ now = "tr" /\ trs # <<>> /\ s # <<>>
  /\ Tr.kind = "filter" /\ ~Tr.g
  /\ s' = IF Matches(Tr, s) THEN Match(Tr, s) ELSE <<>>
  /\ trs' = Tail(trs)
  /\ UNCHANGED <<title, sp, now>>

\* With "g": the loop begins.
FilterAll ==
  /\ now = "tr" /\ trs # <<>> /\ s # <<>>
  /\ Tr.kind = "filter" /\ Tr.g
  /\ sp' = s
  /\ s' = <<>>
  /\ now' = "find"
  /\ UNCHANGED <<title, trs>>

\* Mutation: PartialMatch does not consume what it has found.
Find_Again ==
  /\ now = "find" /\ Matches(Tr, sp)
  /\ s' = IF Len(s) > Len(title) THEN s ELSE s \o Match(Tr, sp)
  /\ UNCHANGED <<title, trs, sp, now>>

\* FindAndConsume.
Find ==
  /\ now = "find" /\ Matches(Tr, sp)
  /\ s' = s \o Match(Tr, sp)
  /\ sp' = SubSeq(sp, MatchEnd(Tr, sp), Len(sp))
  /\ UNCHANGED <<title, trs, now>>

FoundAll ==
  /\ now = "find" /\ ~Matches(Tr, sp)
  /\ trs' = Tail(trs)
  /\ now' = "tr"
  /\ UNCHANGED <<title, s, sp>>

-----------------------------------------------------------------------------
(* cc::re::trim, and the name.                                             *)

Blank == {"_"}
WithoutLeading(text) ==
  SubSeq(text, First(Hits(text, Characters \ Blank) \cup {Len(text) + 1}),
         Len(text))
WithoutTrailing(text) == Reverse(WithoutLeading(Reverse(text)))
Collapsed(text) ==
  Edited(text, {j \in Hits(text, Blank) : j > 1 /\ text[j - 1] \in Blank}, <<>>)

\* Mutation: the runs within the text are left as they are.
trim_Ends(text) == WithoutTrailing(WithoutLeading(text))

trim(text) == Collapsed(WithoutTrailing(WithoutLeading(text)))

Trim ==
  /\ now = "tr" /\ trs = <<>>
  /\ s' = trim(s)
  /\ now' = "named"
  /\ UNCHANGED <<title, trs, sp>>

\* %t is the last of the sequences to be replaced.
Name == Replaced(Format, "t", s)

TitleNext ==
  NoText \/ Substitute \/ FilterOne \/ FilterAll \/ Find \/ FoundAll \/ Trim

-----------------------------------------------------------------------------
(* Properties.                                                             *)

\* The type invariant.
TitleTypeOK ==
  /\ title \in Titles
  /\ trs \in Seq(Filters \cup Substitutions)
  /\ s \in Seq(Characters)
  /\ sp \in Seq(Characters)
  /\ now \in {"tr", "find", "named"}

\* Whatever the patterns make of a title, its white space does not show: none
\* at either end, and no two characters of it in a row.
NameIsTrimmed ==
  now = "named" =>
    \A k \in 1 .. Len(s) :
      s[k] \in Blank => 1 < k /\ k < Len(s) /\ s[k + 1] \notin Blank
=============================================================================
