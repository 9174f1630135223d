------------------------------ MODULE ExecProofs -----------------------------
(***************************************************************************)
(* Theorems about cc::exec, for every list of commands, title and name.    *)
(***************************************************************************)
EXTENDS Exec, Induction, SequenceTheorems, TLAPS

Places == {"title", "command", "fork", "wait", "returned", "threw", "crashed"}

\* The commands before the one at hand have been waited for, those after it
\* have not been started, and where cc::exec is says how far the one at hand
\* has come.
ExecInv ==
  /\ execs \in ExecLists /\ at \in Places /\ k \in Nat
  /\ DOMAIN children = 1 .. Len(execs)
  /\ at = "title" <=> k = 0
  /\ \A j \in DOMAIN children :
       /\ j < k => children[j] = "reaped"
       /\ j > k => children[j] = "none"
       /\ j = k => children[j] \in (IF at = "wait" THEN {"running", "zombie"}
                                                    ELSE {"none"})
  /\ at \in {"fork", "wait"} => k <= Len(execs)
  /\ at = "returned" => k > Len(execs)

\* The command list is a sequence.
LEMMA LengthOfExecs ==
  ASSUME ExecInv
  PROVE  Len(execs) \in Nat
  BY ExecAssumption DEF ExecAssumption, ExecInv

\* cc::exec is entered with no command started.
LEMMA ExecStarts == ExecInit => ExecInv
  BY DEF ExecInit, ExecInv, Places

\* Every step, of the loop over the commands or of a child, keeps their order.
LEMMA ExecSteps ==
  ASSUME ExecInv, [ExecNext]_execvars
  PROVE  ExecInv'
<1> USE LengthOfExecs DEF ExecInv, Places
<1>1. CASE UNCHANGED ownvars
  BY <1>1 DEF ownvars
<1>2. CASE Called
  BY <1>2 DEF Called
<1>3. CASE Tokenize
  BY <1>3 DEF Tokenize
<1>4. CASE NoCommand
  BY <1>4 DEF NoCommand
<1>5. CASE Fork
  BY <1>5 DEF Fork
<1>6. CASE ForkFails
  BY <1>6 DEF ForkFails
<1>7. CASE Reap
  BY <1>7 DEF Reap, Proceed
<1>8. CASE Return
  BY <1>8 DEF Return
<1>9. CASE ChildEnds
  <2>1. PICK j \in DOMAIN children :
          /\ children[j] = "running"
          /\ children' = [children EXCEPT ![j] = "zombie"]
          /\ UNCHANGED <<execs, file, k, args, at>>
    BY <1>9 DEF ChildEnds
  <2>2. j = k /\ at = "wait"
    BY <2>1
  <2> QED BY <2>1, <2>2
<1> QED
  BY <1>1, <1>2, <1>3, <1>4, <1>5, <1>6, <1>7, <1>8, <1>9
  DEF ExecNext, Step, TitleStep, Interrupted, Ended, execvars, ownvars

\* A command is started only when every earlier one has ended and has been
\* waited for, and cc::exec returns only when all have (exec.cpp, invoke_exec):
\* a signal that interrupts waitpid changes nothing about it.
THEOREM CommandsOneAfterAnother == ExecSpec => []OneAfterAnother
<1>1. ExecInv => OneAfterAnother
  BY LengthOfExecs DEF ExecInv, OneAfterAnother, Places
<1> QED BY <1>1, ExecStarts, ExecSteps, PTL DEF ExecSpec

-----------------------------------------------------------------------------
(* Texts.                                                                  *)

Text == Seq(Characters)

\* The first of some positions is one of them, and the least.
LEMMA FirstIsLeast ==
  ASSUME NEW K \in SUBSET Nat, K # {}
  PROVE  First(K) \in K /\ \A j \in K : First(K) <= j
  BY Least DEF First

\* What Edited has made of the first j characters of a text.
Edits(f, text, K, by) ==
  /\ f \in [0 .. Len(text) -> Text]
  /\ f[0] = <<>>
  /\ \A j \in 1 .. Len(text) :
       f[j] = f[j - 1] \o (IF j \in K THEN by ELSE <<text[j]>>)

\* Edited goes through the text from its beginning to its end.
LEMMA EditedSteps ==
  ASSUME NEW text \in Text, NEW K, NEW by \in Text
  PROVE  \E f : Edits(f, text, K, by) /\ Edited(text, K, by) = f[Len(text)]
<1> DEFINE q == [j \in 1 .. Len(text) |-> IF j \in K THEN by ELSE <<text[j]>>]
<1>1. Len(text) \in Nat /\ \A j \in 1 .. Len(text) : text[j] \in Characters
  BY DEF Text
<1>2. q \in Seq(Seq(Characters)) /\ Len(q) = Len(text)
  BY <1>1 DEF Text
<1>3. \A j \in 1 .. Len(text) : q[j] = IF j \in K THEN by ELSE <<text[j]>>
  OBVIOUS
<1>4. Edited(text, K, by) = FlattenSeq(q)
  BY DEF Edited
<1> HIDE DEF q
<1>5. PICK f \in [0 .. Len(q) -> Seq(Characters)] :
        Concatenates(f, q) /\ FlattenSeq(q) = f[Len(q)]
  BY <1>2, FlattenSteps
<1>6. Edits(f, text, K, by)
  BY <1>2, <1>3, <1>5 DEF Edits, Concatenates, Text
<1> QED BY <1>2, <1>4, <1>5, <1>6

\* Edited makes a text.
LEMMA EditedType ==
  ASSUME NEW text \in Text, NEW K, NEW by \in Text
  PROVE  Edited(text, K, by) \in Text
<1>1. PICK f : Edits(f, text, K, by) /\ Edited(text, K, by) = f[Len(text)]
  BY EditedSteps
<1>2. Len(text) \in 0 .. Len(text)
  BY DEF Text
<1> QED BY <1>1, <1>2 DEF Edits

\* What Rewritten makes of a replacement text from its position j on.
Rewrites(c, v) ==
  \A j \in 1 .. (Len(v) + 2) :
    /\ c[j] \in Text
    /\ c[j] = IF j > Len(v) THEN <<>>
              ELSE IF v[j] # "\\" THEN <<v[j]>> \o c[j + 1]
              ELSE IF j < Len(v) /\ v[j + 1] = "\\" THEN <<"\\">> \o c[j + 2]
              ELSE <<>>

\* Rewritten goes through the replacement text from its beginning to its end.
LEMMA RewrittenSteps ==
  ASSUME NEW v \in Text
  PROVE  \E c : Rewrites(c, v) /\ Rewritten(v) = c[1]
<1> DEFINE D == 1 .. (Len(v) + 2)
           Body(c) == [j \in D |->
             IF j > Len(v) THEN <<>>
             ELSE IF v[j] # "\\" THEN <<v[j]>> \o c[j + 1]
             ELSE IF j < Len(v) /\ v[j + 1] = "\\" THEN <<"\\">> \o c[j + 2]
             ELSE <<>>]
           c0 == CHOOSE c : c = Body(c)
           G == [j \in D |-> [g \in [D -> Text] |-> Body(g)[j]]]
           r == [j \in D |-> Len(v) + 2 - j]
<1>1. Rewritten(v) = c0[1]
  BY DEF Rewritten
<1>2. Len(v) \in Nat /\ \A j \in 1 .. Len(v) : v[j] \in Characters
  BY DEF Text
<1>3. r \in [D -> Nat]
  BY <1>2
<1>4. ASSUME NEW c, NEW j \in D, \A i \in D : r[i] < r[j] => c[i] \in Text
      PROVE  Body(c)[j] \in Text
  <2>1. CASE j > Len(v)
    BY <2>1 DEF Text
  <2>2. CASE j <= Len(v)
    <3>1. j + 1 \in D /\ r[j + 1] < r[j] /\ j + 2 \in D /\ r[j + 2] < r[j]
      BY <1>2, <2>2
    <3>2. c[j + 1] \in Text /\ c[j + 2] \in Text /\ v[j] \in Characters
      BY <1>2, <1>4, <2>2, <3>1
    <3>3. "\\" \in Characters
      BY DEF Characters
    <3>4. <<v[j]>> \o c[j + 1] \in Text /\ <<"\\">> \o c[j + 2] \in Text /\ <<>> \in Text
      BY <3>2, <3>3 DEF Text
    <3> QED BY <2>2, <3>4
  <2> QED BY <1>2, <2>1, <2>2
<1>5. ASSUME NEW g1, NEW g2, NEW j \in D, \A i \in D : r[i] < r[j] => g1[i] = g2[i]
      PROVE  Body(g1)[j] = Body(g2)[j]
  <2>1. CASE j > Len(v)
    BY <2>1
  <2>2. CASE j <= Len(v)
    <3>1. j + 1 \in D /\ r[j + 1] < r[j] /\ j + 2 \in D /\ r[j + 2] < r[j]
      BY <1>2, <2>2
    <3>2. g1[j + 1] = g2[j + 1] /\ g1[j + 2] = g2[j + 2]
      BY <1>5, <3>1
    <3> QED BY <3>2
  <2> QED BY <1>2, <2>1, <2>2
<1>6. DOMAIN Body(c0) = D /\ \A c : Body(c) = [j \in D |-> Body(c)[j]]
  OBVIOUS
<1>7. \A j \in D, g \in [D -> Text] : G[j][g] = Body(g)[j]
  OBVIOUS
<1>8. Text # {}
  BY DEF Text
<1> HIDE DEF D, Body, r
<1>9. G \in [D -> [[D -> Text] -> Text]]
  BY <1>4
<1> HIDE DEF G
<1>10. Descends(D, Text, r, G)
  <2>1. ASSUME NEW j \in D, NEW g1 \in [D -> Text], NEW g2 \in [D -> Text],
               \A i \in D : r[i] < r[j] => g1[i] = g2[i]
        PROVE  G[j][g1] = G[j][g2]
    <3>1. Body(g1)[j] = Body(g2)[j]
      BY <1>5, <2>1, Zenon
    <3>2. G[j][g1] = Body(g1)[j] /\ G[j][g2] = Body(g2)[j]
      BY <1>7
    <3> QED BY <3>1, <3>2
  <2> QED BY <2>1 DEF Descends
<1>11. PICK g \in [D -> Text] : Solves(g, D, G)
  BY <1>3, <1>8, <1>9, <1>10, Solvable
<1>12. g = Body(g)
  BY <1>6, <1>7, <1>11 DEF Solves
<1>13. c0 = Body(c0)
  BY <1>12
<1> HIDE DEF c0
<1> DEFINE T == {j \in D : c0[j] \in Text}
<1>14. ASSUME NEW j \in D, \A i \in D : r[i] < r[j] => i \in T
       PROVE  j \in T
  BY <1>4, <1>13, <1>14
<1>15. T = D
  <2>1. T \in SUBSET D
    OBVIOUS
  <2> HIDE DEF T
  <2>2. ASSUME T # D PROVE FALSE
    <3>1. r \in [D -> Nat]
      BY <1>3
    <3>2. PICK j \in D : j \notin T /\ \A i \in D : r[i] < r[j] => i \in T
      BY ONLY <2>1, <2>2, <3>1, ByRank
    <3> QED BY <1>14, <3>2
  <2> QED BY <2>2
<1>16. \A j \in D : c0[j] \in Text /\ c0[j] = Body(c0)[j]
  BY <1>13, <1>15
<1>17. Rewrites(c0, v)
  BY <1>16 DEF Rewrites, D, Body
<1> QED BY <1>1, <1>17

\* A replacement text is a text.
LEMMA RewrittenType ==
  ASSUME NEW v \in Text
  PROVE  Rewritten(v) \in Text
<1>1. 1 \in 1 .. (Len(v) + 2)
  BY DEF Text
<1> QED BY <1>1, RewrittenSteps DEF Rewrites

\* Two ways to go on after the beginning of a text.
LEMMA Shorter ==
  ASSUME NEW t \in Text, t # <<>>, NEW n \in 1 .. Len(t)
  PROVE  /\ Len(t) \in Nat \ {0} /\ t[1] \in Characters
         /\ SubSeq(t, n + 1, Len(t)) \in Text
         /\ Len(SubSeq(t, n + 1, Len(t))) = Len(t) - n
         /\ Len(SubSeq(t, n + 1, Len(t))) < Len(t)
BY DEF Text

\* The sequence "%c" begins the text.
Begins(t, c) == Len(t) > 1 /\ t[1] = "%" /\ t[2] = c

\* RE("%c").GlobalReplace goes through a text from its beginning to its end.
LEMMA ReplacedSteps ==
  ASSUME NEW c, NEW v \in Text, NEW t \in Text
  PROVE  /\ Replaced(t, c, v) \in Text
         /\ t = <<>> => Replaced(t, c, v) = <<>>
         /\ Begins(t, c) => Replaced(t, c, v) =
              Rewritten(v) \o Replaced(SubSeq(t, 3, Len(t)), c, v)
         /\ t # <<>> /\ ~Begins(t, c) => Replaced(t, c, v) =
              <<t[1]>> \o Replaced(SubSeq(t, 2, Len(t)), c, v)
<1> DEFINE D == Text
           Value(u, x) ==
             IF x = <<>> THEN <<>>
             ELSE IF Len(x) > 1 /\ x[1] = "%" /\ x[2] = c
                  THEN Rewritten(v) \o u[SubSeq(x, 3, Len(x))]
                  ELSE <<x[1]>> \o u[SubSeq(x, 2, Len(x))]
           Body(u) == [x \in D |-> Value(u, x)]
           u0 == CHOOSE u : u = Body(u)
           G == [x \in D |-> [g \in [D -> Text] |-> Value(g, x)]]
           r == [x \in D |-> Len(x)]
<1>1. \A x : Replaced(x, c, v) = u0[x]
  BY DEF Replaced, Text
<1>2. r \in [D -> Nat] /\ \A x \in D : r[x] = Len(x)
  BY DEF Text
<1>3. <<>> \in Text /\ Text # {} /\ Rewritten(v) \in Text
  BY RewrittenType DEF Text
<1>4. ASSUME NEW x \in D, x # <<>>
      PROVE  /\ x[1] \in Characters
             /\ SubSeq(x, 2, Len(x)) \in D /\ r[SubSeq(x, 2, Len(x))] < r[x]
             /\ Len(x) > 1 => /\ SubSeq(x, 3, Len(x)) \in D
                              /\ r[SubSeq(x, 3, Len(x))] < r[x]
  <2> HIDE DEF r
  <2>1. Len(x) \in Nat \ {0}
    BY <1>4 DEF Text
  <2>2. /\ x[1] \in Characters
        /\ SubSeq(x, 1 + 1, Len(x)) \in Text
        /\ Len(SubSeq(x, 1 + 1, Len(x))) < Len(x)
    BY <1>4, <2>1, Shorter
  <2>3. Len(x) > 1 => /\ SubSeq(x, 2 + 1, Len(x)) \in Text
                      /\ Len(SubSeq(x, 2 + 1, Len(x))) < Len(x)
    BY <1>4, <2>1, Shorter
  <2>4. 1 + 1 = 2 /\ 2 + 1 = 3
    OBVIOUS
  <2> QED BY <1>2, <2>2, <2>3, <2>4
<1>5. ASSUME NEW u, NEW x \in D, \A y \in D : r[y] < r[x] => u[y] \in Text
      PROVE  Value(u, x) \in Text
  <2> HIDE DEF r
  <2>1. CASE x = <<>>
    BY <1>3, <2>1
  <2>2. CASE x # <<>>
    <3>1. /\ <<x[1]>> \in Text /\ u[SubSeq(x, 2, Len(x))] \in Text
          /\ Len(x) > 1 => u[SubSeq(x, 3, Len(x))] \in Text
      <4>1. x[1] \in Characters
        BY <1>4, <2>2
      <4>2. <<x[1]>> \in Text
        BY <4>1 DEF Text
      <4> QED BY <1>4, <1>5, <2>2, <4>2
    <3>2. \A y, z \in Text : y \o z \in Text
      BY DEF Text
    <3> HIDE DEF D
    <3> QED BY <1>3, <2>2, <3>1, <3>2
  <2> QED BY <2>1, <2>2
<1>6. ASSUME NEW g1, NEW g2, NEW x \in D, \A y \in D : r[y] < r[x] => g1[y] = g2[y]
      PROVE  Value(g1, x) = Value(g2, x)
  <2> HIDE DEF r
  <2>1. CASE x = <<>>
    BY <2>1
  <2>2. CASE x # <<>>
    <3>1. /\ g1[SubSeq(x, 2, Len(x))] = g2[SubSeq(x, 2, Len(x))]
          /\ Len(x) > 1 => g1[SubSeq(x, 3, Len(x))] = g2[SubSeq(x, 3, Len(x))]
      BY <1>4, <1>6, <2>2
    <3> QED BY <2>2, <3>1
  <2> QED BY <2>1, <2>2
<1>7. \A u : \A x \in D : Body(u)[x] = Value(u, x)
  <2> HIDE DEF Value
  <2> QED OBVIOUS
<1>8. /\ G \in [D -> [[D -> Text] -> Text]]
      /\ \A x \in D, g \in [D -> Text] : G[x][g] = Value(g, x)
  <2> HIDE DEF Value
  <2> QED BY <1>5
<1> HIDE DEF D, Value, r, G
<1>9. Descends(D, Text, r, G)
  <2>1. ASSUME NEW x \in D, NEW g1 \in [D -> Text], NEW g2 \in [D -> Text],
               \A y \in D : r[y] < r[x] => g1[y] = g2[y]
        PROVE  G[x][g1] = G[x][g2]
    <3>1. Value(g1, x) = Value(g2, x)
      BY <1>6, <2>1, Zenon
    <3> QED BY <1>8, <3>1
  <2> QED BY <2>1 DEF Descends
<1>10. PICK g \in [D -> Text] : Solves(g, D, G)
  BY <1>2, <1>3, <1>8, <1>9, Solvable
<1>11. g = Body(g)
  BY <1>8, <1>10 DEF Solves
<1>12. u0 = Body(u0)
  <2> HIDE DEF Body
  <2> QED BY <1>11
<1> HIDE DEF u0
<1>13. \A x \in D : u0[x] = Value(u0, x)
  <2> HIDE DEF Body
  <2> QED BY <1>7, <1>12, Zenon
<1> DEFINE T == {x \in D : u0[x] \in Text}
<1>14. \A x \in D : (\A y \in D : r[y] < r[x] => y \in T) => x \in T
  BY <1>5, <1>13
<1>15. T = D
  <2>1. T \in SUBSET D
    OBVIOUS
  <2> HIDE DEF T
  <2>2. ASSUME T # D PROVE FALSE
    <3>1. r \in [D -> Nat]
      BY <1>2
    <3>2. PICK x \in D : x \notin T /\ \A y \in D : r[y] < r[x] => y \in T
      BY ONLY <2>1, <2>2, <3>1, ByRank
    <3> QED BY <1>14, <3>2
  <2> QED BY <2>2
<1>16. u0[t] \in Text /\ u0[t] = Value(u0, t)
  BY <1>13, <1>15 DEF D
<1>17. u0[t] = IF t = <<>> THEN <<>>
               ELSE IF Begins(t, c) THEN Rewritten(v) \o u0[SubSeq(t, 3, Len(t))]
               ELSE <<t[1]>> \o u0[SubSeq(t, 2, Len(t))]
  BY <1>16, Zenon DEF Value, Begins
<1>18. t = <<>> => ~Begins(t, c)
  BY DEF Begins
<1>19. Replaced(t, c, v) = u0[t] /\ Replaced(SubSeq(t, 3, Len(t)), c, v) = u0[SubSeq(t, 3, Len(t))]
       /\ Replaced(SubSeq(t, 2, Len(t)), c, v) = u0[SubSeq(t, 2, Len(t))]
  BY <1>1, Zenon
<1> QED BY <1>16, <1>17, <1>18, <1>19, Zenon

\* A token ends where it begins or later, and within the text.
LEMMA TokenEndRange ==
  ASSUME NEW text \in Text, text # <<>>, text[1] \notin Blank
  PROVE  TokenEnd(text) \in 1 .. Len(text)
<1> DEFINE marks == Hits(text, {"q"}) \ {1}
           ends == {i - 1 : i \in Hits(text, Blank)} \cup {Len(text)}
<1>1. Len(text) \in Nat \ {0}
  BY DEF Text
<1>2. marks \in SUBSET Nat /\ \A i \in marks : i \in 1 .. Len(text)
  BY <1>1 DEF Hits
<1>3. ends \in SUBSET Nat /\ ends # {} /\ \A i \in ends : i \in 1 .. Len(text)
  BY <1>1 DEF Hits
<1>4. TokenEnd(text) = IF text[1] = "q" /\ marks # {} THEN First(marks)
                                                      ELSE First(ends)
  BY DEF TokenEnd
<1> HIDE DEF marks, ends
<1>5. marks # {} => First(marks) \in marks
  BY <1>2, FirstIsLeast
<1>6. First(ends) \in ends
  BY <1>3, FirstIsLeast
<1> QED BY <1>2, <1>3, <1>4, <1>5, <1>6

\* Without its quotation marks, a text is one.
LEMMA UnquotedType ==
  ASSUME NEW text \in Text
  PROVE  Unquoted(text) \in Text
<1>1. <<>> \in Text
  BY DEF Text
<1> QED BY <1>1, EditedType DEF Unquoted

\* The token that a text begins with, and what follows it.
Token(t) == SubSeq(t, 1, TokenEnd(t))
AfterToken(t) == SubSeq(t, TokenEnd(t) + 1, Len(t))

\* Both are texts, and the second is the shorter for it.
LEMMA TokenType ==
  ASSUME NEW t \in Text, t # <<>>, t[1] \notin Blank
  PROVE  /\ Token(t) \in Text /\ AfterToken(t) \in Text
         /\ Len(AfterToken(t)) < Len(t)
<1>1. TokenEnd(t) \in 1 .. Len(t) /\ Len(t) \in Nat
  BY TokenEndRange DEF Text
<1>2. AfterToken(t) \in Text /\ Len(AfterToken(t)) < Len(t)
  BY <1>1, Shorter DEF AfterToken
<1>3. Token(t) \in Text
  BY <1>1 DEF Token, Text
<1> QED BY <1>2, <1>3

\* Replacing makes a text.
LEMMA ReplacedType ==
  ASSUME NEW text \in Text, NEW c, NEW v \in Text
  PROVE  Replaced(text, c, v) \in Text
BY ReplacedSteps

\* FindAndConsume goes through a text from its beginning to its end.
LEMMA FindsSteps ==
  ASSUME NEW t \in Text
  PROVE  /\ Finds(t) \in Seq(Text)
         /\ t = <<>> => Finds(t) = <<>>
         /\ t # <<>> /\ t[1] \in Blank => Finds(t) = Finds(SubSeq(t, 2, Len(t)))
         /\ t # <<>> /\ t[1] \notin Blank =>
              Finds(t) = <<Token(t)>> \o Finds(AfterToken(t))
<1> DEFINE D == Text
           X == Seq(Text)
           Value(u, x) ==
             IF x = <<>> THEN <<>>
             ELSE IF x[1] \in Blank THEN u[SubSeq(x, 2, Len(x))]
             ELSE <<SubSeq(x, 1, TokenEnd(x))>> \o u[SubSeq(x, TokenEnd(x) + 1, Len(x))]
           Body(u) == [x \in D |-> Value(u, x)]
           u0 == CHOOSE u : u = Body(u)
           G == [x \in D |-> [g \in [D -> X] |-> Value(g, x)]]
           r == [x \in D |-> Len(x)]
<1>1. \A x : Finds(x) = u0[x]
  BY DEF Finds, Text
<1>2. r \in [D -> Nat] /\ \A x \in D : r[x] = Len(x)
  BY DEF Text
<1>3. <<>> \in X /\ X # {}
  <2>1. \A S : <<>> \in Seq(S)
    OBVIOUS
  <2> QED BY <2>1, Zenon
<1>4. ASSUME NEW x \in D, x # <<>>
      PROVE  /\ SubSeq(x, 2, Len(x)) \in D /\ r[SubSeq(x, 2, Len(x))] < r[x]
             /\ x[1] \notin Blank =>
                  /\ SubSeq(x, 1, TokenEnd(x)) \in Text
                  /\ SubSeq(x, TokenEnd(x) + 1, Len(x)) \in D
                  /\ r[SubSeq(x, TokenEnd(x) + 1, Len(x))] < r[x]
  <2> HIDE DEF r
  <2>1. Len(x) \in Nat \ {0}
    BY <1>4 DEF Text
  <2>2. /\ SubSeq(x, 1 + 1, Len(x)) \in Text
        /\ Len(SubSeq(x, 1 + 1, Len(x))) < Len(x)
    BY <1>4, <2>1, Shorter
  <2>3. x[1] \notin Blank =>
          /\ SubSeq(x, 1, TokenEnd(x)) \in Text
          /\ SubSeq(x, TokenEnd(x) + 1, Len(x)) \in Text
          /\ Len(SubSeq(x, TokenEnd(x) + 1, Len(x))) < Len(x)
    BY <1>4, TokenType DEF Token, AfterToken
  <2>4. 1 + 1 = 2
    OBVIOUS
  <2> QED BY <1>2, <2>2, <2>3, <2>4
<1>5. ASSUME NEW u, NEW x \in D, \A y \in D : r[y] < r[x] => u[y] \in X
      PROVE  Value(u, x) \in X
  <2> HIDE DEF r
  <2>1. CASE x = <<>>
    BY <1>3, <2>1
  <2>2. CASE x # <<>> /\ x[1] \in Blank
    BY <1>4, <1>5, <2>2
  <2>3. CASE x # <<>> /\ x[1] \notin Blank
    <3>1. /\ SubSeq(x, 1, TokenEnd(x)) \in Text
          /\ u[SubSeq(x, TokenEnd(x) + 1, Len(x))] \in X
      BY <1>4, <1>5, <2>3
    <3>2. \A y \in Text, z \in X : <<y>> \o z \in X
      OBVIOUS
    <3> HIDE DEF X
    <3> QED BY <2>3, <3>1, <3>2
  <2> QED BY <2>1, <2>2, <2>3
<1>6. ASSUME NEW g1, NEW g2, NEW x \in D, \A y \in D : r[y] < r[x] => g1[y] = g2[y]
      PROVE  Value(g1, x) = Value(g2, x)
  <2> HIDE DEF r
  <2>1. CASE x = <<>>
    BY <2>1
  <2>2. CASE x # <<>>
    <3>1. /\ g1[SubSeq(x, 2, Len(x))] = g2[SubSeq(x, 2, Len(x))]
          /\ x[1] \notin Blank => g1[SubSeq(x, TokenEnd(x) + 1, Len(x))]
                                  = g2[SubSeq(x, TokenEnd(x) + 1, Len(x))]
      BY <1>4, <1>6, <2>2
    <3> QED BY <2>2, <3>1
  <2> QED BY <2>1, <2>2
<1>7. \A u : \A x \in D : Body(u)[x] = Value(u, x)
  <2> HIDE DEF Value
  <2> QED OBVIOUS
<1>8. /\ G \in [D -> [[D -> X] -> X]]
      /\ \A x \in D, g \in [D -> X] : G[x][g] = Value(g, x)
  <2>1. \A x \in D, g \in [D -> X] : \A y \in D : g[y] \in X
    OBVIOUS
  <2> HIDE DEF Value, X
  <2> QED BY <1>5, <2>1
<1> HIDE DEF D, X, Value, r, G
<1>9. Descends(D, X, r, G)
  <2>1. ASSUME NEW x \in D, NEW g1 \in [D -> X], NEW g2 \in [D -> X],
               \A y \in D : r[y] < r[x] => g1[y] = g2[y]
        PROVE  G[x][g1] = G[x][g2]
    <3>1. Value(g1, x) = Value(g2, x)
      BY <1>6, <2>1, Zenon
    <3> QED BY <1>8, <3>1
  <2> QED BY <2>1 DEF Descends
<1>10. PICK g \in [D -> X] : Solves(g, D, G)
  BY <1>2, <1>3, <1>8, <1>9, Solvable
<1>11. g = Body(g)
  BY <1>8, <1>10 DEF Solves
<1>12. u0 = Body(u0)
  <2> HIDE DEF Body
  <2> QED BY <1>11
<1> HIDE DEF u0
<1>13. \A x \in D : u0[x] = Value(u0, x)
  <2> HIDE DEF Body
  <2> QED BY <1>7, <1>12, Zenon
<1> DEFINE T == {x \in D : u0[x] \in X}
<1>14. \A x \in D : (\A y \in D : r[y] < r[x] => y \in T) => x \in T
  BY <1>5, <1>13
<1>15. T = D
  <2>1. T \in SUBSET D
    OBVIOUS
  <2> HIDE DEF T
  <2>2. ASSUME T # D PROVE FALSE
    <3>1. r \in [D -> Nat]
      BY <1>2
    <3>2. PICK x \in D : x \notin T /\ \A y \in D : r[y] < r[x] => y \in T
      BY ONLY <2>1, <2>2, <3>1, ByRank
    <3> QED BY <1>14, <3>2
  <2> QED BY <2>2
<1>16. u0[t] \in Seq(Text) /\ u0[t] = Value(u0, t)
  BY <1>13, <1>15 DEF D, X
<1>17. u0[t] = IF t = <<>> THEN <<>>
               ELSE IF t[1] \in Blank THEN u0[SubSeq(t, 2, Len(t))]
               ELSE <<Token(t)>> \o u0[AfterToken(t)]
  BY <1>16, Zenon DEF Value, Token, AfterToken
<1>18. /\ Finds(t) = u0[t] /\ Finds(SubSeq(t, 2, Len(t))) = u0[SubSeq(t, 2, Len(t))]
       /\ Finds(AfterToken(t)) = u0[AfterToken(t)]
  BY <1>1, Zenon
<1> QED BY <1>16, <1>17, <1>18, Zenon

\* What tokenize makes is a list of texts.
LEMMA TokensType ==
  ASSUME NEW text \in Text
  PROVE  Tokens(text) \in Seq(Text)
<1>1. Finds(text) \in Seq(Text)
  BY FindsSteps
<1>2. \A j \in 1 .. Len(Finds(text)) : Unquoted(Finds(text)[j]) \in Text
  BY <1>1, UnquotedType
<1> QED BY <1>1, <1>2 DEF Tokens

\* So does leaving out the white space a text begins with,
LEMMA WithoutLeadingType ==
  ASSUME NEW text \in Text
  PROVE  WithoutLeading(text) \in Text
<1> DEFINE K == Hits(text, Characters \ Blank) \cup {Len(text) + 1}
<1>1. Len(text) \in Nat
  BY DEF Text
<1>2. K \in SUBSET Nat /\ K # {} /\ \A j \in K : j \in 1 .. (Len(text) + 1)
  BY <1>1 DEF Hits
<1>3. WithoutLeading(text) = SubSeq(text, First(K), Len(text))
  BY DEF WithoutLeading
<1> HIDE DEF K
<1>4. First(K) \in 1 .. (Len(text) + 1)
  BY <1>2, FirstIsLeast
<1> QED BY <1>1, <1>3, <1>4 DEF Text

\* and turning a text around, which SequencesExt defines,
LEMMA ReverseType ==
  ASSUME NEW text \in Text
  PROVE  /\ Reverse(text) \in Text /\ Len(Reverse(text)) = Len(text)
         /\ \A j \in 1 .. Len(text) : Reverse(text)[j] = text[Len(text) - j + 1]
<1>1. Len(text) \in Nat
  BY DEF Text
<1>2. Reverse(text) = [j \in 1 .. Len(text) |-> text[Len(text) - j + 1]]
  BY DEF Reverse
<1>3. \A j \in 1 .. Len(text) : text[Len(text) - j + 1] \in Characters
  BY <1>1 DEF Text
<1> QED BY <1>1, <1>2, <1>3 DEF Text

\* and so does cc::re::trim.
LEMMA TrimType ==
  ASSUME NEW text \in Text
  PROVE  trim(text) \in Text
<1>1. <<>> \in Text
  BY DEF Text
<1> QED
  BY <1>1, WithoutLeadingType, ReverseType, EditedType
  DEF trim, Collapsed, WithoutTrailing

\* The first match of a filter is within the text.
LEMMA MatchRange ==
  ASSUME NEW text \in Text, NEW p \in Filters, Matches(p, text)
  PROVE  /\ MatchStart(p, text) \in 1 .. (Len(text) + 1)
         /\ MatchEnd(p, text) \in MatchStart(p, text) .. (Len(text) + 1)
         /\ Match(p, text) \in Text
         /\ SubSeq(text, MatchEnd(p, text), Len(text)) \in Text
<1> DEFINE K == Hits(text, p.set)
           L == Hits(text, Characters \ p.set) \cup {Len(text) + 1}
<1>1. Len(text) \in Nat /\ p.many \in BOOLEAN
  BY DEF Text, Filters
<1>2. K \in SUBSET Nat /\ \A j \in K : j \in 1 .. Len(text)
  BY <1>1 DEF Hits
<1>3. L \in SUBSET Nat /\ L # {} /\ \A j \in L : j \in 1 .. (Len(text) + 1)
  BY <1>1 DEF Hits
<1>4. /\ p.many \/ K # {}
      /\ MatchStart(p, text) = IF p.many THEN 1 ELSE First(K)
      /\ MatchEnd(p, text) = IF p.many THEN First(L) ELSE First(K) + 1
  BY DEF Matches, MatchStart, MatchEnd
<1> HIDE DEF K, L
<1>5. K # {} => First(K) \in 1 .. Len(text)
  BY <1>2, FirstIsLeast
<1>6. First(L) \in 1 .. (Len(text) + 1)
  BY <1>3, FirstIsLeast
<1>7. /\ MatchStart(p, text) \in 1 .. (Len(text) + 1)
      /\ MatchEnd(p, text) \in MatchStart(p, text) .. (Len(text) + 1)
  BY <1>1, <1>4, <1>5, <1>6
<1>8. Match(p, text) \in Text
  BY <1>1, <1>7 DEF Match, Text
<1>9. SubSeq(text, MatchEnd(p, text), Len(text)) \in Text
  BY <1>1, <1>7 DEF Text
<1> QED BY <1>7, <1>8, <1>9

-----------------------------------------------------------------------------
(* The types.                                                              *)

\* The loop of tr_filter goes through what a filter with "g" has been given.
TitleInv == TitleTypeOK /\ (now = "find" => trs # <<>> /\ Tr \in Filters)

\* The loop is not entered before the first pattern.
LEMMA TitleStarts == TitleInit => TitleInv
  BY TitleAssumption DEF TitleAssumption, TitleInit, TitleInv, TitleTypeOK

\* Every pattern makes a text of a text.
LEMMA TitleSteps ==
  ASSUME TitleInv, [TitleNext]_titlevars
  PROVE  TitleInv'
<1> USE DEF TitleInv, TitleTypeOK
<1>1. ASSUME trs # <<>>
      PROVE  Tr \in Filters \cup Substitutions /\ Tail(trs) \in Seq(Filters \cup Substitutions)
  BY <1>1 DEF Tr
<1>2. <<>> \in Text /\ s \in Text /\ sp \in Text
  BY DEF Text
<1>3. CASE NoText
  BY <1>1, <1>3 DEF NoText
<1>4. CASE Substitute
  <2>1. Tr \in Substitutions
    BY <1>1, <1>4 DEF Substitute, Filters
  <2>2. Tr.by \in Text
    <3>1. Tr.by \in Seq(Characters \ {"\\"})
      BY <2>1 DEF Substitutions
    <3> QED BY <3>1 DEF Text
  <2>3. \E K : s' = Edited(s, K, Tr.by)
    BY <1>4 DEF Substitute
  <2>4. s' \in Text
    BY <1>2, <2>2, <2>3, EditedType
  <2> QED BY <1>1, <1>4, <2>4 DEF Substitute, Text
<1>5. CASE FilterOne
  <2>1. Tr \in Filters
    BY <1>1, <1>5 DEF FilterOne, Substitutions
  <2>2. s' \in Text
    BY <1>2, <1>5, <2>1, MatchRange DEF FilterOne
  <2> QED BY <1>1, <1>5, <2>2 DEF FilterOne, Text
<1>6. CASE FilterAll
  <2>1. Tr \in Filters
    BY <1>1, <1>6 DEF FilterAll, Substitutions
  <2>2. Tr' = Tr
    BY <1>6 DEF FilterAll, Tr
  <2> QED BY <1>6, <2>1, <2>2 DEF FilterAll
<1>7. CASE Find
  <2>1. Tr \in Filters /\ Matches(Tr, sp)
    BY <1>7 DEF Find
  <2>2. Match(Tr, sp) \in Text /\ SubSeq(sp, MatchEnd(Tr, sp), Len(sp)) \in Text
    BY <1>2, <2>1, MatchRange
  <2>3. s' \in Text /\ sp' \in Text
    BY <1>2, <1>7, <2>2 DEF Find, Text
  <2>4. Tr' = Tr
    BY <1>7 DEF Find, Tr
  <2> QED BY <1>7, <2>3, <2>4 DEF Find, Text
<1>8. CASE FoundAll
  BY <1>1, <1>8 DEF FoundAll
<1>9. CASE Trim
  <2>1. s' \in Text
    BY <1>2, <1>9, TrimType DEF Trim
  <2> QED BY <1>9, <2>1 DEF Trim, Text
<1>10. CASE UNCHANGED titlevars
  BY <1>10 DEF titlevars, Tr
<1> QED BY <1>3, <1>4, <1>5, <1>6, <1>7, <1>8, <1>9, <1>10 DEF TitleNext

\* The inductive invariant of the types.
ExecTyped == TitleInv /\ ExecInv /\ ExecTypeOK

\* Before its first step cc::exec has its types.
LEMMA ExecTypedStarts == ExecInit => ExecTyped
<1> SUFFICES ASSUME ExecInit PROVE ExecTyped
  OBVIOUS
<1>1. TitleInv /\ ExecInv
  BY TitleStarts, ExecStarts DEF ExecInit
<1>2. Len(execs) \in Nat
  BY <1>1, LengthOfExecs
<1> QED BY <1>1, <1>2 DEF ExecTyped, ExecTypeOK, ExecInit, TitleInv

\* Every step, those that name the file included, keeps them.
LEMMA ExecTypedSteps ==
  ASSUME ExecTyped, [ExecNext]_execvars
  PROVE  ExecTyped'
<1>1. TitleInv' /\ ExecInv'
  <2>1. [TitleNext]_titlevars
    BY DEF ExecNext, Step, TitleStep, Called, Tokenize, NoCommand, Fork,
           ForkFails, Reap, Return, ChildEnds, Interrupted, Ended, execvars
  <2> QED BY <2>1, TitleSteps, ExecSteps DEF ExecTyped
<1> SUFFICES ExecTypeOK'
  BY <1>1 DEF ExecTyped
<1>2. Len(execs) \in Nat /\ execs \in Seq(Text) /\ title \in Text /\ s \in Text
  BY LengthOfExecs, ExecAssumption, TitleAssumption
  DEF ExecTyped, ExecTypeOK, TitleTypeOK, ExecAssumption, TitleAssumption, Text
<1>3. ASSUME UNCHANGED <<execs, file, k, args>>,
             children' \in [1 .. Len(execs) -> {"none", "running", "zombie", "reaped"}]
      PROVE  ExecTypeOK'
  BY <1>1, <1>3 DEF ExecTyped, ExecTypeOK, TitleInv, ExecInv, Places
<1>4. CASE UNCHANGED ownvars
  BY <1>3, <1>4 DEF ownvars, ExecTyped, ExecTypeOK
<1>5. CASE Called
  <2>1. Name \in Text
    BY <1>2, ReplacedType, TitleAssumption DEF TitleAssumption, Name, Text
  <2>2. OutputDir \o Name \in Text
    BY <2>1, ExecAssumption DEF ExecAssumption, Text
  <2>3. file' = [path |-> OutputDir \o Name, name |-> Name]
    BY <1>5 DEF Called
  <2>4. file' \in [path : Seq(Characters), name : Seq(Characters)]
    BY <2>1, <2>2, <2>3 DEF Text
  <2> QED BY <1>1, <1>2, <1>5, <2>4 DEF Called, ExecTyped, ExecTypeOK, TitleInv
<1>6. CASE Tokenize
  <2>1. execs[k] \in Text /\ file.path \in Text /\ file.name \in Text
    BY <1>2, <1>6 DEF Tokenize, ExecTyped, ExecTypeOK, ExecInv, Text
  <2>2. PICK e1 \in {Replaced(execs[k], "f", file.path)} :
          \E e2 \in {Replaced(e1, "n", file.name)} :
            \E e3 \in {Replaced(e2, "t", title)} : args' = Tokens(e3)
    BY <1>6 DEF Tokenize
  <2>3. PICK e2 \in {Replaced(e1, "n", file.name)} :
          \E e3 \in {Replaced(e2, "t", title)} : args' = Tokens(e3)
    BY <2>2
  <2>4. PICK e3 \in {Replaced(e2, "t", title)} : args' = Tokens(e3)
    BY <2>3
  <2>5. e1 \in Text
    BY <2>1, ReplacedType
  <2>6. e2 \in Text
    BY <2>1, <2>5, ReplacedType
  <2>7. e3 \in Text
    BY <1>2, <2>6, ReplacedType
  <2>8. args' \in Seq(Seq(Characters))
    BY <2>4, <2>7, TokensType DEF Text
  <2> QED BY <1>1, <1>6, <2>8 DEF Tokenize, ExecTyped, ExecTypeOK, TitleInv
<1>7. CASE NoCommand \/ ForkFails \/ Return
  BY <1>3, <1>7 DEF NoCommand, ForkFails, Return, ExecTyped, ExecTypeOK
<1>8. CASE Fork
  <2>1. k \in DOMAIN children
    BY <1>8 DEF Fork, ExecTyped, ExecInv
  <2>2. children' = [children EXCEPT ![k] = "running"]
        /\ UNCHANGED <<execs, file, k, args>>
    BY <1>8 DEF Fork
  <2> QED BY <1>3, <2>1, <2>2 DEF ExecTyped, ExecTypeOK
<1>9. CASE Reap
  <2>1. k \in 1 .. Len(execs)
    BY <1>2, <1>9 DEF Reap, ExecTyped, ExecInv
  <2> QED
    BY <1>1, <1>2, <1>9, <2>1
    DEF Reap, Proceed, ExecTyped, ExecTypeOK, TitleInv
<1>10. CASE ChildEnds
  BY <1>3, <1>10 DEF ChildEnds, ExecTyped, ExecTypeOK
<1> QED
  <2>1. UNCHANGED execvars => UNCHANGED ownvars
    BY DEF execvars
  <2> QED
    BY <1>4, <1>5, <1>6, <1>7, <1>8, <1>9, <1>10, <2>1
    DEF ExecNext, Step, TitleStep, Interrupted, Ended

\* Whatever libquvi says the title is and --tr, --filename-format and --exec
\* say (re.cpp, file.cpp, exec.cpp): the texts remain texts, the arguments are a
\* list of them, and the iterator of cc::exec does not go past the end.
THEOREM ExecTypes == ExecSpec => []ExecTypeOK
<1>1. ExecTyped => ExecTypeOK
  BY DEF ExecTyped
<1> QED BY <1>1, ExecTypedStarts, ExecTypedSteps, PTL DEF ExecSpec

-----------------------------------------------------------------------------
(* White space.                                                            *)

\* pcrecpp's "^\\s+": what is left of a text is its end, and begins with no
\* white space.
LEMMA LeadingGone ==
  ASSUME NEW text \in Text, WithoutLeading(text) # <<>>
  PROVE  LET w == WithoutLeading(text) IN
         /\ Len(w) \in 1 .. Len(text)
         /\ w[1] \notin Blank /\ w[Len(w)] = text[Len(text)]
<1> DEFINE K == Hits(text, Characters \ Blank) \cup {Len(text) + 1}
           w == WithoutLeading(text)
           a == First(K)
<1>1. Len(text) \in Nat
  BY DEF Text
<1>2. K \in SUBSET Nat /\ K # {} /\ \A j \in K : j \in 1 .. (Len(text) + 1)
  BY <1>1 DEF Hits
<1>3. w = SubSeq(text, a, Len(text))
  BY DEF WithoutLeading
<1>4. \A j \in K : j \in 1 .. Len(text) => text[j] \notin Blank
  BY <1>1 DEF Hits
<1> HIDE DEF K
<1>5. a \in K /\ a \in 1 .. (Len(text) + 1)
  BY <1>2, FirstIsLeast
<1> HIDE DEF a
<1>6. a # Len(text) + 1
  <2>1. SUFFICES ASSUME a = Len(text) + 1 PROVE FALSE
    OBVIOUS
  <2>2. SubSeq(text, a, Len(text)) = <<>>
    BY <1>1, <2>1 DEF Text
  <2> QED BY <1>3, <2>2
<1>7. a \in 1 .. Len(text)
  BY <1>1, <1>5, <1>6
<1>8. Len(w) = Len(text) - a + 1 /\ \A j \in 1 .. Len(w) : w[j] = text[a + j - 1]
  BY <1>1, <1>3, <1>7 DEF Text
<1>9. text[a] \notin Blank
  BY <1>4, <1>5, <1>7
<1> HIDE DEF w
<1>10. w[1] = text[a] /\ w[Len(w)] = text[Len(text)] /\ Len(w) \in 1 .. Len(text)
  BY <1>1, <1>7, <1>8
<1> QED BY <1>9, <1>10 DEF w

\* Of a text that begins with no white space, both ends are without.
LEMMA EndsGone ==
  ASSUME NEW text \in Text,
         WithoutTrailing(WithoutLeading(text)) # <<>>
  PROVE  LET w == WithoutTrailing(WithoutLeading(text)) IN
         w \in Text /\ Len(w) \in Nat \ {0} /\ w[1] \notin Blank /\ w[Len(w)] \notin Blank
<1> DEFINE u == WithoutLeading(text)
           v == Reverse(u)
           x == WithoutLeading(v)
           w == Reverse(x)
<1>1. u \in Text /\ v \in Text /\ x \in Text /\ w \in Text
  BY WithoutLeadingType, ReverseType
<1>2. /\ Len(v) = Len(u) /\ \A j \in 1 .. Len(u) : v[j] = u[Len(u) - j + 1]
      /\ Len(w) = Len(x) /\ \A j \in 1 .. Len(x) : w[j] = x[Len(x) - j + 1]
  BY <1>1, ReverseType
<1>3. w = WithoutTrailing(WithoutLeading(text))
  BY DEF WithoutTrailing
<1>4. Len(u) \in Nat /\ Len(x) \in Nat /\ Len(w) \in Nat
  BY <1>1 DEF Text
<1> HIDE DEF w
<1>5. Len(w) # 0
  BY <1>1, <1>3 DEF Text
<1>6. x # <<>>
  BY <1>2, <1>5
<1> HIDE DEF x
<1>7. Len(x) \in 1 .. Len(v) /\ x[1] \notin Blank /\ x[Len(x)] = v[Len(v)]
  BY <1>1, <1>6, LeadingGone DEF x
<1> HIDE DEF v
<1>8. u # <<>>
  BY <1>2, <1>4, <1>7
<1> HIDE DEF u
<1>9. u[1] \notin Blank
  BY <1>8, LeadingGone DEF u
<1>10. w[1] = x[Len(x)] /\ w[Len(w)] = x[1] /\ v[Len(v)] = u[1]
  <2>1. /\ 1 \in 1 .. Len(x) /\ Len(x) \in 1 .. Len(x) /\ Len(u) \in 1 .. Len(u)
        /\ Len(x) - 1 + 1 = Len(x) /\ Len(x) - Len(x) + 1 = 1 /\ Len(u) - Len(u) + 1 = 1
    BY <1>2, <1>4, <1>7
  <2> QED BY <1>2, <2>1
<1> QED BY <1>1, <1>3, <1>4, <1>5, <1>7, <1>9, <1>10

\* Nor is there more than one white space in a row, in what Collapsed makes of
\* a text with none at its ends.
Spaced(text) ==
  \A i \in 1 .. Len(text) :
    text[i] \in Blank => 1 < i /\ (i < Len(text) => text[i + 1] \notin Blank)

\* What Collapsed makes is a text, Spaced, and ends as the given one did.
LEMMA CollapsedSpaced ==
  ASSUME NEW w \in Text, Len(w) # 0, w[1] \notin Blank
  PROVE  /\ Collapsed(w) \in Text /\ Spaced(Collapsed(w))
         /\ Len(Collapsed(w)) # 0
         /\ Collapsed(w)[Len(Collapsed(w))] = w[Len(w)]
<1> DEFINE K == {j \in Hits(w, Blank) : j > 1 /\ w[j - 1] \in Blank}
<1>1. Len(w) \in Nat /\ <<>> \in Text
  BY DEF Text
<1>2. \A j \in 1 .. Len(w) : j \in K <=> j > 1 /\ w[j] \in Blank /\ w[j - 1] \in Blank
  BY DEF Hits
<1>3. Collapsed(w) = Edited(w, K, <<>>)
  BY DEF Collapsed
<1> HIDE DEF K
<1>4. PICK f : Edits(f, w, K, <<>>) /\ Edited(w, K, <<>>) = f[Len(w)]
  BY <1>1, EditedSteps
<1> DEFINE Good(j) == /\ Spaced(f[j])
                      /\ j > 0 => Len(f[j]) # 0 /\ f[j][Len(f[j])] = w[j]
           T == {j \in Nat : j \in 0 .. Len(w) => Good(j)}
<1>5. 0 \in T
  BY <1>4 DEF Edits, Spaced
<1>6. ASSUME NEW n \in T PROVE n + 1 \in T
  <2>1. SUFFICES ASSUME n + 1 \in 0 .. Len(w) PROVE Good(n + 1)
    OBVIOUS
  <2>2. n \in 0 .. Len(w) /\ n + 1 \in 1 .. Len(w) /\ (n + 1) - 1 = n
    BY <1>1, <2>1
  <2>3. Good(n)
    BY <2>2
  <2>4. f[n + 1] = f[n] \o (IF n + 1 \in K THEN <<>> ELSE <<w[n + 1]>>)
    BY <1>4, <2>2 DEF Edits
  <2>5. f[n] \in Text /\ w[n + 1] \in Characters
    BY <1>4, <2>2 DEF Edits, Text
  <2> HIDE DEF T, Good
  <2>6. CASE n + 1 \in K
    <3>1. f[n + 1] = f[n]
      BY <2>4, <2>5, <2>6 DEF Text
    <3>2. n > 0 /\ w[n + 1] \in Blank /\ w[n] \in Blank
      BY <1>2, <2>2, <2>6
    <3>3. \A a, b \in Blank : a = b
      BY Zenon DEF Blank
    <3>4. w[n + 1] = w[n]
      BY <3>2, <3>3
    <3> QED BY <2>3, <3>1, <3>2, <3>4 DEF Good
  <2>7. CASE n + 1 \notin K
    <3> DEFINE l == Len(f[n])
               g == f[n + 1]
    <3>1. /\ l \in Nat /\ Len(g) = l + 1 /\ g[l + 1] = w[n + 1]
          /\ \A i \in 1 .. l : g[i] = f[n][i]
      BY <2>4, <2>5, <2>7 DEF Text
    <3>2. n = 0 \/ (n > 0 /\ l # 0 /\ f[n][l] = w[n])
      BY <2>2, <2>3 DEF Good
    <3>3. w[n + 1] \in Blank => n > 0 /\ w[n] \notin Blank
      BY <1>2, <2>2, <2>7
    <3>4. Spaced(f[n])
      BY <2>3 DEF Good
    <3> HIDE DEF l, g
    <3>5. Spaced(g)
      <4>1. ASSUME NEW i \in 1 .. Len(g), g[i] \in Blank
            PROVE  1 < i /\ (i < Len(g) => g[i + 1] \notin Blank)
        <5>1. CASE i = l + 1
          BY <3>1, <3>2, <3>3, <4>1, <5>1
        <5>2. CASE i = l
          <6>1. f[n][i] \in Blank /\ 1 < i
            BY <3>1, <3>4, <4>1, <5>2 DEF Spaced, l
          <6> QED BY <3>1, <3>2, <3>3, <5>2, <6>1
        <5>3. CASE i < l
          BY <3>1, <3>4, <4>1, <5>3, SMTT(20) DEF Spaced, l
        <5> QED BY <3>1, <4>1, <5>1, <5>2, <5>3
      <4> QED BY <4>1 DEF Spaced
    <3> QED BY <3>1, <3>5 DEF Good, g
  <2> QED BY <2>6, <2>7
<1>7. T = Nat
  <2>1. T \in SUBSET Nat
    OBVIOUS
  <2> HIDE DEF T
  <2> QED BY <1>5, <1>6, <2>1, Inductive
<1>8. Good(Len(w))
  BY <1>1, <1>7
<1> HIDE DEF Good
<1>9. f[Len(w)] \in Text
  BY <1>1, <1>4 DEF Edits
<1>10. Spaced(f[Len(w)]) /\ Len(f[Len(w)]) # 0 /\ f[Len(w)][Len(f[Len(w)])] = w[Len(w)]
  BY <1>1, <1>8 DEF Good
<1> QED BY <1>3, <1>4, <1>9, <1>10

\* No white space of a trimmed text shows.
LEMMA Trimmed ==
  ASSUME NEW text \in Text, NEW i \in 1 .. Len(trim(text)), trim(text)[i] \in Blank
  PROVE  1 < i /\ i < Len(trim(text)) /\ trim(text)[i + 1] \notin Blank
<1> DEFINE w == WithoutTrailing(WithoutLeading(text))
           c == Collapsed(w)
<1>1. trim(text) = c
  BY DEF trim
<1>2. w \in Text
  BY WithoutLeadingType, ReverseType DEF WithoutTrailing
<1>3. CASE w = <<>>
  <2> DEFINE K == {j \in Hits(w, Blank) : j > 1 /\ w[j - 1] \in Blank}
  <2>0. c = Edited(w, K, <<>>) /\ <<>> \in Text
    BY DEF Collapsed, Text
  <2> HIDE DEF K, w
  <2>1. PICK f : Edits(f, w, K, <<>>) /\ c = f[Len(w)]
    BY <1>2, <2>0, EditedSteps
  <2>2. c = <<>>
    BY <1>3, <2>1 DEF Edits
  <2> QED BY <1>1, <2>2
<1>4. CASE w # <<>>
  <2>1. Len(w) # 0 /\ w[1] \notin Blank /\ w[Len(w)] \notin Blank
    BY <1>4, EndsGone
  <2> HIDE DEF w
  <2>2. c \in Text /\ Spaced(c) /\ c[Len(c)] \notin Blank
    BY <1>2, <2>1, CollapsedSpaced
  <2>3. i \in 1 .. Len(c) /\ c[i] \in Blank /\ Len(c) \in Nat
    BY <1>1, <2>2 DEF Text
  <2> QED BY <1>1, <2>2, <2>3 DEF Spaced
<1> QED BY <1>3, <1>4

\* The white space of a title does not show in the name of its file, whatever
\* the title is and the --tr patterns make of it (re.cpp, trim).
THEOREM NamesAreTrimmed == ExecSpec => []NameIsTrimmed
<1>1. ExecInit => NameIsTrimmed
  BY DEF ExecInit, TitleInit, NameIsTrimmed
<1>2. ASSUME ExecTyped, NameIsTrimmed, [ExecNext]_execvars
      PROVE  NameIsTrimmed'
  <2>1. [TitleNext]_titlevars
    BY <1>2 DEF ExecNext, Step, TitleStep, Called, Tokenize, NoCommand, Fork,
           ForkFails, Reap, Return, ChildEnds, Interrupted, Ended, execvars
  <2>2. CASE Trim
    <3>1. s \in Text /\ s' = trim(s)
      BY <1>2, <2>2 DEF Trim, ExecTyped, TitleInv, TitleTypeOK, Text
    <3> QED BY <3>1, Trimmed DEF NameIsTrimmed
  <2>3. CASE UNCHANGED titlevars
    BY <1>2, <2>3 DEF titlevars, NameIsTrimmed
  <2>4. CASE now' # "named"
    BY <2>4 DEF NameIsTrimmed
  <2> QED
    BY <2>1, <2>2, <2>3, <2>4
    DEF TitleNext, NoText, Substitute, FilterOne, FilterAll, Find, FoundAll
<1> QED BY <1>1, <1>2, ExecTypedStarts, ExecTypedSteps, PTL DEF ExecSpec

-----------------------------------------------------------------------------
(* From the command to its arguments.                                       *)

\* A text is empty, or a character and a shorter text.
LEMMA TextForms ==
  ASSUME NEW t \in Text, t # <<>>
  PROVE  \E h \in Characters, u \in Text :
           t = <<h>> \o u /\ Len(t) = Len(u) + 1 /\ h = t[1]
<1>1. /\ Len(t) \in Nat \ {0} /\ t[1] \in Characters
      /\ SubSeq(t, 1 + 1, Len(t)) \in Text
      /\ Len(SubSeq(t, 1 + 1, Len(t))) = Len(t) - 1
  <2>1. 1 \in 1 .. Len(t)
    BY DEF Text
  <2> QED BY <2>1, Shorter
<1>2. t = <<t[1]>> \o SubSeq(t, 1 + 1, Len(t))
  BY SubSeqFull, SubSeqRecursiveFirst, <1>1 DEF Text
<1>3. \A u : u \in Text /\ Len(u) = Len(t) - 1 /\ t = <<t[1]>> \o u
           => u \in Text /\ Len(t) = Len(u) + 1 /\ t = <<t[1]>> \o u
  BY <1>1
<1> QED BY <1>1, <1>2, <1>3, Zenon

\* A text behind a character or another text.
LEMMA Behind ==
  ASSUME NEW x \in Text, NEW y \in Text
  PROVE  /\ x \o y \in Text /\ Len(x \o y) = Len(x) + Len(y)
         /\ Len(x) \in Nat /\ Len(y) \in Nat
         /\ \A i \in 1 .. Len(x) : (x \o y)[i] = x[i]
         /\ \A i \in 1 .. Len(y) : (x \o y)[Len(x) + i] = y[i]
         /\ SubSeq(x \o y, 1, Len(x)) = x
         /\ SubSeq(x \o y, Len(x) + 1, Len(x \o y)) = y
<1>1. /\ x \o y \in Text /\ Len(x \o y) = Len(x) + Len(y)
      /\ Len(x) \in Nat /\ Len(y) \in Nat
      /\ \A i \in 1 .. Len(x) + Len(y) :
           (x \o y)[i] = IF i <= Len(x) THEN x[i] ELSE y[i - Len(x)]
  BY ConcatProperties DEF Text
<1>2. /\ \A i \in 1 .. Len(x) : (x \o y)[i] = x[i]
      /\ \A i \in 1 .. Len(y) : (x \o y)[Len(x) + i] = y[i]
  BY <1>1
<1>3. SubSeq(x \o y, 1, Len(x)) = x
  <2>1. SubSeq(x \o y, 1, Len(x)) \in Text /\ Len(SubSeq(x \o y, 1, Len(x))) = Len(x)
    BY <1>1 DEF Text
  <2>2. \A i \in 1 .. Len(x) : SubSeq(x \o y, 1, Len(x))[i] = x[i]
    BY <1>1, <1>2
  <2> QED BY <2>1, <2>2, SeqEqual DEF Text
<1>4. SubSeq(x \o y, Len(x) + 1, Len(x \o y)) = y
  <2> DEFINE z == SubSeq(x \o y, Len(x) + 1, Len(x \o y))
  <2>1. z \in Text /\ Len(z) = Len(y)
    BY <1>1 DEF Text
  <2>2. \A i \in 1 .. Len(y) : z[i] = y[i]
    BY <1>1, <1>2
  <2> HIDE DEF z
  <2>3. z = y
    BY <2>1, <2>2, SeqEqual DEF Text
  <2> QED BY <2>3 DEF z
<1> QED BY <1>1, <1>2, <1>3, <1>4

\* Joining texts is associative, and no text changes none.
LEMMA Attached ==
  ASSUME NEW x \in Text, NEW y \in Text, NEW z \in Text
  PROVE  /\ (x \o y) \o z = x \o (y \o z)
         /\ x \o <<>> = x /\ <<>> \o x = x
         /\ \A h \in Characters : <<h>> \in Text /\ Len(<<h>>) = 1 /\ <<h>>[1] = h
         /\ <<>> \in Text /\ Len(<<>>) = 0
BY ConcatAssociative, ConcatEmptySeq DEF Text

\* What joining texts makes, for provers that only match.
LEMMA Joined ==
  /\ \A x, y \in Text : x \o y \in Text
  /\ \A h \in Characters : <<h>> \in Text
  /\ \A x \in Text : x \o <<>> = x /\ <<>> \o x = x
  /\ <<>> \in Text
<1>1. \A x, y \in Text : x \o y \in Text
  BY Behind
<1>2. \A x \in Text : x \o <<>> = x /\ <<>> \o x = x
  BY ConcatEmptySeq DEF Text
<1> QED BY <1>1, <1>2 DEF Text

\* The first of these by itself.
LEMMA Associative == \A x, y, z \in Text : (x \o y) \o z = x \o (y \o z)
BY ConcatAssociative DEF Text

\* The first and the last character of a text that is joined.
LEMMA Outer ==
  ASSUME NEW x \in Text, NEW y \in Text
  PROVE  /\ x # <<>> => (x \o y)[1] = x[1] /\ x \o y # <<>>
         /\ y # <<>> => (x \o y)[Len(x \o y)] = y[Len(y)] /\ x \o y # <<>>
<1>1. Len(x) \in Nat /\ Len(y) \in Nat /\ Len(x \o y) = Len(x) + Len(y)
  BY Behind
<1>2. x # <<>> => 1 \in 1 .. Len(x) /\ x \o y # <<>>
  BY <1>1, ConcatEqualIffEmpty DEF Text
<1>3. y # <<>> => Len(y) \in 1 .. Len(y) /\ x \o y # <<>>
  BY <1>1, ConcatEqualIffEmpty DEF Text
<1>4. y # <<>> => (x \o y)[Len(x \o y)] = y[Len(y)]
  BY <1>1, <1>3, Behind
<1> QED BY <1>2, <1>3, <1>4, Behind

\* Induction on the length of a text, which may use the claim for all that are
\* shorter.
LEMMA ByLength ==
  ASSUME NEW T \in SUBSET Text,
         \A t \in Text : (\A x \in Text : Len(x) < Len(t) => x \in T) => t \in T
  PROVE  T = Text
<1> DEFINE r == [x \in Text |-> Len(x)]
<1>1. r \in [Text -> Nat] /\ \A x \in Text : r[x] = Len(x)
  BY DEF Text
<1> HIDE DEF r
<1>2. \A t \in Text : (\A x \in Text : r[x] < r[t] => x \in T) => t \in T
  BY <1>1
<1>3. ASSUME T # Text PROVE FALSE
  <2>1. PICK t \in Text : t \notin T /\ \A x \in Text : r[x] < r[t] => x \in T
    BY ONLY <1>1, <1>3, T \in SUBSET Text, ByRank
  <2> QED BY <1>2, <2>1
<1> QED BY <1>3

\* The same, character by character.
LEMMA ByCharacter ==
  ASSUME NEW T \in SUBSET Text, <<>> \in T,
         \A h \in Characters, u \in Text :
           (\A x \in Text : Len(x) <= Len(u) => x \in T) => <<h>> \o u \in T
  PROVE  T = Text
<1>1. ASSUME NEW t \in Text, \A x \in Text : Len(x) < Len(t) => x \in T
      PROVE  t \in T
  <2>1. CASE t = <<>>
    BY <2>1
  <2>2. CASE t # <<>>
    <3>1. PICK h \in Characters, u \in Text : t = <<h>> \o u /\ Len(t) = Len(u) + 1
      BY <2>2, TextForms
    <3>2. ASSUME NEW x \in Text, Len(x) <= Len(u) PROVE x \in T
      <4>1. Len(x) \in Nat /\ Len(u) \in Nat
        BY DEF Text
      <4>2. \A a, b \in Nat : a <= b => a < b + 1
        OBVIOUS
      <4>3. Len(x) < Len(u) + 1
        BY <3>2, <4>1, <4>2, Zenon
      <4> QED BY <1>1, <3>1, <4>3
    <3> QED BY <3>1, <3>2
  <2> QED BY <2>1, <2>2
<1>2. \A t \in Text : (\A x \in Text : Len(x) < Len(t) => x \in T) => t \in T
  BY <1>1, Zenon
<1> QED BY ONLY <1>2, T \in SUBSET Text, ByLength

\* A replacement text without a backslash stands for itself.
LEMMA RewrittenClean ==
  ASSUME NEW v \in Text, Hits(v, {"\\"}) = {}
  PROVE  Rewritten(v) = v
<1>1. PICK c : Rewrites(c, v) /\ Rewritten(v) = c[1]
  BY RewrittenSteps
<1>2. Len(v) \in Nat /\ \A j \in 1 .. Len(v) : v[j] # "\\" /\ v[j] \in Characters
  BY DEF Text, Hits
<1> DEFINE Right(n) == n <= Len(v) => c[Len(v) + 1 - n] = SubSeq(v, Len(v) + 1 - n, Len(v))
           T == {n \in Nat : Right(n)}
<1>3. 0 \in T
  <2>1. Len(v) + 1 \in 1 .. (Len(v) + 2) /\ Len(v) + 1 > Len(v)
    BY <1>2
  <2>2. c[Len(v) + 1] = <<>>
    BY <1>1, <2>1 DEF Rewrites
  <2>3. SubSeq(v, Len(v) + 1, Len(v)) = <<>>
    BY <1>2, SubSeqEmpty
  <2>4. Len(v) + 1 - 0 = Len(v) + 1
    BY <1>2
  <2> QED BY <2>2, <2>3, <2>4
<1>4. ASSUME NEW n \in T PROVE n + 1 \in T
  <2> SUFFICES ASSUME n + 1 <= Len(v) PROVE Right(n + 1)
    OBVIOUS
  <2> DEFINE j == Len(v) - n
  <2>1. /\ j \in 1 .. Len(v) /\ j \in 1 .. (Len(v) + 2) /\ ~(j > Len(v)) /\ n <= Len(v)
        /\ Len(v) + 1 - (n + 1) = j /\ Len(v) + 1 - n = j + 1
    BY <1>2
  <2> HIDE DEF j
  <2>2. c[j] = <<v[j]>> \o c[j + 1]
    BY <1>1, <1>2, <2>1 DEF Rewrites
  <2>3. c[j + 1] = SubSeq(v, j + 1, Len(v))
    BY <2>1
  <2>4. SubSeq(v, j, Len(v)) = <<v[j]>> \o SubSeq(v, j + 1, Len(v))
    BY <1>2, <2>1, SubSeqRecursiveFirst DEF Text
  <2> QED BY <2>1, <2>2, <2>3, <2>4
<1>5. T = Nat
  <2>1. T \in SUBSET Nat
    OBVIOUS
  <2> HIDE DEF T
  <2> QED BY <1>3, <1>4, <2>1, Inductive
<1>6. Len(v) \in T
  BY <1>2, <1>5
<1>7. c[1] = SubSeq(v, 1, Len(v))
  <2>1. Right(Len(v)) /\ Len(v) <= Len(v) /\ Len(v) + 1 - Len(v) = 1
    BY <1>2, <1>6
  <2> QED BY <2>1
<1> QED BY <1>1, <1>7, SubSeqFull DEF Text

\* What RE("%c").GlobalReplace does with each form of a text.
LEMMA ReplacedForms ==
  ASSUME NEW c \in Characters \ {"%"}, NEW v \in Text
  PROVE  /\ Replaced(<<>>, c, v) = <<>>
         /\ \A t \in Text : Replaced(t, c, v) \in Text
         /\ \A u \in Text : Replaced(<<"%">> \o (<<c>> \o u), c, v)
                            = Rewritten(v) \o Replaced(u, c, v)
         /\ \A h \in Characters, u \in Text :
              h # "%" \/ u = <<>> \/ u[1] # c
              => Replaced(<<h>> \o u, c, v) = <<h>> \o Replaced(u, c, v)
<1>1. "%" \in Characters /\ <<>> \in Text
  <2>1. "%" \in Characters
    BY Zenon DEF Characters
  <2> QED BY <2>1 DEF Text
<1>2. ASSUME NEW h \in Characters, NEW u \in Text
      PROVE  /\ <<h>> \o u \in Text /\ <<h>> \o u # <<>> /\ (<<h>> \o u)[1] = h
             /\ Len(<<h>> \o u) = Len(u) + 1
             /\ \A i \in 1 .. Len(u) : (<<h>> \o u)[1 + i] = u[i]
             /\ SubSeq(<<h>> \o u, 2, Len(<<h>> \o u)) = u
  <2>1. <<h>> \in Text /\ Len(<<h>>) = 1 /\ <<h>>[1] = h
    BY Attached
  <2>2. 1 + 1 = 2 /\ 1 \in 1 .. 1 /\ Len(u) \in Nat
    BY DEF Text
  <2>3. /\ <<h>> \o u \in Text /\ Len(<<h>> \o u) = 1 + Len(u)
        /\ \A i \in 1 .. 1 : (<<h>> \o u)[i] = <<h>>[i]
        /\ \A i \in 1 .. Len(u) : (<<h>> \o u)[1 + i] = u[i]
        /\ SubSeq(<<h>> \o u, 1 + 1, Len(<<h>> \o u)) = u
    BY <2>1, Behind
  <2>4. <<h>> \o u # <<>>
    BY <2>2, <2>3 DEF Text
  <2>5. Len(<<h>> \o u) = Len(u) + 1
    BY <2>2, <2>3
  <2> QED BY <2>1, <2>2, <2>3, <2>4, <2>5
<1>3. ASSUME NEW u \in Text
      PROVE  Replaced(<<"%">> \o (<<c>> \o u), c, v)
             = Rewritten(v) \o Replaced(u, c, v)
  <2> DEFINE w == <<c>> \o u
             x == <<"%">> \o w
  <2>1. /\ w \in Text /\ w # <<>> /\ w[1] = c /\ Len(w) = Len(u) + 1 /\ SubSeq(w, 2, Len(w)) = u
    BY <1>2
  <2>2. /\ x \in Text /\ x # <<>> /\ x[1] = "%" /\ Len(x) = Len(w) + 1
        /\ \A i \in 1 .. Len(w) : x[1 + i] = w[i]
    BY <1>1, <1>2, <2>1
  <2>3. Len(u) \in Nat /\ Len(x) = Len(u) + 2
    BY <2>1, <2>2 DEF Text
  <2> HIDE DEF w, x
  <2>4. x[2] = c
    <3>1. 1 \in 1 .. Len(w) /\ 1 + 1 = 2
      BY <2>1, <2>3
    <3> QED BY <2>1, <2>2, <3>1
  <2>5. Begins(x, c)
    BY <2>2, <2>3, <2>4 DEF Begins
  <2>6. SubSeq(x, 3, Len(x)) = u
    <3>1. Len(SubSeq(x, 3, Len(x))) = Len(u) /\ SubSeq(x, 3, Len(x)) \in Text
      BY <2>2, <2>3 DEF Text
    <3>2. ASSUME NEW i \in 1 .. Len(u) PROVE SubSeq(x, 3, Len(x))[i] = u[i]
      <4>1. SubSeq(x, 3, Len(x))[i] = x[i + 2]
        BY <2>2, <2>3 DEF Text
      <4>2. x[i + 2] = w[i + 1]
        <5>1. i + 1 \in 1 .. Len(w) /\ 1 + (i + 1) = i + 2
          BY <2>1, <2>3
        <5> QED BY <2>2, <5>1
      <4>3. w[i + 1] = u[i]
        <5>1. \A j \in 1 .. Len(u) : w[1 + j] = u[j]
          BY <1>2 DEF w
        <5>2. 1 + i = i + 1
          OBVIOUS
        <5> QED BY <5>1, <5>2
      <4> QED BY <4>1, <4>2, <4>3
    <3> QED BY <3>1, <3>2, SeqEqual DEF Text
  <2>7. Replaced(x, c, v) = Rewritten(v) \o Replaced(u, c, v)
    BY <2>2, <2>5, <2>6, ReplacedSteps
  <2> QED BY <2>7 DEF x, w
<1>4. ASSUME NEW h \in Characters, NEW u \in Text, h # "%" \/ u = <<>> \/ u[1] # c
      PROVE  Replaced(<<h>> \o u, c, v) = <<h>> \o Replaced(u, c, v)
  <2> DEFINE x == <<h>> \o u
  <2>1. /\ x \in Text /\ x # <<>> /\ x[1] = h /\ Len(x) = Len(u) + 1
        /\ \A i \in 1 .. Len(u) : x[1 + i] = u[i]
        /\ SubSeq(x, 2, Len(x)) = u
    BY <1>2
  <2>2. Len(u) \in Nat /\ u # <<>> => Len(u) > 0
    BY DEF Text
  <2> HIDE DEF x
  <2>3. ~Begins(x, c)
    <3> SUFFICES ASSUME Begins(x, c) PROVE FALSE
      OBVIOUS
    <3>1. Len(x) > 1 /\ h = "%" /\ x[2] = c
      BY <2>1 DEF Begins
    <3>2. Len(u) > 0 /\ 1 \in 1 .. Len(u) /\ 1 + 1 = 2
      <4>1. Len(u) \in Nat
        BY DEF Text
      <4> QED BY <2>1, <3>1, <4>1
    <3>3. u[1] = c
      BY <2>1, <3>1, <3>2
    <3>4. u # <<>>
      BY <3>2 DEF Text
    <3> QED BY <1>4, <3>1, <3>3, <3>4
  <2>4. Replaced(x, c, v) = <<h>> \o Replaced(u, c, v)
    BY <2>1, <2>3, ReplacedSteps
  <2> QED BY <2>4 DEF x
<1>5. Replaced(<<>>, c, v) = <<>> /\ \A t \in Text : Replaced(t, c, v) \in Text
  BY <1>1, ReplacedSteps
<1> QED BY <1>3, <1>4, <1>5

\* Where a text can be cut for RE("%c").GlobalReplace: not within a "%c".
Apart(x, y, c) == x = <<>> \/ x[Len(x)] # "%" \/ y = <<>> \/ y[1] # c

\* The two parts of such a text are replaced each by itself.
LEMMA ReplacedApart ==
  ASSUME NEW c \in Characters \ {"%"}, NEW v \in Text
  PROVE  \A x, y \in Text : Apart(x, y, c) =>
           Replaced(x \o y, c, v) = Replaced(x, c, v) \o Replaced(y, c, v)
<1> DEFINE R(t) == Replaced(t, c, v)
           T == {t \in Text : \A z \in Text : Apart(t, z, c) => R(t \o z) = R(t) \o R(z)}
<1>1. /\ R(<<>>) = <<>>
      /\ \A t \in Text : R(t) \in Text
      /\ \A u \in Text : R(<<"%">> \o (<<c>> \o u)) = Rewritten(v) \o R(u)
      /\ \A h \in Characters, u \in Text :
           h # "%" \/ u = <<>> \/ u[1] # c => R(<<h>> \o u) = <<h>> \o R(u)
  BY ReplacedForms
<1> HIDE DEF R
<1>2. <<>> \in T
  <2>1. <<>> \in Text /\ \A z \in Text : <<>> \o z = z
    BY Attached
  <2>2. \A z \in Text : <<>> \o R(z) = R(z)
    BY <1>1, <2>1
  <2> QED BY <1>1, <2>1, <2>2
<1>3. ASSUME NEW h \in Characters, NEW u \in Text,
             \A t \in Text : Len(t) <= Len(u) => t \in T
      PROVE  <<h>> \o u \in T
  <2>1. <<h>> \in Text /\ Len(<<h>>) = 1 /\ <<h>>[1] = h /\ <<h>> \o u \in Text
    BY Attached, Behind
  <2> SUFFICES ASSUME NEW z \in Text, Apart(<<h>> \o u, z, c)
               PROVE  R((<<h>> \o u) \o z) = R(<<h>> \o u) \o R(z)
    BY <2>1
  <2>2. u \o z \in Text /\ (<<h>> \o u) \o z = <<h>> \o (u \o z)
    <3>1. u \o z \in Text
      BY Joined
    <3>2. (<<h>> \o u) \o z = <<h>> \o (u \o z)
      BY <2>1, Associative
    <3> QED BY <3>1, <3>2
  <2>3. \A t \in Text : Len(t) <= Len(u) /\ Apart(t, z, c) => R(t \o z) = R(t) \o R(z)
    BY <1>3
  <2>4. CASE h = "%" /\ u # <<>> /\ u[1] = c
    <3>1. PICK w \in Text : u = <<c>> \o w /\ Len(u) = Len(w) + 1
      BY <2>4, TextForms
    <3>2. <<c>> \in Text /\ Len(<<c>>) = 1 /\ w \o z \in Text
      BY Attached, Behind
    <3>3. u \o z = <<c>> \o (w \o z)
      <4>1. (<<c>> \o w) \o z = <<c>> \o (w \o z)
        BY <3>2, Associative
      <4> QED BY <3>1, <4>1
    <3>4. Apart(w, z, c)
      <4>1. u # <<>> => (<<h>> \o u)[Len(<<h>> \o u)] = u[Len(u)]
                         /\ <<h>> \o u # <<>>
        BY <2>1, Outer
      <4>2. w # <<>> => u[Len(u)] = w[Len(w)]
        BY <3>1, <3>2, Outer
      <4> QED BY <2>4, <4>1, <4>2 DEF Apart
    <3>5. Len(w) <= Len(u)
      BY <3>1, Behind
    <3>6. R(w \o z) = R(w) \o R(z)
      BY <2>3, <3>4, <3>5
    <3>7. R((<<h>> \o u) \o z) = Rewritten(v) \o (R(w) \o R(z))
      <4>1. (<<h>> \o u) \o z = <<"%">> \o (<<c>> \o (w \o z))
        BY <2>2, <2>4, <3>3, Zenon
      <4> QED BY <1>1, <3>2, <3>6, <4>1, Zenon
    <3>8. R(<<h>> \o u) = Rewritten(v) \o R(w)
      BY <1>1, <2>4, <3>1
    <3>9. Rewritten(v) \in Text
      BY RewrittenType
    <3>10. (Rewritten(v) \o R(w)) \o R(z) = Rewritten(v) \o (R(w) \o R(z))
      <4>1. R(w) \in Text /\ R(z) \in Text
        BY <1>1
      <4> QED BY <3>9, <4>1, Associative
    <3> QED BY <3>7, <3>8, <3>10, Zenon
  <2>5. CASE ~(h = "%" /\ u # <<>> /\ u[1] = c)
    <3>1. Apart(u, z, c)
      <4>1. u # <<>> => (<<h>> \o u)[Len(<<h>> \o u)] = u[Len(u)]
                         /\ <<h>> \o u # <<>>
        BY <2>1, Outer
      <4> QED BY <4>1 DEF Apart
    <3>2. R(u \o z) = R(u) \o R(z)
      <4>1. Len(u) <= Len(u)
        BY Behind
      <4> QED BY <2>3, <3>1, <4>1
    <3>3. h # "%" \/ u \o z = <<>> \/ (u \o z)[1] # c
      <4>1. CASE u # <<>>
        BY <2>5, <4>1, Outer
      <4>2. CASE u = <<>>
        <5>1. u \o z = z /\ <<h>> \o u = <<h>>
          BY <2>1, <4>2, Joined, Zenon
        <5>2. <<h>> # <<>>
          OBVIOUS
        <5> QED BY <2>1, <5>1, <5>2 DEF Apart
      <4> QED BY <4>1, <4>2
    <3>4. R((<<h>> \o u) \o z) = <<h>> \o (R(u) \o R(z))
      BY <1>1, <2>2, <3>2, <3>3, Zenon
    <3>5. R(<<h>> \o u) = <<h>> \o R(u)
      BY <1>1, <2>5, Zenon
    <3>6. (<<h>> \o R(u)) \o R(z) = <<h>> \o (R(u) \o R(z))
      <4>1. R(u) \in Text /\ R(z) \in Text
        BY <1>1
      <4> QED BY <2>1, <4>1, Associative
    <3> QED BY <3>4, <3>5, <3>6, Zenon
  <2> QED BY <2>4, <2>5
<1>4. T = Text
  <2>1. T \in SUBSET Text
    OBVIOUS
  <2> HIDE DEF T
  <2> QED BY <1>2, <1>3, <2>1, ByCharacter
<1> QED BY <1>4 DEF R

\* No character of the text is one of the set.
Without(t, X) == Hits(t, X) = {}

\* Two texts that are joined are without the set if both are.
LEMMA WithoutJoined ==
  ASSUME NEW X
  PROVE  /\ \A x, y \in Text : Without(x \o y, X) <=> Without(x, X) /\ Without(y, X)
         /\ \A h \in Characters : Without(<<h>>, X) <=> h \notin X
         /\ \A h \in Characters, u \in Text :
              Without(<<h>> \o u, X) <=> h \notin X /\ Without(u, X)
         /\ Without(<<>>, X)
<1>1. ASSUME NEW x \in Text, NEW y \in Text
      PROVE  Without(x \o y, X) <=> Without(x, X) /\ Without(y, X)
  <2>1. /\ Len(x) \in Nat /\ Len(y) \in Nat /\ Len(x \o y) = Len(x) + Len(y)
        /\ \A i \in 1 .. Len(x) : (x \o y)[i] = x[i]
        /\ \A i \in 1 .. Len(y) : (x \o y)[Len(x) + i] = y[i]
    BY Behind
  <2>2. ASSUME Without(x \o y, X) PROVE Without(x, X) /\ Without(y, X)
    <3>1. \A i \in 1 .. (Len(x) + Len(y)) : (x \o y)[i] \notin X
      BY <2>1, <2>2 DEF Without, Hits
    <3>2. \A i \in 1 .. Len(x) : x[i] \notin X
      BY <2>1, <3>1
    <3>3. \A i \in 1 .. Len(y) : y[i] \notin X
      <4>1. \A i \in 1 .. Len(y) : Len(x) + i \in 1 .. (Len(x) + Len(y))
        BY <2>1
      <4> QED BY <2>1, <3>1, <4>1
    <3> QED BY <3>2, <3>3 DEF Without, Hits
  <2>3. ASSUME Without(x, X), Without(y, X) PROVE Without(x \o y, X)
    <3>1. ASSUME NEW i \in 1 .. (Len(x) + Len(y)) PROVE (x \o y)[i] \notin X
      <4>1. CASE i <= Len(x)
        <5>1. i \in 1 .. Len(x)
          BY <2>1, <4>1
        <5> QED BY <2>1, <2>3, <5>1 DEF Without, Hits
      <4>2. CASE i > Len(x)
        <5>1. i - Len(x) \in 1 .. Len(y) /\ Len(x) + (i - Len(x)) = i
          BY <2>1, <4>2
        <5>2. (x \o y)[i] = y[i - Len(x)]
          BY <2>1, <5>1
        <5> QED BY <2>3, <5>1, <5>2 DEF Without, Hits
      <4> QED BY <2>1, <4>1, <4>2
    <3> QED BY <2>1, <3>1 DEF Without, Hits
  <2> QED BY <2>2, <2>3
<1>2. ASSUME NEW h \in Characters
      PROVE  Without(<<h>>, X) <=> h \notin X
  <2>1. Len(<<h>>) = 1 /\ <<h>>[1] = h /\ 1 .. 1 = {1}
    OBVIOUS
  <2> QED BY <2>1 DEF Without, Hits
<1>3. \A h \in Characters : <<h>> \in Text
  BY DEF Text
<1>4. Without(<<>>, X)
  BY DEF Without, Hits
<1> QED BY <1>1, <1>2, <1>3, <1>4

\* A text without "%" stays as it is.
LEMMA ReplacedAlone ==
  ASSUME NEW c \in Characters \ {"%"}, NEW v \in Text
  PROVE  \A t \in Text : Without(t, {"%"}) => Replaced(t, c, v) = t
<1> DEFINE R(t) == Replaced(t, c, v)
           T == {t \in Text : Without(t, {"%"}) => R(t) = t}
<1>1. /\ R(<<>>) = <<>>
      /\ \A h \in Characters, u \in Text :
           h # "%" \/ u = <<>> \/ u[1] # c => R(<<h>> \o u) = <<h>> \o R(u)
  BY ReplacedForms
<1> HIDE DEF R
<1>2. <<>> \in T
  BY <1>1, Joined
<1>3. ASSUME NEW h \in Characters, NEW u \in Text,
             \A x \in Text : Len(x) <= Len(u) => x \in T
      PROVE  <<h>> \o u \in T
  <2>1. <<h>> \o u \in Text /\ Len(u) <= Len(u)
    BY Behind, Joined
  <2>2. u \in T
    BY <1>3, <2>1
  <2>3. Without(<<h>> \o u, {"%"}) => h # "%" /\ Without(u, {"%"})
    BY WithoutJoined
  <2> QED BY <1>1, <2>1, <2>2, <2>3
<1>4. T = Text
  <2>1. T \in SUBSET Text
    OBVIOUS
  <2> HIDE DEF T
  <2> QED BY <1>2, <1>3, <2>1, ByCharacter
<1> QED BY <1>4 DEF R

\* What is neither in a text nor in what is put in is not in the result.
LEMMA ReplacedWithout ==
  ASSUME NEW c \in Characters \ {"%"}, NEW v \in Text, Rewritten(v) = v,
         NEW X, Without(v, X)
  PROVE  \A t \in Text : Without(t, X) => Without(Replaced(t, c, v), X)
<1> DEFINE R(t) == Replaced(t, c, v)
           T == {t \in Text : Without(t, X) => Without(R(t), X)}
<1>1. /\ R(<<>>) = <<>>
      /\ \A t \in Text : R(t) \in Text
      /\ \A u \in Text : R(<<"%">> \o (<<c>> \o u)) = v \o R(u)
      /\ \A h \in Characters, u \in Text :
           h # "%" \/ u = <<>> \/ u[1] # c => R(<<h>> \o u) = <<h>> \o R(u)
  <2>1. \A u \in Text : R(<<"%">> \o (<<c>> \o u)) = Rewritten(v) \o R(u)
    BY ReplacedForms
  <2>2. /\ R(<<>>) = <<>>
        /\ \A t \in Text : R(t) \in Text
        /\ \A h \in Characters, u \in Text :
             h # "%" \/ u = <<>> \/ u[1] # c => R(<<h>> \o u) = <<h>> \o R(u)
    BY ReplacedForms
  <2> HIDE DEF R
  <2> QED BY <2>1, <2>2
<1> HIDE DEF R
<1>2. <<>> \in T
  BY <1>1, Joined
<1>3. ASSUME NEW h \in Characters, NEW u \in Text,
             \A x \in Text : Len(x) <= Len(u) => x \in T
      PROVE  <<h>> \o u \in T
  <2>1. <<h>> \o u \in Text
    BY Joined
  <2>2. /\ \A x \in Text : Len(x) <= Len(u) /\ Without(x, X) => Without(R(x), X)
        /\ Len(u) \in Nat
    BY <1>3, Behind
  <2> SUFFICES ASSUME Without(<<h>> \o u, X) PROVE Without(R(<<h>> \o u), X)
    BY <2>1
  <2>3. h \notin X /\ Without(u, X)
    BY WithoutJoined
  <2>4. CASE h = "%" /\ u # <<>> /\ u[1] = c
    <3>1. PICK w \in Text : u = <<c>> \o w /\ Len(u) = Len(w) + 1
      BY <2>4, TextForms
    <3>2. Without(w, X)
      BY <2>3, <3>1, WithoutJoined
    <3>3. Len(w) <= Len(u)
      BY <3>1, Behind
    <3>4. Without(R(w), X)
      BY <2>2, <3>2, <3>3
    <3>5. R(<<h>> \o u) = v \o R(w)
      BY <1>1, <2>4, <3>1
    <3>6. R(w) \in Text
      BY <1>1
    <3>7. Without(v \o R(w), X)
      BY <3>4, <3>6, WithoutJoined
    <3> QED BY <3>5, <3>7
  <2>5. CASE ~(h = "%" /\ u # <<>> /\ u[1] = c)
    <3>1. Without(R(u), X)
      BY <2>2, <2>3
    <3>2. R(<<h>> \o u) = <<h>> \o R(u)
      BY <1>1, <2>5
    <3>3. R(u) \in Text
      BY <1>1
    <3>4. Without(<<h>> \o R(u), X)
      BY <2>3, <3>1, <3>3, WithoutJoined
    <3> QED BY <3>2, <3>4
  <2> QED BY <2>4, <2>5
<1>4. T = Text
  <2>1. T \in SUBSET Text
    OBVIOUS
  <2> HIDE DEF T
  <2> QED BY <1>2, <1>3, <2>1, ByCharacter
<1> QED BY <1>4 DEF R

\* First is determined by what FirstIsLeast says of it.
LEMMA FirstIs ==
  ASSUME NEW K \in SUBSET Nat, NEW n \in K, \A j \in K : n <= j
  PROVE  First(K) = n
<1>1. First(K) \in K /\ \A j \in K : First(K) <= j
  BY FirstIsLeast
<1>2. First(K) <= n /\ n <= First(K) /\ First(K) \in Nat /\ n \in Nat
  BY <1>1
<1> QED BY <1>2

\* The quotation mark and "%" are no white space.
LEMMA Marks ==
  /\ "q" \in Characters /\ "q" \notin Blank /\ "q" # "%"
  /\ "%" \in Characters /\ "%" \notin Blank
<1>1. "q" \in Characters /\ "%" \in Characters
  BY Zenon DEF Characters
<1>2. "q" \notin Blank /\ "%" \notin Blank
  BY Zenon DEF Blank
<1> QED BY <1>1, <1>2

\* A text between quotation marks.
Enclosed(m) == <<"q">> \o (m \o <<"q">>)

\* The characters of a text between quotation marks.
LEMMA EnclosedText ==
  ASSUME NEW m \in Text
  PROVE  /\ Enclosed(m) \in Text /\ Len(Enclosed(m)) = Len(m) + 2
         /\ Len(m) \in Nat
         /\ Enclosed(m)[1] = "q" /\ Enclosed(m)[Len(m) + 2] = "q"
         /\ \A i \in 1 .. Len(m) : Enclosed(m)[1 + i] = m[i]
<1>1. <<"q">> \in Text /\ Len(<<"q">>) = 1 /\ <<"q">>[1] = "q"
  BY Marks, Attached
<1>2. /\ m \o <<"q">> \in Text /\ Len(m \o <<"q">>) = Len(m) + 1 /\ Len(m) \in Nat
      /\ \A i \in 1 .. Len(m) : (m \o <<"q">>)[i] = m[i]
      /\ (m \o <<"q">>)[Len(m) + 1] = "q"
  BY <1>1, Behind
<1> DEFINE n == m \o <<"q">>
<1> HIDE DEF n
<1>3. /\ n \in Text /\ Len(n) = Len(m) + 1
      /\ \A i \in 1 .. Len(m) : n[i] = m[i]
      /\ n[Len(m) + 1] = "q"
  BY <1>2 DEF n
<1>4. /\ <<"q">> \o n \in Text /\ Len(<<"q">> \o n) = Len(m) + 2
      /\ (<<"q">> \o n)[1] = "q"
      /\ \A i \in 1 .. Len(n) : (<<"q">> \o n)[1 + i] = n[i]
  BY <1>1, <1>2, <1>3, Behind
<1>5. /\ \A i \in 1 .. Len(m) : (<<"q">> \o n)[1 + i] = m[i]
      /\ (<<"q">> \o n)[Len(m) + 2] = "q"
  <2>1. \A i \in 1 .. Len(m) : i \in 1 .. Len(n)
    BY <1>2, <1>3
  <2>2. Len(m) + 1 \in 1 .. Len(n) /\ 1 + (Len(m) + 1) = Len(m) + 2
    BY <1>2, <1>3
  <2> QED BY <1>3, <1>4, <2>1, <2>2
<1> QED BY <1>2, <1>4, <1>5 DEF Enclosed, n

\* A token that begins with a quotation mark ends at the next.
LEMMA EnclosedToken ==
  ASSUME NEW m \in Text, Without(m, {"q"}), NEW y \in Text
  PROVE  /\ Enclosed(m) \o y # <<>> /\ (Enclosed(m) \o y)[1] \notin Blank
         /\ Token(Enclosed(m) \o y) = Enclosed(m)
         /\ AfterToken(Enclosed(m) \o y) = y
<1> DEFINE a == Enclosed(m)
           t == a \o y
           marks == Hits(t, {"q"}) \ {1}
<1>1. /\ a \in Text /\ Len(a) = Len(m) + 2 /\ Len(m) \in Nat
      /\ a[1] = "q" /\ a[Len(m) + 2] = "q"
      /\ \A i \in 1 .. Len(m) : a[1 + i] = m[i]
  BY EnclosedText
<1>2. \A i \in 1 .. Len(m) : m[i] # "q"
  BY DEF Without, Hits
<1> HIDE DEF a
<1>3. /\ t \in Text /\ Len(t) = Len(a) + Len(y) /\ Len(y) \in Nat
      /\ \A i \in 1 .. Len(a) : t[i] = a[i]
      /\ SubSeq(t, 1, Len(a)) = a
      /\ SubSeq(t, Len(a) + 1, Len(t)) = y
  BY <1>1, Behind
<1> HIDE DEF t
<1>4. t[1] = "q" /\ t # <<>>
  BY <1>1, <1>3 DEF Text
<1>5. Len(a) \in marks
  BY <1>1, <1>3 DEF Hits
<1>6. marks \in SUBSET Nat
  BY <1>1, <1>3 DEF Hits
<1>7. ASSUME NEW j \in marks PROVE Len(a) <= j
  <2>1. j \in 1 .. Len(t) /\ t[j] = "q" /\ j # 1
    BY DEF Hits
  <2> SUFFICES ASSUME j < Len(a) PROVE FALSE
    BY <1>1, <1>3, <2>1
  <2>2. j - 1 \in 1 .. Len(m) /\ 1 + (j - 1) = j /\ j \in 1 .. Len(a)
    BY <1>1, <1>3, <2>1
  <2>3. a[j] = m[j - 1]
    BY <1>1, <2>2
  <2> QED BY <1>2, <1>3, <2>1, <2>2, <2>3
<1>8. TokenEnd(t) = IF t[1] = "q" /\ marks # {} THEN First(marks)
                    ELSE First({j - 1 : j \in Hits(t, Blank)} \cup {Len(t)})
  BY DEF TokenEnd
<1> HIDE DEF marks
<1>9. First(marks) = Len(a)
  BY <1>5, <1>6, <1>7, FirstIs
<1>10. TokenEnd(t) = Len(a)
  BY <1>4, <1>5, <1>8, <1>9
<1>11. Token(t) = a /\ AfterToken(t) = y
  BY <1>3, <1>10 DEF Token, AfterToken
<1> QED BY <1>4, <1>11, Marks DEF t, a

\* A token that does not ends before the white space.
LEMMA PlainToken ==
  ASSUME NEW x \in Text, x # <<>>, Without(x, {"q"} \cup Blank),
         NEW y \in Text, y = <<>> \/ y[1] \in Blank
  PROVE  /\ x \o y # <<>> /\ (x \o y)[1] \notin Blank
         /\ Token(x \o y) = x
         /\ AfterToken(x \o y) = y
<1> DEFINE t == x \o y
           ends == {j - 1 : j \in Hits(t, Blank)} \cup {Len(t)}
<1>1. /\ Len(x) \in Nat \ {0} /\ \A i \in 1 .. Len(x) : x[i] # "q" /\ x[i] \notin Blank
  BY DEF Text, Without, Hits
<1>2. /\ t \in Text /\ Len(t) = Len(x) + Len(y) /\ Len(y) \in Nat
      /\ \A i \in 1 .. Len(x) : t[i] = x[i]
      /\ \A i \in 1 .. Len(y) : t[Len(x) + i] = y[i]
      /\ SubSeq(t, 1, Len(x)) = x
      /\ SubSeq(t, Len(x) + 1, Len(t)) = y
  BY Behind
<1> HIDE DEF t
<1>3. t[1] # "q" /\ t[1] \notin Blank /\ t # <<>>
  <2>1. 1 \in 1 .. Len(x) /\ Len(t) > 0
    BY <1>1, <1>2
  <2> QED BY <1>1, <1>2, <2>1 DEF Text
<1>4. Len(x) \in ends
  <2>1. CASE y = <<>>
    BY <1>1, <1>2, <2>1
  <2>2. CASE y # <<>> /\ y[1] \in Blank
    <3>1. 1 \in 1 .. Len(y)
      BY <2>2 DEF Text
    <3>2. t[Len(x) + 1] \in Blank /\ Len(x) + 1 \in 1 .. Len(t)
      BY <1>1, <1>2, <2>2, <3>1
    <3>3. Len(x) + 1 \in Hits(t, Blank) /\ (Len(x) + 1) - 1 = Len(x)
      BY <1>1, <3>2 DEF Hits
    <3> QED BY <3>3
  <2> QED BY <2>1, <2>2
<1>5. ends \in SUBSET Nat
  BY <1>1, <1>2 DEF Hits
<1>6. ASSUME NEW j \in ends PROVE Len(x) <= j
  <2>1. CASE j = Len(t)
    BY <1>1, <1>2, <2>1
  <2>2. CASE j # Len(t)
    <3>1. PICK i \in Hits(t, Blank) : j = i - 1
      BY <2>2
    <3>2. i \in 1 .. Len(t) /\ t[i] \in Blank
      BY DEF Hits
    <3>3. ~(i \in 1 .. Len(x))
      BY <1>1, <1>2, <3>2
    <3> QED BY <1>1, <1>2, <3>1, <3>2, <3>3
  <2> QED BY <2>1, <2>2
<1>7. t[1] # "q" => TokenEnd(t) = First(ends)
  BY DEF TokenEnd
<1> HIDE DEF ends
<1>8. First(ends) = Len(x)
  BY <1>4, <1>5, <1>6, FirstIs
<1>9. TokenEnd(t) = Len(x)
  BY <1>3, <1>7, <1>8
<1>10. Token(t) = x /\ AfterToken(t) = y
  BY <1>2, <1>9 DEF Token, AfterToken
<1> QED BY <1>3, <1>10 DEF t

\* A text that begins with no white space is its first token and the rest.
LEMMA TokenForms ==
  ASSUME NEW t \in Text, t # <<>>, t[1] \notin Blank
  PROVE  /\ t = Token(t) \o AfterToken(t)
         /\ Quoted(Token(t)) =>
              \E m \in Text : Without(m, {"q"}) /\ Token(t) = Enclosed(m)
         /\ Without(Token(t), {"q"}) =>
              /\ Without(Token(t), {"q"} \cup Blank) /\ Token(t) # <<>>
              /\ AfterToken(t) = <<>> \/ AfterToken(t)[1] \in Blank
<1> DEFINE n == TokenEnd(t)
           marks == Hits(t, {"q"}) \ {1}
           ends == {j - 1 : j \in Hits(t, Blank)} \cup {Len(t)}
<1>1. n \in 1 .. Len(t) /\ Len(t) \in Nat
  BY TokenEndRange DEF Text
<1>2. n = IF t[1] = "q" /\ marks # {} THEN First(marks) ELSE First(ends)
  BY DEF TokenEnd
<1>3. /\ marks \in SUBSET Nat /\ \A j \in marks : j \in 1 .. Len(t) /\ t[j] = "q" /\ j # 1
      /\ \A j \in 1 .. Len(t) : t[j] = "q" /\ j # 1 => j \in marks
  BY <1>1 DEF Hits
<1>4. /\ ends \in SUBSET Nat /\ Len(t) \in ends
      /\ \A j \in 1 .. Len(t) : t[j] \in Blank => j - 1 \in ends
      /\ \A j \in ends : j = Len(t) \/ (j + 1 \in 1 .. Len(t) /\ t[j + 1] \in Blank)
  <2>1. \A j \in 1 .. Len(t) : t[j] \in Blank => j - 1 \in Nat /\ (j - 1) + 1 = j
    BY <1>1
  <2>2. \A j \in 1 .. Len(t) : j \in Hits(t, Blank) <=> t[j] \in Blank
    BY DEF Hits
  <2>3. Hits(t, Blank) \in SUBSET (1 .. Len(t))
    BY DEF Hits
  <2>4. \A j \in Hits(t, Blank) : j - 1 \in Nat /\ (j - 1) + 1 = j /\ j \in 1 .. Len(t) /\ t[j] \in Blank
    BY <2>1, <2>2, <2>3
  <2> QED BY <1>1, <2>2, <2>4
<1>5. Token(t) = SubSeq(t, 1, n) /\ AfterToken(t) = SubSeq(t, n + 1, Len(t))
  BY DEF Token, AfterToken
<1> HIDE DEF n, marks, ends
<1>6. /\ Token(t) \in Text /\ Len(Token(t)) = n
      /\ \A i \in 1 .. n : Token(t)[i] = t[i]
  BY <1>1, <1>5 DEF Text
<1>7. t = Token(t) \o AfterToken(t)
  <2>1. SubSeq(t, 1, n) \o SubSeq(t, n + 1, Len(t)) = SubSeq(t, 1, Len(t))
    BY <1>1, ConcatAdjacentSubSeq DEF Text
  <2> QED BY <1>5, <2>1, SubSeqFull DEF Text
<1>8. ASSUME Quoted(Token(t))
      PROVE  \E m \in Text : Without(m, {"q"}) /\ Token(t) = Enclosed(m)
  <2>1. n > 1 /\ t[1] = "q" /\ t[n] = "q"
    BY <1>1, <1>6, <1>8 DEF Quoted
  <2>2. n \in marks /\ n = First(marks)
    BY <1>1, <1>2, <1>3, <2>1
  <2>3. \A j \in marks : n <= j
    BY <1>3, <2>2, FirstIsLeast
  <2> DEFINE m == SubSeq(t, 2, n - 1)
  <2>4. m \in Text /\ Len(m) = n - 2 /\ \A i \in 1 .. n - 2 : m[i] = t[i + 1]
    BY <1>1, <2>1 DEF Text
  <2> HIDE DEF m
  <2>5. Without(m, {"q"})
    <3>1. ASSUME NEW i \in 1 .. Len(m), m[i] = "q" PROVE FALSE
      <4>1. i + 1 \in 1 .. Len(t) /\ i + 1 # 1 /\ i + 1 < n /\ t[i + 1] = "q"
        BY <1>1, <2>1, <2>4, <3>1
      <4> QED BY <1>1, <1>3, <2>3, <4>1
    <3> QED BY <3>1 DEF Without, Hits
  <2>6. Token(t) = Enclosed(m)
    <3>1. /\ Enclosed(m) \in Text /\ Len(Enclosed(m)) = n
          /\ Enclosed(m)[1] = "q" /\ Enclosed(m)[n] = "q"
          /\ \A i \in 1 .. Len(m) : Enclosed(m)[1 + i] = m[i]
      <4>1. Len(m) + 2 = n
        BY <1>1, <2>4
      <4> QED BY <2>4, <4>1, EnclosedText
    <3>2. ASSUME NEW i \in 1 .. n PROVE Token(t)[i] = Enclosed(m)[i]
      <4>1. CASE i = 1 \/ i = n
        BY <1>1, <1>6, <2>1, <3>1, <4>1
      <4>2. CASE i # 1 /\ i # n
        <5>1. i - 1 \in 1 .. Len(m) /\ 1 + (i - 1) = i /\ (i - 1) + 1 = i /\ i - 1 \in 1 .. n - 2
          BY <1>1, <2>4, <4>2
        <5>2. Enclosed(m)[i] = m[i - 1] /\ m[i - 1] = t[i]
          BY <2>4, <3>1, <5>1
        <5> QED BY <1>6, <5>2
      <4> QED BY <4>1, <4>2
    <3> QED BY <1>6, <3>1, <3>2, SeqEqual DEF Text
  <2> QED BY <2>4, <2>5, <2>6
<1>9. ASSUME Without(Token(t), {"q"})
      PROVE  /\ Without(Token(t), {"q"} \cup Blank) /\ Token(t) # <<>>
             /\ AfterToken(t) = <<>> \/ AfterToken(t)[1] \in Blank
  <2>1. \A i \in 1 .. n : t[i] # "q"
    BY <1>6, <1>9 DEF Without, Hits
  <2>2. n = First(ends)
    BY <1>1, <1>2, <2>1
  <2>3. n \in ends /\ \A j \in ends : n <= j
    BY <1>4, <2>2, FirstIsLeast
  <2>4. \A i \in 1 .. n : t[i] \notin Blank
    <3> SUFFICES ASSUME NEW i \in 1 .. n, t[i] \in Blank PROVE FALSE
      OBVIOUS
    <3>1. i - 1 \in ends /\ i - 1 < n
      BY <1>1, <1>4
    <3> QED BY <1>1, <2>3, <3>1
  <2>5. Without(Token(t), {"q"} \cup Blank)
    BY <1>6, <2>1, <2>4 DEF Without, Hits
  <2>6. Token(t) # <<>>
    BY <1>1, <1>6 DEF Text
  <2>7. AfterToken(t) = <<>> \/ AfterToken(t)[1] \in Blank
    <3>1. CASE n = Len(t)
      BY <1>1, <1>5, <3>1, SubSeqEmpty
    <3>2. CASE n # Len(t)
      <4>1. n + 1 \in 1 .. Len(t) /\ t[n + 1] \in Blank
        BY <1>4, <2>3, <3>2
      <4>2. SubSeq(t, n + 1, Len(t))[1] = t[n + 1]
        BY <1>1, <4>1 DEF Text
      <4> QED BY <1>5, <4>1, <4>2
    <3> QED BY <3>1, <3>2
  <2> QED BY <2>5, <2>6, <2>7
<1> QED BY <1>7, <1>8, <1>9

\* What FindAndConsume finds in a text that begins with white space or a token.
LEMMA FindsForms ==
  /\ Finds(<<>>) = <<>>
  /\ \A t \in Text : Finds(t) \in Seq(Text)
  /\ \A h \in Characters, u \in Text : h \in Blank => Finds(<<h>> \o u) = Finds(u)
  /\ \A m, y \in Text : Without(m, {"q"}) =>
       Finds(Enclosed(m) \o y) = <<Enclosed(m)>> \o Finds(y)
  /\ \A x, y \in Text :
       x # <<>> /\ Without(x, {"q"} \cup Blank) /\ (y = <<>> \/ y[1] \in Blank)
       => Finds(x \o y) = <<x>> \o Finds(y)
<1>1. Finds(<<>>) = <<>> /\ \A t \in Text : Finds(t) \in Seq(Text)
  BY Joined, FindsSteps
<1>2. ASSUME NEW h \in Characters, NEW u \in Text, h \in Blank
      PROVE  Finds(<<h>> \o u) = Finds(u)
  <2>1. <<h>> \in Text /\ Len(<<h>>) = 1 /\ <<h>>[1] = h /\ <<h>> # <<>>
    BY Attached
  <2>2. /\ <<h>> \o u \in Text
        /\ SubSeq(<<h>> \o u, 1 + 1, Len(<<h>> \o u)) = u
    BY <2>1, Behind
  <2>3. <<h>> \o u # <<>> /\ (<<h>> \o u)[1] = h /\ 1 + 1 = 2
    BY <2>1, Outer
  <2> QED BY <1>2, <2>2, <2>3, FindsSteps
<1>3. ASSUME NEW m \in Text, NEW y \in Text, Without(m, {"q"})
      PROVE  Finds(Enclosed(m) \o y) = <<Enclosed(m)>> \o Finds(y)
  <2>1. Enclosed(m) \o y \in Text
    BY EnclosedText, Joined
  <2> QED BY <1>3, <2>1, EnclosedToken, FindsSteps
<1>4. ASSUME NEW x \in Text, NEW y \in Text, x # <<>>, Without(x, {"q"} \cup Blank),
             y = <<>> \/ y[1] \in Blank
      PROVE  Finds(x \o y) = <<x>> \o Finds(y)
  <2>1. x \o y \in Text
    BY Joined
  <2> QED BY <1>4, <2>1, PlainToken, FindsSteps
<1> QED BY <1>1, <1>2, <1>3, <1>4

\* A list with another text before it.
LEMMA Leading ==
  ASSUME NEW a \in Text, NEW F \in Seq(Text)
  PROVE  /\ Len(<<a>> \o F) = Len(F) + 1 /\ (<<a>> \o F)[1] = a /\ Len(F) \in Nat
         /\ \A i \in 1 .. Len(F) : (<<a>> \o F)[1 + i] = F[i]
         /\ \A i \in 1 .. Len(F) + 1 : i = 1 \/ i - 1 \in 1 .. Len(F)
OBVIOUS

\* What WellQuoted asks of a token, seen as what it is made of.
Well(a) == \/ \E m \in Text : Without(m, {"q"}) /\ a = Enclosed(m)
           \/ a \in Text /\ Without(a, {"q", "%"})
AllWell(t) == \A j \in 1 .. Len(Finds(t)) : Well(Finds(t)[j])

\* The three ways in which a text goes on, the first token of which is Well.
LEMMA WellForms ==
  ASSUME NEW t \in Text, t # <<>>,
         t[1] \notin Blank => Well(Token(t)) \/ Quoted(Token(t))
  PROVE  \/ \E h \in Characters, u \in Text : h \in Blank /\ t = <<h>> \o u
         \/ \E m, y \in Text : Without(m, {"q"}) /\ t = Enclosed(m) \o y
         \/ \E x, y \in Text :
              /\ x # <<>> /\ Without(x, {"q"} \cup Blank) /\ Without(x, {"q", "%"})
              /\ y = <<>> \/ y[1] \in Blank
              /\ t = x \o y
<1>1. CASE t[1] \in Blank
  <2>1. PICK h \in Characters, u \in Text : t = <<h>> \o u /\ h = t[1]
    BY TextForms
  <2> QED BY <1>1, <2>1
<1>2. CASE t[1] \notin Blank
  <2>1. Token(t) \in Text /\ AfterToken(t) \in Text /\ t = Token(t) \o AfterToken(t)
    BY <1>2, TokenType, TokenForms
  <2>2. CASE \E m \in Text : Without(m, {"q"}) /\ Token(t) = Enclosed(m)
    BY <2>1, <2>2
  <2>3. CASE Quoted(Token(t))
    BY <1>2, <2>1, <2>3, TokenForms
  <2>4. CASE Without(Token(t), {"q", "%"})
    <3>1. Without(Token(t), {"q"})
      BY <2>4 DEF Without, Hits
    <3>2. /\ Without(Token(t), {"q"} \cup Blank) /\ Token(t) # <<>>
          /\ AfterToken(t) = <<>> \/ AfterToken(t)[1] \in Blank
      BY <1>2, <3>1, TokenForms
    <3> QED BY <2>1, <2>4, <3>2
  <2> QED BY <1>2, <2>2, <2>3, <2>4 DEF Well
<1> QED BY <1>1, <1>2

\* The first token and those after it.
LEMMA AllWellForms ==
  ASSUME NEW t \in Text, NEW a \in Text, NEW y \in Text,
         Finds(t) = <<a>> \o Finds(y)
  PROVE  /\ AllWell(t) <=> Well(a) /\ AllWell(y)
         /\ WellQuoted(t) <=> (Quoted(a) \/ Hits(a, {"q", "%"}) = {}) /\ WellQuoted(y)
<1>1. Finds(y) \in Seq(Text)
  BY FindsForms
<1> DEFINE F == Finds(y)
           L == <<a>> \o F
<1> HIDE DEF F, L
<1>2. /\ Len(L) = Len(F) + 1 /\ L[1] = a /\ Len(F) \in Nat
      /\ \A i \in 1 .. Len(F) : L[1 + i] = F[i]
      /\ \A i \in 1 .. Len(F) + 1 : i = 1 \/ i - 1 \in 1 .. Len(F)
  BY <1>1, Leading DEF L, F
<1>3. Finds(t) = L
  BY DEF L, F
<1>4. /\ \A i \in 1 .. Len(F) : 1 + i \in 1 .. Len(L)
      /\ 1 \in 1 .. Len(L)
      /\ \A i \in 1 .. Len(L) : i = 1 \/ (i - 1 \in 1 .. Len(F) /\ L[i] = F[i - 1])
  <2>1. /\ \A i \in 1 .. Len(F) : 1 + i \in 1 .. Len(L)
        /\ 1 \in 1 .. Len(L)
    BY <1>2
  <2>2. ASSUME NEW i \in 1 .. Len(L), i # 1
        PROVE  i - 1 \in 1 .. Len(F) /\ L[i] = F[i - 1]
    <3>1. i - 1 \in 1 .. Len(F) /\ 1 + (i - 1) = i
      BY <1>2, <2>2
    <3> QED BY <1>2, <3>1
  <2> QED BY <2>1, <2>2
<1>5. AllWell(t) <=> Well(a) /\ \A j \in 1 .. Len(F) : Well(F[j])
  BY <1>2, <1>3, <1>4 DEF AllWell
<1>6. WellQuoted(t) <=>
        /\ Quoted(a) \/ Hits(a, {"q", "%"}) = {}
        /\ \A j \in 1 .. Len(F) : Quoted(F[j]) \/ Hits(F[j], {"q", "%"}) = {}
  BY <1>2, <1>3, <1>4 DEF WellQuoted
<1> QED BY <1>5, <1>6 DEF AllWell, WellQuoted, F

\* A token that is well quoted is Well.
LEMMA WellQuotedIsWell ==
  \A t \in Text : WellQuoted(t) => AllWell(t)
<1> DEFINE T == {t \in Text : WellQuoted(t) => AllWell(t)}
<1>1. ASSUME NEW t \in Text, \A x \in Text : Len(x) < Len(t) => x \in T
      PROVE  t \in T
  <2> SUFFICES ASSUME WellQuoted(t) PROVE AllWell(t)
    OBVIOUS
  <2>1. CASE t = <<>>
    BY <2>1, FindsForms DEF AllWell
  <2>2. CASE t # <<>> /\ t[1] \in Blank
    <3>1. Finds(t) = Finds(SubSeq(t, 2, Len(t)))
      BY <2>2, FindsSteps
    <3>2. SubSeq(t, 2, Len(t)) \in Text /\ Len(SubSeq(t, 2, Len(t))) < Len(t)
      <4>1. 1 \in 1 .. Len(t) /\ 1 + 1 = 2
        BY <2>2 DEF Text
      <4> QED BY <2>2, <4>1, Shorter
    <3>3. WellQuoted(SubSeq(t, 2, Len(t))) => AllWell(SubSeq(t, 2, Len(t)))
      BY <1>1, <3>2
    <3> QED BY <3>1, <3>3 DEF WellQuoted, AllWell
  <2>3. CASE t # <<>> /\ t[1] \notin Blank
    <3>1. /\ Token(t) \in Text /\ AfterToken(t) \in Text
          /\ Len(AfterToken(t)) < Len(t)
          /\ Finds(t) = <<Token(t)>> \o Finds(AfterToken(t))
      BY <2>3, TokenType, FindsSteps
    <3>2. /\ Quoted(Token(t)) \/ Hits(Token(t), {"q", "%"}) = {}
          /\ WellQuoted(AfterToken(t))
      BY <3>1, AllWellForms
    <3>3. AllWell(AfterToken(t))
      BY <1>1, <3>1, <3>2
    <3>4. Well(Token(t))
      BY <2>3, <3>1, <3>2, TokenForms DEF Well, Without
    <3> QED BY <3>1, <3>3, <3>4, AllWellForms
  <2> QED BY <2>1, <2>2, <2>3
<1>2. T = Text
  <2>1. T \in SUBSET Text
    OBVIOUS
  <2>2. \A t \in Text : (\A x \in Text : Len(x) < Len(t) => x \in T) => t \in T
    BY <1>1, Zenon
  <2> HIDE DEF T
  <2> QED BY ONLY <2>1, <2>2, ByLength
<1> QED BY <1>2

\* Putting a text between quotation marks and replacing what is in it are
\* independent of each other.
LEMMA ReplacedEnclosed ==
  ASSUME NEW c \in Characters \ {"%", "q"}, NEW v \in Text, NEW m \in Text
  PROVE  /\ Replaced(Enclosed(m), c, v) = Enclosed(Replaced(m, c, v))
         /\ \A y \in Text : Replaced(Enclosed(m) \o y, c, v)
                            = Enclosed(Replaced(m, c, v)) \o Replaced(y, c, v)
<1> DEFINE R(t) == Replaced(t, c, v)
<1>1. <<"q">> \in Text /\ Len(<<"q">>) = 1 /\ <<"q">>[1] = "q" /\ m \o <<"q">> \in Text
  BY Marks, Attached, Joined
<1>2. R(<<"q">>) = <<"q">>
  <2>1. Without(<<"q">>, {"%"})
    BY Marks, WithoutJoined
  <2> QED BY <1>1, <2>1, ReplacedAlone
<1>3. R(m \o <<"q">>) = R(m) \o <<"q">>
  <2>1. Apart(m, <<"q">>, c)
    BY <1>1 DEF Apart
  <2>2. R(m \o <<"q">>) = R(m) \o R(<<"q">>)
    BY <1>1, <2>1, ReplacedApart
  <2> QED BY <1>2, <2>2
<1>4. R(Enclosed(m)) = Enclosed(R(m))
  <2>1. \A h \in Characters, u \in Text : h # "%" => R(<<h>> \o u) = <<h>> \o R(u)
    BY ReplacedForms, ZenonT(30)
  <2> HIDE DEF R
  <2>2. R(<<"q">> \o (m \o <<"q">>)) = <<"q">> \o R(m \o <<"q">>)
    BY <1>1, <2>1, Marks
  <2> QED BY <1>3, <2>2 DEF Enclosed
<1>5. ASSUME NEW y \in Text PROVE R(Enclosed(m) \o y) = Enclosed(R(m)) \o R(y)
  <2>1. Enclosed(m) \in Text /\ Enclosed(m)[Len(Enclosed(m))] = "q"
    BY EnclosedText
  <2>2. Apart(Enclosed(m), y, c)
    BY <2>1, Marks DEF Apart
  <2>3. R(Enclosed(m) \o y) = R(Enclosed(m)) \o R(y)
    BY <2>1, <2>2, ReplacedApart
  <2> QED BY <1>4, <2>3
<1> QED BY <1>4, <1>5

\* So does RE("%c").GlobalReplace keep tokens apart.
LEMMA ReplacedFinds ==
  ASSUME NEW c \in Characters \ ({"%", "q"} \cup Blank), NEW v \in Text,
         Rewritten(v) = v, Without(v, {"q"})
  PROVE  \A t \in Text : AllWell(t) =>
           /\ AllWell(Replaced(t, c, v))
           /\ Len(Finds(Replaced(t, c, v))) = Len(Finds(t))
           /\ \A j \in 1 .. Len(Finds(t)) :
                Finds(Replaced(t, c, v))[j] = Replaced(Finds(t)[j], c, v)
<1> DEFINE R(t) == Replaced(t, c, v)
           Same(t) == /\ AllWell(R(t))
                      /\ Len(Finds(R(t))) = Len(Finds(t))
                      /\ \A j \in 1 .. Len(Finds(t)) : Finds(R(t))[j] = R(Finds(t)[j])
           T == {t \in Text : AllWell(t) => Same(t)}
<1>1. /\ R(<<>>) = <<>>
      /\ \A t \in Text : R(t) \in Text
      /\ \A h \in Characters, u \in Text : h # "%" => R(<<h>> \o u) = <<h>> \o R(u)
  BY ReplacedForms, ZenonT(30)
<1>2. \A m \in Text : Without(m, {"q"}) => Without(R(m), {"q"})
  BY ReplacedWithout
<1>3. \A x \in Text : Without(x, {"%"}) => R(x) = x
  BY ReplacedAlone
<1>4. \A m, y \in Text : /\ R(Enclosed(m)) = Enclosed(R(m))
                         /\ R(Enclosed(m) \o y) = Enclosed(R(m)) \o R(y)
  BY ReplacedEnclosed, ZenonT(30)
<1>5. \A x, y \in Text : Apart(x, y, c) => R(x \o y) = R(x) \o R(y)
  BY ReplacedApart
<1> HIDE DEF R
<1>6. ASSUME NEW t \in Text, NEW a \in Text, NEW y \in Text,
             Finds(t) = <<a>> \o Finds(y), Finds(R(t)) = <<R(a)>> \o Finds(R(y)),
             Well(R(a)), Same(y)
      PROVE  Same(t)
  <2>1. /\ Finds(y) \in Seq(Text) /\ R(a) \in Text /\ R(y) \in Text
        /\ Finds(R(y)) \in Seq(Text) /\ R(t) \in Text
    BY <1>1, FindsForms
  <2>2. AllWell(R(t))
    BY <1>6, <2>1, AllWellForms
  <2> DEFINE F == Finds(y)
             E == Finds(R(y))
  <2> HIDE DEF F, E
  <2>3. F \in Seq(Text) /\ E \in Seq(Text) /\ Finds(t) = <<a>> \o F /\ Finds(R(t)) = <<R(a)>> \o E
    BY <1>6, <2>1 DEF F, E
  <2>4. Len(E) = Len(F) /\ \A j \in 1 .. Len(F) : E[j] = R(F[j])
    BY <1>6 DEF F, E
  <2>5. /\ Len(<<a>> \o F) = Len(F) + 1 /\ (<<a>> \o F)[1] = a /\ Len(F) \in Nat
        /\ \A i \in 1 .. Len(F) : (<<a>> \o F)[1 + i] = F[i]
        /\ Len(<<R(a)>> \o E) = Len(E) + 1 /\ (<<R(a)>> \o E)[1] = R(a)
        /\ \A i \in 1 .. Len(E) : (<<R(a)>> \o E)[1 + i] = E[i]
    BY <2>1, <2>3, Leading
  <2>6. ASSUME NEW j \in 1 .. Len(Finds(t)) PROVE Finds(R(t))[j] = R(Finds(t)[j])
    <3>1. CASE j = 1
      BY <2>3, <2>5, <3>1
    <3>2. CASE j # 1
      <4>1. j - 1 \in 1 .. Len(F) /\ 1 + (j - 1) = j
        BY <2>3, <2>5, <3>2
      <4>2. Finds(R(t))[j] = E[j - 1] /\ Finds(t)[j] = F[j - 1]
        BY <2>3, <2>4, <2>5, <4>1
      <4> QED BY <2>4, <4>1, <4>2
    <3> QED BY <3>1, <3>2
  <2> QED BY <2>2, <2>3, <2>4, <2>5, <2>6
<1> HIDE DEF Same
<1>7. ASSUME NEW t \in Text, \A x \in Text : Len(x) < Len(t) => x \in T
      PROVE  t \in T
  <2> SUFFICES ASSUME AllWell(t) PROVE Same(t)
    OBVIOUS
  <2>0. \A x \in Text : Len(x) < Len(t) /\ AllWell(x) => Same(x)
    BY <1>7
  <2>1. CASE t = <<>>
    BY <1>1, <2>1, FindsForms DEF AllWell, Same
  <2>2. ASSUME NEW h \in Characters, NEW u \in Text, h \in Blank, t = <<h>> \o u
        PROVE  Same(t)
    <3>1. R(t) = <<h>> \o R(u) /\ R(u) \in Text
      BY <1>1, <2>2, Marks
    <3>2. Finds(t) = Finds(u) /\ Finds(R(t)) = Finds(R(u))
      <4>1. Finds(<<h>> \o u) = Finds(u) /\ Finds(<<h>> \o R(u)) = Finds(R(u))
        BY <2>2, <3>1, FindsForms
      <4> QED BY <2>2, <3>1, <4>1
    <3>3. Len(u) < Len(t)
      <4>1. <<h>> \in Text /\ Len(<<h>>) = 1
        BY Attached
      <4>2. Len(t) = 1 + Len(u) /\ Len(u) \in Nat
        BY <2>2, <4>1, Behind
      <4> QED BY <4>2
    <3>4. AllWell(u)
      BY <3>2 DEF AllWell
    <3>5. Same(u)
      BY <2>0, <3>3, <3>4
    <3> QED BY <3>2, <3>5 DEF Same, AllWell
  <2>3. ASSUME NEW m \in Text, NEW y \in Text, Without(m, {"q"}), t = Enclosed(m) \o y
        PROVE  Same(t)
    <3>1. /\ Enclosed(m) \in Text /\ R(m) \in Text /\ R(y) \in Text
          /\ Without(R(m), {"q"})
          /\ R(Enclosed(m)) = Enclosed(R(m)) /\ R(t) = Enclosed(R(m)) \o R(y)
      BY <1>1, <1>2, <1>4, <2>3, EnclosedText
    <3>2. /\ Finds(t) = <<Enclosed(m)>> \o Finds(y)
          /\ Finds(R(t)) = <<R(Enclosed(m))>> \o Finds(R(y))
      <4>1. Finds(Enclosed(m) \o y) = <<Enclosed(m)>> \o Finds(y)
        BY <2>3, FindsForms
      <4>2. Finds(Enclosed(R(m)) \o R(y)) = <<Enclosed(R(m))>> \o Finds(R(y))
        BY <3>1, FindsForms
      <4> QED BY <2>3, <3>1, <4>1, <4>2
    <3>3. Len(y) < Len(t)
      <4>1. Len(Enclosed(m)) = Len(m) + 2 /\ Len(m) \in Nat /\ Len(y) \in Nat
        BY EnclosedText, Behind
      <4>2. Len(t) = Len(Enclosed(m)) + Len(y)
        BY <2>3, <3>1, Behind
      <4> QED BY <4>1, <4>2
    <3>4. AllWell(y)
      BY <3>1, <3>2, AllWellForms
    <3>5. Well(R(Enclosed(m)))
      BY <3>1 DEF Well
    <3>6. Same(y)
      BY <2>0, <3>3, <3>4
    <3> QED BY <1>6, <3>1, <3>2, <3>5, <3>6
  <2>4. ASSUME NEW x \in Text, NEW y \in Text, x # <<>>,
               Without(x, {"q"} \cup Blank), Without(x, {"q", "%"}),
               y = <<>> \/ y[1] \in Blank, t = x \o y
        PROVE  Same(t)
    <3>1. Without(x, {"%"}) /\ R(x) = x /\ R(y) \in Text
      BY <1>1, <1>3, <2>4 DEF Without, Hits
    <3>2. Apart(x, y, c)
      <4>1. Len(x) \in 1 .. Len(x)
        BY <2>4 DEF Text
      <4> QED BY <3>1, <4>1 DEF Apart, Without, Hits
    <3>3. R(t) = x \o R(y)
      BY <1>5, <2>4, <3>1, <3>2
    <3>4. R(y) = <<>> \/ R(y)[1] \in Blank
      <4>1. CASE y = <<>>
        BY <1>1, <4>1
      <4>2. CASE y # <<>>
        <5>1. PICK h \in Characters, u \in Text : y = <<h>> \o u /\ h = y[1]
          BY <4>2, TextForms
        <5>2. R(y) = <<h>> \o R(u) /\ R(u) \in Text /\ h \in Blank
          BY <1>1, <2>4, <4>2, <5>1, Marks
        <5>3. <<h>> \in Text /\ <<h>>[1] = h /\ <<h>> # <<>>
          BY Attached
        <5> QED BY <5>2, <5>3, Outer
      <4> QED BY <4>1, <4>2
    <3>5. /\ Finds(t) = <<x>> \o Finds(y)
          /\ Finds(R(t)) = <<R(x)>> \o Finds(R(y))
      <4>1. Finds(x \o y) = <<x>> \o Finds(y)
        BY <2>4, FindsForms
      <4>2. Finds(x \o R(y)) = <<x>> \o Finds(R(y))
        BY <2>4, <3>1, <3>4, FindsForms
      <4> QED BY <2>4, <3>1, <3>3, <4>1, <4>2
    <3>6. Len(y) < Len(t)
      <4>1. Len(t) = Len(x) + Len(y) /\ Len(y) \in Nat /\ Len(x) \in Nat
        BY <2>4, Behind
      <4>2. Len(x) # 0
        BY <2>4 DEF Text
      <4> QED BY <4>1, <4>2
    <3>7. AllWell(y)
      BY <3>5, AllWellForms
    <3>8. Well(R(x))
      BY <2>4, <3>1 DEF Well
    <3>9. Same(y)
      BY <2>0, <3>6, <3>7
    <3> QED BY <1>6, <3>5, <3>8, <3>9
  <2>5. ASSUME t # <<>>, t[1] \notin Blank PROVE Well(Token(t))
    <3>1. /\ Token(t) \in Text /\ AfterToken(t) \in Text
          /\ Finds(t) = <<Token(t)>> \o Finds(AfterToken(t))
      BY <2>5, TokenType, FindsSteps
    <3> QED BY <3>1, AllWellForms
  <2>6. CASE t # <<>>
    BY <2>2, <2>3, <2>4, <2>5, <2>6, WellForms, Zenon
  <2> QED BY <2>1, <2>6
<1>8. T = Text
  <2>1. T \in SUBSET Text
    OBVIOUS
  <2>2. \A t \in Text : (\A x \in Text : Len(x) < Len(t) => x \in T) => t \in T
    BY <1>7, Zenon
  <2> HIDE DEF T
  <2> QED BY ONLY <2>1, <2>2, ByLength
<1> QED BY <1>8 DEF R, Same

\* A text without quotation marks stays as it is.
LEMMA UnquotedPlain ==
  ASSUME NEW x \in Text, Without(x, {"q"})
  PROVE  Unquoted(x) = x
<1> DEFINE K == Hits(x, {"q"})
<1>1. <<>> \in Text /\ Len(x) \in Nat /\ \A j \in 1 .. Len(x) : j \notin K
  BY DEF Text, Without
<1>2. PICK f : Edits(f, x, K, <<>>) /\ Edited(x, K, <<>>) = f[Len(x)]
  BY <1>1, EditedSteps
<1> HIDE DEF K
<1>3. f[0] = <<>> /\ \A j \in 1 .. Len(x) : f[j] = f[j - 1] \o <<x[j]>>
  BY <1>1, <1>2 DEF Edits
<1> DEFINE T == {n \in Nat : n <= Len(x) => f[n] = SubSeq(x, 1, n)}
<1>4. 0 \in T
  <2>1. SubSeq(x, 1, 0) = <<>>
    BY SubSeqEmpty
  <2> QED BY <1>3, <2>1
<1>5. ASSUME NEW n \in T PROVE n + 1 \in T
  <2> SUFFICES ASSUME n + 1 <= Len(x) PROVE f[n + 1] = SubSeq(x, 1, n + 1)
    OBVIOUS
  <2>1. n + 1 \in 1 .. Len(x) /\ (n + 1) - 1 = n /\ n <= Len(x)
    BY <1>1
  <2>2. f[n + 1] = SubSeq(x, 1, n) \o <<x[n + 1]>>
    BY <1>3, <2>1
  <2>3. SubSeq(x, 1, n + 1) = SubSeq(x, 1, (n + 1) - 1) \o <<x[n + 1]>>
    <3>1. 1 \in 1 .. Len(x) /\ n + 1 \in 1 .. Len(x)
      BY <1>1, <2>1
    <3> QED BY <3>1, SubSeqRecursiveSecond DEF Text
  <2> QED BY <2>1, <2>2, <2>3
<1>6. T = Nat
  <2>1. T \in SUBSET Nat
    OBVIOUS
  <2> HIDE DEF T
  <2> QED BY <1>4, <1>5, <2>1, Inductive
<1>7. f[Len(x)] = SubSeq(x, 1, Len(x))
  <2>1. Len(x) \in T
    BY <1>1, <1>6
  <2> QED BY <1>1, <2>1
<1> QED BY <1>2, <1>7, SubSeqFull DEF Unquoted, K, Text

\* One between two of them loses these.
LEMMA UnquotedEnclosed ==
  ASSUME NEW m \in Text, Without(m, {"q"})
  PROVE  Unquoted(Enclosed(m)) = m
<1> DEFINE a == Enclosed(m)
           K == Hits(a, {"q"})
<1>1. /\ a \in Text /\ Len(a) = Len(m) + 2 /\ Len(m) \in Nat
      /\ a[1] = "q" /\ a[Len(m) + 2] = "q"
      /\ \A i \in 1 .. Len(m) : a[1 + i] = m[i]
      /\ \A i \in 1 .. Len(m) : m[i] # "q"
  BY EnclosedText DEF Without, Hits
<1> HIDE DEF a
<1>2. /\ 1 \in K /\ Len(m) + 2 \in K
      /\ \A i \in 1 .. Len(m) : 1 + i \notin K
  BY <1>1 DEF Hits
<1>3. <<>> \in Text
  BY DEF Text
<1> HIDE DEF K
<1>4. PICK f : Edits(f, a, K, <<>>) /\ Edited(a, K, <<>>) = f[Len(a)]
  <2>1. a \in Text
    BY <1>1
  <2> QED BY ONLY <1>3, <2>1, EditedSteps
<1>5. f[0] = <<>> /\ \A j \in 1 .. Len(a) :
        f[j] = f[j - 1] \o (IF j \in K THEN <<>> ELSE <<a[j]>>)
  BY <1>4 DEF Edits
<1> DEFINE T == {n \in Nat : n <= Len(m) => f[1 + n] = SubSeq(m, 1, n)}
<1>6. 0 \in T
  <2>1. 1 \in 1 .. Len(a) /\ 1 - 1 = 0 /\ 1 + 0 = 1
    BY <1>1
  <2>2. f[1] = <<>> \o <<>>
    BY <1>2, <1>5, <2>1
  <2>3. <<>> \o <<>> = <<>>
    BY Joined
  <2>4. SubSeq(m, 1, 0) = <<>>
    BY SubSeqEmpty
  <2> QED BY <2>1, <2>2, <2>3, <2>4
<1>7. ASSUME NEW n \in T PROVE n + 1 \in T
  <2> SUFFICES ASSUME n + 1 <= Len(m) PROVE f[1 + (n + 1)] = SubSeq(m, 1, n + 1)
    OBVIOUS
  <2>1. /\ n + 1 \in 1 .. Len(m) /\ (n + 1) - 1 = n /\ n <= Len(m)
        /\ 1 + (n + 1) \in 1 .. Len(a) /\ (1 + (n + 1)) - 1 = 1 + n
    BY <1>1
  <2>2. f[1 + (n + 1)] = SubSeq(m, 1, n) \o <<m[n + 1]>>
    <3>1. 1 + (n + 1) \notin K /\ a[1 + (n + 1)] = m[n + 1]
      BY <1>1, <1>2, <2>1
    <3>2. f[1 + (n + 1)] = f[1 + n] \o <<a[1 + (n + 1)]>>
      BY <1>5, <2>1, <3>1
    <3> QED BY <2>1, <3>1, <3>2
  <2>3. SubSeq(m, 1, n + 1) = SubSeq(m, 1, (n + 1) - 1) \o <<m[n + 1]>>
    <3>1. 1 \in 1 .. Len(m) /\ n + 1 \in 1 .. Len(m)
      BY <1>1, <2>1
    <3> QED BY <3>1, SubSeqRecursiveSecond DEF Text
  <2> QED BY <2>1, <2>2, <2>3
<1>8. T = Nat
  <2>1. T \in SUBSET Nat
    OBVIOUS
  <2> HIDE DEF T
  <2> QED BY <1>6, <1>7, <2>1, Inductive
<1>9. f[1 + Len(m)] = m
  <2>1. Len(m) \in T
    BY <1>1, <1>8
  <2> QED BY <1>1, <2>1, SubSeqFull DEF Text
<1>10. f[Len(m) + 2] = m \o <<>>
  <2>1. Len(m) + 2 \in 1 .. Len(a) /\ (Len(m) + 2) - 1 = 1 + Len(m)
    BY <1>1
  <2> QED BY <1>2, <1>5, <1>9, <2>1
<1>11. Edited(a, K, <<>>) = m
  BY <1>1, <1>4, <1>10, Joined
<1> QED BY <1>11 DEF Unquoted, K, a

\* For what is well quoted, replacing first and splitting then is the same as
\* splitting first and replacing in each argument then.
LEMMA ReplacedTokens ==
  ASSUME NEW c \in Characters \ ({"%", "q"} \cup Blank), NEW v \in Text,
         Rewritten(v) = v, Without(v, {"q"}), NEW t \in Text, AllWell(t)
  PROVE  /\ AllWell(Replaced(t, c, v)) /\ Replaced(t, c, v) \in Text
         /\ Len(Tokens(Replaced(t, c, v))) = Len(Tokens(t))
         /\ Len(Tokens(t)) \in Nat
         /\ \A j \in 1 .. Len(Tokens(t)) :
              Tokens(Replaced(t, c, v))[j] = Replaced(Tokens(t)[j], c, v)
<1> DEFINE R(x) == Replaced(x, c, v)
<1>1. /\ AllWell(R(t))
      /\ Len(Finds(R(t))) = Len(Finds(t))
      /\ \A j \in 1 .. Len(Finds(t)) : Finds(R(t))[j] = R(Finds(t)[j])
  BY ReplacedFinds
<1>2. R(t) \in Text
  BY ReplacedForms
<1>3. ASSUME NEW a \in Text, Well(a)
      PROVE  Unquoted(R(a)) = R(Unquoted(a))
  <2>1. ASSUME NEW m \in Text, Without(m, {"q"}), a = Enclosed(m)
        PROVE  Unquoted(R(a)) = R(Unquoted(a))
    <3>1. R(a) = Enclosed(R(m)) /\ R(m) \in Text /\ Without(R(m), {"q"})
      <4>1. R(Enclosed(m)) = Enclosed(R(m))
        BY ReplacedEnclosed
      <4>2. R(m) \in Text
        BY ReplacedForms
      <4>3. Without(R(m), {"q"})
        BY <2>1, ReplacedWithout
      <4> QED BY <2>1, <4>1, <4>2, <4>3
    <3> QED BY <2>1, <3>1, UnquotedEnclosed
  <2>2. ASSUME Without(a, {"q", "%"})
        PROVE  Unquoted(R(a)) = R(Unquoted(a))
    <3>1. Without(a, {"q"}) /\ Without(a, {"%"})
      BY <2>2 DEF Without, Hits
    <3>2. R(a) = a /\ Unquoted(a) = a
      BY <3>1, ReplacedAlone, UnquotedPlain
    <3> QED BY <3>2
  <2> QED BY <1>3, <2>1, <2>2 DEF Well
<1>4. Finds(t) \in Seq(Text) /\ Finds(R(t)) \in Seq(Text)
  BY <1>2, FindsForms
<1> HIDE DEF R
<1>5. \A x \in Text : Finds(x) \in Seq(Text) =>
        /\ Len(Tokens(x)) = Len(Finds(x))
        /\ \A j \in 1 .. Len(Finds(x)) : Tokens(x)[j] = Unquoted(Finds(x)[j])
  BY DEF Tokens
<1>6. /\ Len(Tokens(t)) = Len(Finds(t)) /\ Len(Tokens(R(t))) = Len(Finds(t))
      /\ \A j \in 1 .. Len(Finds(t)) : /\ Tokens(t)[j] = Unquoted(Finds(t)[j])
                                       /\ Tokens(R(t))[j] = Unquoted(R(Finds(t)[j]))
  BY <1>1, <1>2, <1>4, <1>5
<1>7. \A j \in 1 .. Len(Finds(t)) : Finds(t)[j] \in Text /\ Well(Finds(t)[j])
  BY <1>4 DEF AllWell
<1>8. \A j \in 1 .. Len(Finds(t)) : Tokens(R(t))[j] = R(Tokens(t)[j])
  BY <1>3, <1>6, <1>7
<1> QED BY <1>1, <1>2, <1>4, <1>6, <1>8 DEF R

\* The three sequences, in the order of the code.
AllReplaced(x, path, name, ttl) ==
  Replaced(Replaced(Replaced(x, "f", path), "n", name), "t", ttl)

\* The letters of the three sequences are none of the characters that count.
LEMMA Letters ==
  /\ "f" \in Characters \ ({"%", "q"} \cup Blank)
  /\ "n" \in Characters \ ({"%", "q"} \cup Blank)
  /\ "t" \in Characters \ ({"%", "q"} \cup Blank)
  /\ "f" # "n" /\ "f" # "t" /\ "n" # "t"
<1>1. "f" \in Characters /\ "n" \in Characters /\ "t" \in Characters
  BY Zenon DEF Characters
<1>2. "f" \notin Blank /\ "n" \notin Blank /\ "t" \notin Blank
  BY Zenon DEF Blank
<1> QED BY <1>1, <1>2

\* A clean text stands for itself, and ends no token.
LEMMA CleanText ==
  ASSUME NEW v \in Text, Clean(v)
  PROVE  Rewritten(v) = v /\ Without(v, {"q"})
<1>1. Without(v, {"q"}) /\ Hits(v, {"\\"}) = {}
  BY DEF Clean, Without, Hits
<1> QED BY <1>1, RewrittenClean

\* The arguments are those of the command as it is written, in each of which the
\* sequences are replaced.
LEMMA TokensReplaced ==
  ASSUME NEW e \in Text, WellQuoted(e),
         NEW path \in Text, NEW name \in Text, NEW ttl \in Text,
         Clean(path), Clean(name), Clean(ttl)
  PROVE  Tokens(AllReplaced(e, path, name, ttl))
         = [j \in 1 .. Len(Tokens(e)) |-> AllReplaced(Tokens(e)[j], path, name, ttl)]
<1> DEFINE e1 == Replaced(e, "f", path)
           e2 == Replaced(e1, "n", name)
           e3 == Replaced(e2, "t", ttl)
<1>1. AllWell(e)
  BY WellQuotedIsWell
<1>2. /\ AllWell(e1) /\ e1 \in Text
      /\ Len(Tokens(e1)) = Len(Tokens(e))
      /\ \A j \in 1 .. Len(Tokens(e)) : Tokens(e1)[j] = Replaced(Tokens(e)[j], "f", path)
  BY <1>1, Letters, CleanText, ReplacedTokens
<1> HIDE DEF e1
<1>3. /\ AllWell(e2) /\ e2 \in Text
      /\ Len(Tokens(e2)) = Len(Tokens(e1))
      /\ \A j \in 1 .. Len(Tokens(e1)) : Tokens(e2)[j] = Replaced(Tokens(e1)[j], "n", name)
  BY <1>2, Letters, CleanText, ReplacedTokens
<1> HIDE DEF e2
<1>4. /\ e3 \in Text
      /\ Len(Tokens(e3)) = Len(Tokens(e2))
      /\ \A j \in 1 .. Len(Tokens(e2)) : Tokens(e3)[j] = Replaced(Tokens(e2)[j], "t", ttl)
  BY <1>3, Letters, CleanText, ReplacedTokens
<1> HIDE DEF e3
<1>5. Tokens(e3) \in Seq(Text) /\ Tokens(e) \in Seq(Text)
  BY <1>4, TokensType
<1>6. \A j \in 1 .. Len(Tokens(e)) :
        Tokens(e3)[j] = Replaced(Replaced(Replaced(Tokens(e)[j], "f", path), "n", name), "t", ttl)
  BY <1>2, <1>3, <1>4
<1>7. Len(Tokens(e3)) = Len(Tokens(e))
  BY <1>2, <1>3, <1>4
<1>8. Tokens(e3) = [j \in 1 .. Len(Tokens(e)) |-> AllReplaced(Tokens(e)[j], path, name, ttl)]
  BY <1>5, <1>6, <1>7 DEF AllReplaced
<1> QED BY <1>8 DEF AllReplaced, e1, e2, e3

\* An argument that is nothing but a sequence is what the sequence stands for.
LEMMA SequencesMean ==
  ASSUME NEW path \in Text, NEW name \in Text, NEW ttl \in Text,
         Clean(path), Clean(name), Clean(ttl),
         Without(path, {"%"}), Without(name, {"%"})
  PROVE  /\ AllReplaced(<<"%", "f">>, path, name, ttl) = path
         /\ AllReplaced(<<"%", "n">>, path, name, ttl) = name
         /\ AllReplaced(<<"%", "t">>, path, name, ttl) = ttl
<1>1. \A d \in Characters : <<"%", d>> = <<"%">> \o <<d>> /\ <<d>> \in Text
                            /\ <<d>>[1] = d /\ <<d>> \o <<>> = <<d>>
  BY DEF Text
<1>2. ASSUME NEW c \in Characters \ {"%"}, NEW v \in Text, Clean(v)
      PROVE  Replaced(<<"%", c>>, c, v) = v
  <2>1. Rewritten(v) = v
    BY <1>2, CleanText
  <2>2. Replaced(<<"%">> \o (<<c>> \o <<>>), c, v) = Rewritten(v) \o Replaced(<<>>, c, v)
    BY ReplacedForms, Joined
  <2>3. Replaced(<<>>, c, v) = <<>> /\ v \o <<>> = v
    BY ReplacedForms, Joined
  <2> QED BY <1>1, <2>1, <2>2, <2>3
<1>3. ASSUME NEW c \in Characters \ {"%"}, NEW v \in Text,
             NEW d \in Characters \ {"%"}, d # c
      PROVE  Replaced(<<"%", d>>, c, v) = <<"%", d>>
  <2>1. <<d>> \in Text /\ <<d>>[1] = d
    BY <1>1
  <2>2. Replaced(<<d>>, c, v) = <<d>>
    <3>1. Without(<<d>>, {"%"})
      BY <1>3, WithoutJoined
    <3> QED BY <2>1, <3>1, ReplacedAlone
  <2>3. Replaced(<<"%">> \o <<d>>, c, v) = <<"%">> \o Replaced(<<d>>, c, v)
    <3>1. \A h \in Characters, u \in Text :
            h # "%" \/ u = <<>> \/ u[1] # c
            => Replaced(<<h>> \o u, c, v) = <<h>> \o Replaced(u, c, v)
      BY ReplacedForms
    <3> QED BY <1>3, <2>1, <3>1, Marks
  <2> QED BY <1>1, <2>2, <2>3
<1>4. ASSUME NEW c \in Characters \ {"%"}, NEW v \in Text, NEW x \in Text, Without(x, {"%"})
      PROVE  Replaced(x, c, v) = x
  BY <1>4, ReplacedAlone
<1>5. "f" \in Characters \ {"%"} /\ "n" \in Characters \ {"%"} /\ "t" \in Characters \ {"%"}
  BY Letters
<1>6. AllReplaced(<<"%", "f">>, path, name, ttl) = path
  <2>1. Replaced(<<"%", "f">>, "f", path) = path
    BY <1>2, <1>5
  <2>2. Replaced(path, "n", name) = path /\ Replaced(path, "t", ttl) = path
    BY <1>4, <1>5
  <2> QED BY <2>1, <2>2 DEF AllReplaced
<1>7. AllReplaced(<<"%", "n">>, path, name, ttl) = name
  <2>1. Replaced(<<"%", "n">>, "f", path) = <<"%", "n">>
    BY <1>3, <1>5, Letters
  <2>2. Replaced(<<"%", "n">>, "n", name) = name
    BY <1>2, <1>5
  <2>3. Replaced(name, "t", ttl) = name
    BY <1>4, <1>5
  <2> QED BY <2>1, <2>2, <2>3 DEF AllReplaced
<1>8. AllReplaced(<<"%", "t">>, path, name, ttl) = ttl
  <2>1. Replaced(<<"%", "t">>, "f", path) = <<"%", "t">>
    BY <1>3, <1>5, Letters
  <2>2. Replaced(<<"%", "t">>, "n", name) = <<"%", "t">>
    BY <1>3, <1>5, Letters
  <2>3. Replaced(<<"%", "t">>, "t", ttl) = ttl
    BY <1>2, <1>5
  <2> QED BY <2>1, <2>2, <2>3 DEF AllReplaced
<1> QED BY <1>6, <1>7, <1>8

\* The inductive invariant: what is about to be executed is what tokenize has
\* made of the command at hand.
ArgumentsInv ==
  /\ ExecTyped
  /\ at # "title" => file.path = OutputDir \o file.name
  /\ at = "fork" => args = Tokens(AllReplaced(execs[k], file.path, file.name, title))

\* Nothing is about to be executed at first.
LEMMA ArgumentsStart == ExecInit => ArgumentsInv
BY ExecTypedStarts DEF ExecInit, ArgumentsInv

\* Tokenize makes the arguments, and they stay until they are executed.
LEMMA ArgumentsStep ==
  ASSUME ArgumentsInv, [ExecNext]_execvars
  PROVE  ArgumentsInv'
<1>0. ExecTyped'
  BY ExecTypedSteps DEF ArgumentsInv
<1> USE DEF ArgumentsInv
<1>1. CASE UNCHANGED ownvars /\ at # "fork"
  BY <1>0, <1>1 DEF ownvars
<1>2. CASE UNCHANGED execvars
  BY <1>0, <1>2 DEF execvars, ownvars, titlevars
<1>3. CASE Called
  BY <1>0, <1>3 DEF Called
<1>4. CASE Tokenize
  <2>1. /\ args' = Tokens(AllReplaced(execs[k], file.path, file.name, title))
        /\ UNCHANGED <<execs, file, k, title>> /\ at # "title"
    BY <1>4 DEF Tokenize, AllReplaced, titlevars
  <2> QED BY <1>0, <2>1
<1>5. CASE NoCommand
  BY <1>0, <1>5 DEF NoCommand
<1>6. CASE Fork
  BY <1>0, <1>6 DEF Fork
<1>7. CASE ForkFails
  BY <1>0, <1>7 DEF ForkFails
<1>8. CASE Reap
  BY <1>0, <1>8 DEF Reap, Proceed
<1>9. CASE Return
  BY <1>0, <1>9 DEF Return
<1>10. CASE ChildEnds
  BY <1>0, <1>10 DEF ChildEnds, titlevars
<1> QED
  BY <1>1, <1>2, <1>3, <1>4, <1>5, <1>6, <1>7, <1>8, <1>9, <1>10
  DEF ExecNext, Step, TitleStep, Interrupted, Ended

\* A command line whose sequences are all between quotation marks has the
\* arguments that it seems to have (exec.cpp, exec and tokenize), however long it
\* is and whatever is in it: no title makes an argument of its own, or is looked
\* through for another sequence, unless there are quotation marks in it.
THEOREM ArgumentsWritten == ExecSpec => []ArgumentsAsWritten
<1>1. ASSUME ArgumentsInv PROVE ArgumentsAsWritten
  <2> SUFFICES ASSUME at = "fork", Clean(title), Clean(file.path),
                      Hits(file.path, {"%"}) = {}, WellQuoted(execs[k])
               PROVE  args = [j \in 1 .. Len(Tokens(execs[k])) |-> Meaning(Tokens(execs[k])[j])]
    BY Zenon DEF ArgumentsAsWritten
  <2>1. /\ file.path \in Text /\ file.name \in Text /\ title \in Text /\ execs[k] \in Text
        /\ file.path = OutputDir \o file.name
        /\ args = Tokens(AllReplaced(execs[k], file.path, file.name, title))
    <3>1. at # "title" /\ ExecTyped
      BY <1>1 DEF ArgumentsInv
    <3>2. execs \in Seq(Text) /\ k \in 1 .. Len(execs)
      BY <3>1, ExecAssumption DEF ExecTyped, ExecInv, ExecAssumption, Text
    <3>3. file \in [path : Text, name : Text] /\ title \in Text
      BY <3>1, TitleAssumption DEF ExecTyped, ExecTypeOK, TitleTypeOK, TitleAssumption, Text
    <3> QED BY <1>1, <3>1, <3>2, <3>3 DEF ArgumentsInv
  <2>2. OutputDir \in Text
    BY ExecAssumption DEF ExecAssumption, Text
  <2>3. /\ Clean(file.name) /\ Without(file.path, {"%"}) /\ Without(file.name, {"%"})
    <3>1. Without(file.path, {"q", "\\"}) /\ Without(file.path, {"%"})
      BY DEF Clean, Without
    <3>2. Without(file.name, {"q", "\\"}) /\ Without(file.name, {"%"})
      <4>1. \A X : Without(OutputDir \o file.name, X) => Without(file.name, X)
        BY <2>1, <2>2, WithoutJoined
      <4> QED BY <2>1, <3>1, <4>1
    <3> QED BY <3>1, <3>2 DEF Clean, Without
  <2>4. args = [j \in 1 .. Len(Tokens(execs[k])) |->
                  AllReplaced(Tokens(execs[k])[j], file.path, file.name, title)]
    <3>1. \A e, path, name, ttl \in Text :
            WellQuoted(e) /\ Clean(path) /\ Clean(name) /\ Clean(ttl) =>
              Tokens(AllReplaced(e, path, name, ttl))
              = [j \in 1 .. Len(Tokens(e)) |-> AllReplaced(Tokens(e)[j], path, name, ttl)]
      BY TokensReplaced
    <3> QED BY <2>1, <2>3, <3>1
  <2>5. /\ AllReplaced(<<"%", "f">>, file.path, file.name, title) = file.path
        /\ AllReplaced(<<"%", "n">>, file.path, file.name, title) = file.name
        /\ AllReplaced(<<"%", "t">>, file.path, file.name, title) = title
    <3>1. \A path, name, ttl \in Text :
            /\ Clean(path) /\ Clean(name) /\ Clean(ttl)
            /\ Without(path, {"%"}) /\ Without(name, {"%"})
            => /\ AllReplaced(<<"%", "f">>, path, name, ttl) = path
               /\ AllReplaced(<<"%", "n">>, path, name, ttl) = name
               /\ AllReplaced(<<"%", "t">>, path, name, ttl) = ttl
      BY SequencesMean
    <3>2. /\ file.path \in Text /\ file.name \in Text /\ title \in Text
          /\ Clean(file.path) /\ Clean(file.name) /\ Clean(title)
          /\ Without(file.path, {"%"}) /\ Without(file.name, {"%"})
      BY <2>1, <2>3
    <3> QED BY ONLY <3>1, <3>2
  <2>6. \A a : Meaning(a) = AllReplaced(a, file.path, file.name, title)
    BY <2>5 DEF Meaning, Replacing, AllReplaced
  <2> QED BY <2>4, <2>6
<1> QED BY <1>1, ArgumentsStart, ArgumentsStep, PTL DEF ExecSpec

=============================================================================
