-------------------------------- MODULE Exec --------------------------------
(***************************************************************************)
(* cc::exec: the commands of --exec, one after the other, on a media that  *)
(* is there.  What the command line says of the file and its title is      *)
(* replaced, the result is split into arguments, and a child executes it   *)
(* while cclive waits.  waitpid returns early when one of the signals that *)
(* cclive handles (SIGUSR1, SIGWINCH) comes.  The name of the file is that *)
(* of module Title, which runs first.                                      *)
(***************************************************************************)
EXTENDS Title

CONSTANTS
  ExecLists,   \* the lists of --exec under study: sequences of texts
  OutputDir    \* --output-dir, with the separator

ASSUME ExecAssumption ==
  /\ ExecLists \subseteq Seq(Seq(Characters))
  /\ OutputDir \in Seq(Characters)

VARIABLES
  execs,     \* --exec; never changes
  file,      \* file.path() and file.name()
  k,         \* the command at hand, 0 before the first
  args,      \* its arguments
  at,        \* title, command, fork, wait, then returned, threw, or crashed
  children   \* [1 .. k -> running, zombie, reaped, or none (never forked)]

ownvars == <<execs, file, k, args, at, children>>
execvars == <<titlevars, ownvars>>

ExecInit ==
  /\ TitleInit
  /\ execs \in ExecLists
  /\ file = [path |-> <<>>, name |-> <<>>]
  /\ k = 0
  /\ args = <<>>
  /\ at = "title"
  /\ children = [j \in 1 .. Len(execs) |-> "none"]

-----------------------------------------------------------------------------
(* Texts.                                                                  *)

Unquoted(text) == Edited(text, Hits(text, {"q"}), <<>>)

\* Where the token ends that begins a text, the first character of which is no
\* white space: at the next quotation mark if the first is one and there is a
\* next, or before the white space.
TokenEnd(text) ==
  LET marks == Hits(text, {"q"}) \ {1}
  IN  IF text[1] = "q" /\ marks # {} THEN First(marks)
      ELSE First({j - 1 : j \in Hits(text, Blank)} \cup {Len(text)})

\* What FindAndConsume finds, one after the other.
Finds(text) ==
  LET of[t \in Seq(Characters)] ==
        IF t = <<>> THEN <<>>
        ELSE IF t[1] \in Blank THEN of[SubSeq(t, 2, Len(t))]
        ELSE <<SubSeq(t, 1, TokenEnd(t))>> \o of[SubSeq(t, TokenEnd(t) + 1, Len(t))]
  IN  of[text]

\* tokenize.  An empty pair of quotation marks is an argument, no text is none.
Tokens(text) ==
  LET finds == Finds(text)
  IN  [j \in 1 .. Len(finds) |-> Unquoted(finds[j])]

-----------------------------------------------------------------------------
(* The steps of cc::exec and invoke_exec.                                  *)

TitleStep == at = "title" /\ TitleNext /\ UNCHANGED ownvars

Called ==
  /\ at = "title" /\ now = "named"
  /\ at' = "command"
  /\ \E n \in {Name} : file' = [path |-> OutputDir \o n, name |-> n]
  /\ k' = 1
  /\ UNCHANGED <<titlevars, execs, args, children>>

\* %f, %n, %t, in this order: what one puts in is looked through for the next.
\* Mutation: the title first.
Tokenize_TitleFirst ==
  /\ at = "command" /\ k <= Len(execs)
  /\ \E e1 \in {Replaced(execs[k], "t", title)} :
       \E e2 \in {Replaced(e1, "f", file.path)} :
         \E e3 \in {Replaced(e2, "n", file.name)} : args' = Tokens(e3)
  /\ at' = "fork"
  /\ UNCHANGED <<titlevars, execs, file, k, children>>

Tokenize ==
  /\ at = "command" /\ k <= Len(execs)
  /\ \E e1 \in {Replaced(execs[k], "f", file.path)} :
       \E e2 \in {Replaced(e1, "n", file.name)} :
         \E e3 \in {Replaced(e2, "t", title)} : args' = Tokens(e3)
  /\ at' = "fork"
  /\ UNCHANGED <<titlevars, execs, file, k, children>>

\* There is no args[0]: a null pointer is read.
NoCommand ==
  /\ at = "fork" /\ args = <<>>
  /\ at' = "crashed"
  /\ UNCHANGED <<titlevars, execs, file, k, args, children>>

Fork ==
  /\ at = "fork" /\ args # <<>>
  /\ children' = [children EXCEPT ![k] = "running"]
  /\ at' = "wait"
  /\ UNCHANGED <<titlevars, execs, file, k, args>>

\* The commands that follow are not executed.
ForkFails ==
  /\ at = "fork" /\ args # <<>>
  /\ at' = "threw"
  /\ UNCHANGED <<titlevars, execs, file, k, args, children>>

\* The command ends, by itself or by a signal; or it could not be executed, and
\* the child exits with 1.
ChildEnds ==
  \E j \in DOMAIN children :
    /\ children[j] = "running"
    /\ children' = [children EXCEPT ![j] = "zombie"]
    /\ UNCHANGED <<titlevars, execs, file, k, args, at>>

\* Mutation: the iterator is advanced by the body of the loop as well.
Proceed_Twice == at' = "command" /\ k' = k + 2

Proceed == at' = "command" /\ k' = k + 1

\* waitpid returns the child; or, if cclive was started with SIGCHLD ignored,
\* fails, but not before the child has ended.  The status is not looked at.
Reap ==
  /\ at = "wait" /\ children[k] = "zombie"
  /\ children' = [children EXCEPT ![k] = "reaped"]
  /\ Proceed
  /\ UNCHANGED <<titlevars, execs, file, args>>

\* Mutation: waitpid is called once.
Interrupted_GivesUp ==
  /\ at = "wait" /\ children[k] = "running"
  /\ Proceed
  /\ UNCHANGED <<titlevars, execs, file, args, children>>

\* A signal has come: waitpid fails with EINTR and is called again.
Interrupted ==
  /\ at = "wait" /\ children[k] = "running"
  /\ UNCHANGED execvars

Return ==
  /\ at = "command" /\ k > Len(execs)
  /\ at' = "returned"
  /\ UNCHANGED <<titlevars, execs, file, k, args, children>>

Ended == at \in {"returned", "threw", "crashed"} /\ UNCHANGED execvars

Step == TitleStep \/ Called \/ Tokenize \/ NoCommand \/ Fork \/ ForkFails
        \/ Reap \/ Return

ExecNext == Step \/ ChildEnds \/ Interrupted \/ Ended

ExecSpec == ExecInit /\ [][ExecNext]_execvars

\* One thread; the commands are taken to come to an end.
FairExecSpec ==
  ExecSpec /\ WF_execvars(Step) /\ WF_execvars(ChildEnds)

-----------------------------------------------------------------------------
(* Properties.                                                             *)

\* The type invariant.
ExecTypeOK ==
  /\ TitleTypeOK
  /\ execs \in ExecLists
  /\ file \in [path : Seq(Characters), name : Seq(Characters)]
  /\ k \in 0 .. (Len(execs) + 1)
  /\ args \in Seq(Seq(Characters))
  /\ at \in {"title", "command", "fork", "wait", "returned", "threw",
             "crashed"}
  /\ children \in [1 .. Len(execs) -> {"none", "running", "zombie", "reaped"}]

\* The commands are executed in the order given and each has ended, and has
\* been waited for, before the next one starts and before cc::exec returns,
\* whichever signals come.
OneAfterAnother ==
  \A j \in DOMAIN children :
    /\ children[j] # "none" => \A h \in 1 .. (j - 1) : children[h] = "reaped"
    /\ at = "returned" => children[j] = "reaped"

\* A command line whose sequences are all between quotation marks has the
\* arguments that it seems to have: the sequences in them stand for the path,
\* the name and the title, and one that is nothing but a sequence is that,
\* whatever is in the title, even the sequences themselves, as long as there is
\* no quotation mark or backslash in it and no "%" in the name.
Clean(text) == Hits(text, {"q", "\\"}) = {}
Quoted(a) == Len(a) > 1 /\ a[1] = "q" /\ a[Len(a)] = "q"
WellQuoted(e) ==
  LET finds == Finds(e) IN
  \A j \in 1 .. Len(finds) :
    Quoted(finds[j]) \/ Hits(finds[j], {"q", "%"}) = {}
Replacing(a) ==
  Replaced(Replaced(Replaced(a, "f", file.path), "n", file.name), "t", title)
Meaning(a) == CASE a = <<"%", "f">> -> file.path
                [] a = <<"%", "n">> -> file.name
                [] a = <<"%", "t">> -> title
                [] OTHER -> Replacing(a)
ArgumentsAsWritten ==
  at = "fork" /\ Clean(title) /\ Clean(file.path) /\ Hits(file.path, {"%"}) = {}
              /\ WellQuoted(execs[k]) =>
    LET tokens == Tokens(execs[k])
    IN  args = [j \in 1 .. Len(tokens) |-> Meaning(tokens[j])]

\* cc::exec, and what precedes it, comes to its end if its commands do: unless
\* a pattern with the flag "g" also matches no text at all.
EndlessFind == now = "find" /\ Tr.many
ExecEnds == <>(at \in {"returned", "threw", "crashed"} \/ EndlessFind)
=============================================================================
