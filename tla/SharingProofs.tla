--------------------------- MODULE SharingProofs ---------------------------
(***************************************************************************)
(* Theorems about several cclive at work in one directory, for any number  *)
(* of processes, files, media and attempts.                                *)
(***************************************************************************)
EXTENDS Sharing, TLAPS

Contents == Seq((Media \cup {Other}) \X Nat)

NoOverwrite == \A p \in Processes : ~job[p].vm.overwrite

\* Without --overwrite a process that has settled on a file that held something
\* at first knows at least the length it had.
LengthsKnown ==
  NoOverwrite =>
    \A p \in Processes :
      Working(p) => files[p].initial >= Len(beginning[files[p].path])

SharingInv == SharingTypeOK /\ NothingLost /\ LengthsKnown

\* The types that do not depend on the step.
LEMMA Fixed ==
  ASSUME SharingTypeOK, NEW p \in Processes
  PROVE  /\ job[p].vm.overwrite \in BOOLEAN /\ job[p].media \in Media
         /\ files[p].path \in ThePaths /\ files[p].initial \in Nat
         /\ disk[files[p].path] \in Contents
         /\ xfer[p].source \in Media \cup {Other}
         /\ xfer[p].got \in Nat /\ xfer[p].offset \in Nat
  BY SharingAssumption DEF SharingAssumption, SharingTypeOK, Contents

\* Writing one byte at or below the first free position.
LEMMA WriteAtType ==
  ASSUME NEW f \in Contents, NEW j \in Nat \ {0},
         NEW b \in (Media \cup {Other}) \X Nat
  PROVE  /\ WriteAt(f, j, b) \in Contents
         /\ j = Len(f) + 1 => IsPrefixOf(f, WriteAt(f, j, b))
<1> DEFINE n == Max2(Len(f), j)
<1>1. n \in Nat /\ n >= j /\ n >= Len(f) /\ Len(f) \in Nat
  BY DEF Max2, Contents
<1>2. Zero \in (Media \cup {Other}) \X Nat
  BY DEF Zero
<1>3. \A h \in 1 .. Len(f) : f[h] \in (Media \cup {Other}) \X Nat
  BY DEF Contents
<1>4. WriteAt(f, j, b) = [h \in 1 .. n |-> IF h = j THEN b
                             ELSE IF h <= Len(f) THEN f[h] ELSE Zero]
  BY DEF WriteAt
<1>5. WriteAt(f, j, b) \in Contents /\ Len(WriteAt(f, j, b)) = n
  <2> HIDE DEF n
  <2>1. WriteAt(f, j, b) \in [1 .. n -> (Media \cup {Other}) \X Nat]
    BY <1>1, <1>2, <1>3, <1>4
  <2> QED BY <1>1, <2>1 DEF Contents
<1>6. ASSUME j = Len(f) + 1 PROVE IsPrefixOf(f, WriteAt(f, j, b))
  <2>1. \A h \in 1 .. Len(f) : WriteAt(f, j, b)[h] = f[h]
    <3> HIDE DEF n
    <3> QED BY <1>1, <1>4, <1>6
  <2> QED BY <1>1, <1>5, <2>1 DEF IsPrefixOf
<1> QED BY <1>5, <1>6

\* What survives two steps one after the other survives both.
LEMMA PrefixTransitive ==
  ASSUME NEW f \in Contents, NEW g \in Contents, NEW h \in Contents,
         IsPrefixOf(f, g), IsPrefixOf(g, h)
  PROVE  IsPrefixOf(f, h)
  BY DEF IsPrefixOf, Contents

\* The three parts for one file.
LEMMA Lossless ==
  ASSUME SharingInv, NoOverwrite, NEW x \in ThePaths
  PROVE  IsPrefixOf(beginning[x], disk[x])
  BY DEF SharingInv, NothingLost, NoOverwrite

\* What the directory held at first is a file.
LEMMA BeginningType ==
  ASSUME SharingTypeOK, NEW x \in ThePaths
  PROVE  beginning[x] \in Contents
  BY SharingAssumption DEF SharingAssumption, SharingTypeOK, Contents

\* A step that leaves the files and what is known of them alone.
LEMMA Frame ==
  ASSUME SharingInv, SharingTypeOK',
         UNCHANGED <<disk, job, beginning, files>>,
         \A q \in Processes : Working(q)' => Working(q)
  PROVE  SharingInv'
  BY DEF SharingInv, NothingLost, LengthsKnown, NoOverwrite

\* The steps that neither choose a file nor change one.
LEMMA OtherSteps ==
  ASSUME SharingInv, NEW p \in Processes,
         Start(p) \/ Reply(p) \/ Succeed(p) \/ Fail(p) \/ Kill(p)
  PROVE  SharingInv'
<1>1. UNCHANGED <<disk, job, beginning, files, attempts, overlap>>
  BY DEF Start, Reply, Succeed, Fail, Kill, fixed
<1>2. \E place \in Places :
        /\ at' = [at EXCEPT ![p] = place]
        /\ place \in {"open", "request", "body"} => Working(p)
  BY DEF Start, Reply, Succeed, Fail, Kill, Goto, Places, Working
<1>3. xfer' \in [Processes -> [source : Media \cup {Other}, got : Nat,
                              offset : Nat]]
  <2>1. CASE UNCHANGED xfer
    BY <2>1 DEF SharingInv, SharingTypeOK
  <2>2. CASE Reply(p)
    <3>1. PICK s \in {job[p].media} \cup (IF Appends(p) THEN {} ELSE {Other}) :
            xfer' = [xfer EXCEPT ![p].source = s]
      BY <2>2 DEF Reply
    <3>2. s \in Media \cup {Other}
      BY Fixed DEF SharingInv
    <3> QED BY <3>1, <3>2 DEF SharingInv, SharingTypeOK
  <2> QED BY <2>1, <2>2 DEF Start, Succeed, Fail, Kill
<1>4. SharingTypeOK'
  BY <1>1, <1>2, <1>3 DEF SharingInv, SharingTypeOK
<1>5. \A q \in Processes : Working(q)' => Working(q)
  BY <1>2 DEF Working, SharingInv, SharingTypeOK
<1> QED BY <1>1, <1>4, <1>5, Frame

\* cc::file's constructor measures a file whose beginning is there.
LEMMA ConstructStep ==
  ASSUME SharingInv, NEW p \in Processes, Construct(p)
  PROVE  SharingInv'
<1>1. PICK x \in ThePaths :
        /\ files' = [files EXCEPT ![p] = P(p)!FileAt(x)]
        /\ Goto(p, IF P(p)!NothingTodo(x) THEN "complete" ELSE "open")
        /\ overlap' = (overlap \/ (~P(p)!NothingTodo(x) /\
                                   \E q \in Processes \ {p} : Working(q)))
  BY DEF Construct
<1>2. /\ attempts' = [attempts EXCEPT ![p] = @ + 1] /\ attempts[p] < MaxAttempts
      /\ UNCHANGED <<disk, job, beginning, xfer>>
  BY DEF Construct, fixed
<1>3. /\ P(p)!FileAt(x) = [path |-> x,
                           initial |-> IF job[p].vm.overwrite THEN 0
                                       ELSE Len(disk[x]),
                           nothing_todo |-> P(p)!NothingTodo(x)]
      /\ P(p)!NothingTodo(x) \in BOOLEAN
  BY DEF P!FileAt, P!InitialLength, P!exists, P!NothingTodo
<1> DEFINE done == P(p)!NothingTodo(x)
           place == IF done THEN "complete" ELSE "open"
<1>4. at' = [at EXCEPT ![p] = place] /\ place \in Places
  BY <1>1 DEF Goto, Places
<1> HIDE DEF done, place
<1>5. P(p)!FileAt(x) \in [path : ThePaths, initial : Nat, nothing_todo : BOOLEAN]
  <2>1. Len(disk[x]) \in Nat
    BY DEF SharingInv, SharingTypeOK
  <2> QED BY <1>3, <2>1
<1>6. SharingTypeOK'
  <2>1. /\ disk' \in [ThePaths -> Seq((Media \cup {Other}) \X Nat)]
        /\ job' \in [Processes -> Jobs] /\ beginning' \in Beginnings
        /\ xfer' \in [Processes -> [source : Media \cup {Other}, got : Nat,
                                    offset : Nat]]
    BY <1>2 DEF SharingInv, SharingTypeOK
  <2>2. files' \in [Processes -> [path : ThePaths, initial : Nat,
                                  nothing_todo : BOOLEAN]]
    BY <1>1, <1>5 DEF SharingInv, SharingTypeOK
  <2>3. attempts' \in [Processes -> 0 .. MaxAttempts]
    BY SharingAssumption, <1>2 DEF SharingInv, SharingTypeOK, SharingAssumption
  <2>4. at' \in [Processes -> Places]
    BY <1>4 DEF SharingInv, SharingTypeOK
  <2>5. overlap' \in BOOLEAN
    BY <1>1 DEF SharingInv, SharingTypeOK
  <2> QED BY <2>1, <2>2, <2>3, <2>4, <2>5 DEF SharingTypeOK
<1>7. NothingLost'
  BY <1>2 DEF SharingInv, NothingLost
<1>8. LengthsKnown'
  <2> SUFFICES ASSUME NoOverwrite, NEW q \in Processes, Working(q)'
               PROVE  files'[q].initial >= Len(beginning[files'[q].path])
    BY <1>2 DEF LengthsKnown, NoOverwrite
  <2>1. CASE q = p
    <3>1. files'[q] = P(p)!FileAt(x)
      BY <1>1, <2>1 DEF SharingInv, SharingTypeOK
    <3>2. files'[q].path = x /\ files'[q].initial = Len(disk[x])
      BY <1>3, <3>1 DEF NoOverwrite
    <3>3. Len(beginning[x]) <= Len(disk[x])
      BY Lossless DEF IsPrefixOf
    <3>4. Len(beginning[x]) \in Nat
      BY BeginningType DEF Contents, SharingInv
    <3>5. Len(disk[x]) \in Nat
      BY DEF SharingInv, SharingTypeOK
    <3> QED BY <3>2, <3>3, <3>4, <3>5
  <2>2. CASE q # p
    <3>1. files'[q] = files[q] /\ at'[q] = at[q]
      BY <1>1, <1>4, <2>2 DEF SharingInv, SharingTypeOK
    <3> QED BY <3>1 DEF SharingInv, LengthsKnown, Working
  <2> QED BY <2>1, <2>2
<1> QED BY <1>6, <1>7, <1>8 DEF SharingInv

\* A step that writes the file of a process that is at work.
LEMMA WriteStep ==
  ASSUME SharingInv, SharingTypeOK', NEW p \in Processes,
         Working(p), NEW f \in Contents,
         disk' = [disk EXCEPT ![files[p].path] = f],
         Appends(p) => IsPrefixOf(disk[files[p].path], f),
         UNCHANGED <<job, beginning, files>>,
         \A q \in Processes : Working(q)' => Working(q)
  PROVE  SharingInv'
<1>1. NothingLost'
  <2> SUFFICES ASSUME NoOverwrite, NEW x \in ThePaths
               PROVE  IsPrefixOf(beginning[x], disk'[x])
    BY DEF NothingLost, NoOverwrite
  <2>1. beginning[x] \in Contents /\ disk[x] \in Contents
    BY BeginningType DEF SharingInv, SharingTypeOK, Contents
  <2>2. CASE x # files[p].path
    <3>1. disk'[x] = disk[x]
      BY <2>2 DEF SharingInv, SharingTypeOK
    <3> QED BY <3>1, Lossless
  <2>3. CASE x = files[p].path
    <3>1. disk'[x] = f
      BY <2>3 DEF SharingInv, SharingTypeOK
    <3>2. CASE Appends(p)
      BY <2>1, <2>3, <3>1, <3>2, Lossless, PrefixTransitive
    <3>3. CASE ~Appends(p)
      <4>1. ~(files[p].initial > 0)
        BY <3>3 DEF Appends, NoOverwrite, P!should_continue
      <4>2. files[p].initial >= Len(beginning[x])
        BY <2>3 DEF SharingInv, LengthsKnown
      <4>3. Len(beginning[x]) = 0
        BY <2>1, <4>1, <4>2, Fixed DEF Contents, SharingInv
      <4>4. Len(f) \in Nat
        BY DEF Contents
      <4> QED BY <3>1, <4>3, <4>4 DEF IsPrefixOf
    <3> QED BY <3>2, <3>3
  <2> QED BY <2>2, <2>3
<1>2. LengthsKnown'
  BY DEF SharingInv, LengthsKnown, NoOverwrite
<1> QED BY <1>1, <1>2 DEF SharingInv

\* open_file truncates only if nothing was there, as NoOverwrite and LengthsKnown say.
LEMMA OpenStep ==
  ASSUME SharingInv, NEW p \in Processes, Open(p)
  PROVE  SharingInv'
<1>1. /\ disk' = [disk EXCEPT ![files[p].path] = Left(p)]
      /\ xfer' = [xfer EXCEPT ![p] = Nothing]
      /\ at' = [at EXCEPT ![p] = "request"] /\ at[p] = "open"
      /\ UNCHANGED <<job, beginning, files, attempts, overlap>>
  BY DEF Open, Goto, fixed
<1>2. Left(p) = IF Appends(p) THEN disk[files[p].path] ELSE <<>>
  BY DEF Left, P!Opened, Appends
<1>3. disk[files[p].path] \in Contents /\ files[p].path \in ThePaths
  BY Fixed DEF SharingInv
<1>4. Left(p) \in Contents
  BY <1>2, <1>3 DEF Contents
<1>5. Appends(p) => IsPrefixOf(disk[files[p].path], Left(p))
  BY <1>2, <1>3 DEF IsPrefixOf, Contents
<1>6. SharingTypeOK'
  <2>1. disk' \in [ThePaths -> Seq((Media \cup {Other}) \X Nat)]
    BY <1>1, <1>3, <1>4 DEF SharingInv, SharingTypeOK, Contents
  <2>2. xfer' \in [Processes -> [source : Media \cup {Other}, got : Nat,
                                 offset : Nat]]
    BY <1>1 DEF SharingInv, SharingTypeOK, Nothing
  <2>3. at' \in [Processes -> Places]
    BY <1>1 DEF SharingInv, SharingTypeOK, Places
  <2> QED BY <1>1, <2>1, <2>2, <2>3 DEF SharingInv, SharingTypeOK
<1>7. Working(p) /\ \A q \in Processes : Working(q)' => Working(q)
  BY <1>1 DEF Working, SharingInv, SharingTypeOK
<1> QED BY <1>1, <1>4, <1>5, <1>6, <1>7, WriteStep

\* write_cb writes behind the beginning of the file, whoever else writes there.
LEMMA ReceiveStep ==
  ASSUME SharingInv, NEW p \in Processes, Receive(p)
  PROVE  SharingInv'
<1> DEFINE path == files[p].path
           byte == <<xfer[p].source, files[p].initial + xfer[p].got + 1>>
           f == WriteAt(disk[path], Position(p), byte)
<1>1. /\ disk' = [disk EXCEPT ![path] = f]
      /\ xfer' = [xfer EXCEPT ![p] = [source |-> xfer[p].source,
                                      got |-> xfer[p].got + 1,
                                      offset |-> Position(p)]]
      /\ at[p] = "body"
      /\ UNCHANGED <<job, beginning, files, at, attempts, overlap>>
  BY DEF Receive, fixed, SharingInv, SharingTypeOK
<1>2. /\ disk[path] \in Contents /\ path \in ThePaths
      /\ byte \in (Media \cup {Other}) \X Nat
      /\ xfer[p].offset \in Nat /\ xfer[p].got \in Nat
  BY Fixed DEF SharingInv
<1>3. Position(p) \in Nat \ {0}
  <2>1. Len(disk[files[p].path]) \in Nat
    BY <1>2 DEF Contents
  <2>2. CASE Appends(p)
    <3>1. Position(p) = Len(disk[files[p].path]) + 1
      BY <2>2 DEF Position
    <3> QED BY <2>1, <3>1
  <2>3. CASE ~Appends(p)
    <3>1. Position(p) = xfer[p].offset + 1
      BY <2>3 DEF Position
    <3> QED BY <1>2, <3>1
  <2> QED BY <2>2, <2>3
<1>4. Appends(p) => Position(p) = Len(disk[path]) + 1
  BY DEF Position
<1> HIDE DEF path, byte
<1>5. f \in Contents /\ (Appends(p) => IsPrefixOf(disk[path], f))
  BY <1>2, <1>3, <1>4, WriteAtType
<1> HIDE DEF f
<1>6. SharingTypeOK'
  <2>1. disk' \in [ThePaths -> Seq((Media \cup {Other}) \X Nat)]
    BY <1>1, <1>2, <1>5 DEF SharingInv, SharingTypeOK, Contents
  <2>2. xfer' \in [Processes -> [source : Media \cup {Other}, got : Nat,
                                 offset : Nat]]
    <3> DEFINE new == [source |-> xfer[p].source, got |-> xfer[p].got + 1,
                       offset |-> Position(p)]
    <3>1. xfer[p].source \in Media \cup {Other} /\ xfer[p].got + 1 \in Nat
      BY <1>2, Fixed DEF SharingInv
    <3>2. new \in [source : Media \cup {Other}, got : Nat, offset : Nat]
      BY <1>3, <3>1
    <3>3. xfer' = [xfer EXCEPT ![p] = new]
      BY <1>1 DEF SharingInv, SharingTypeOK
    <3> HIDE DEF new
    <3> QED BY <3>2, <3>3 DEF SharingInv, SharingTypeOK
  <2> QED BY <1>1, <2>1, <2>2 DEF SharingInv, SharingTypeOK
<1>7. Working(p) /\ \A q \in Processes : Working(q)' => Working(q)
  BY <1>1 DEF Working
<1>8. /\ disk' = [disk EXCEPT ![files[p].path] = f]
      /\ Appends(p) => IsPrefixOf(disk[files[p].path], f)
  BY <1>1, <1>5 DEF path
<1> QED BY <1>1, <1>5, <1>6, <1>7, <1>8, WriteStep

\* Without --overwrite, in every process, the beginning of each file stays.
LEMMA Inductive ==
  Spec => []SharingInv
<1>1. Init => SharingInv
  <2> SUFFICES ASSUME Init PROVE SharingInv
    OBVIOUS
  <2>1. SharingTypeOK
    <3>1. <<OutputFile, 0>> \in ThePaths
      <4>1. 0 \in 0 .. MaxSuffix
        BY SharingAssumption DEF SharingAssumption
      <4>2. OutputFile \in {BaseName[m] : m \in Media} \cup {OutputFile}
        OBVIOUS
      <4> QED BY <4>1, <4>2, Zenon DEF ThePaths
    <3>2. disk \in [ThePaths -> Seq((Media \cup {Other}) \X Nat)]
      BY SharingAssumption DEF Init, SharingAssumption
    <3>3. files \in [Processes -> [path : ThePaths, initial : Nat,
                                   nothing_todo : BOOLEAN]]
      BY <3>1 DEF Init
    <3>4. xfer \in [Processes -> [source : Media \cup {Other}, got : Nat,
                                  offset : Nat]]
      BY DEF Init, Nothing
    <3>5. attempts \in [Processes -> 0 .. MaxAttempts]
      BY SharingAssumption DEF Init, SharingAssumption
    <3>6. /\ job \in [Processes -> Jobs] /\ at \in [Processes -> Places]
          /\ beginning \in Beginnings /\ overlap \in BOOLEAN
      BY DEF Init, Places
    <3> QED BY <3>2, <3>3, <3>4, <3>5, <3>6 DEF SharingTypeOK
  <2>2. NothingLost
    <3>1. \A x \in ThePaths : disk[x] \in Contents
      BY <2>1 DEF SharingTypeOK, Contents
    <3>2. beginning = disk
      BY DEF Init
    <3> QED BY <3>1, <3>2 DEF NothingLost, IsPrefixOf, Contents
  <2>3. LengthsKnown
    BY DEF Init, LengthsKnown, Working
  <2> QED BY <2>1, <2>2, <2>3 DEF SharingInv
<1>2. SharingInv /\ [Next]_sharingvars => SharingInv'
  <2> SUFFICES ASSUME SharingInv, [Next]_sharingvars PROVE SharingInv'
    OBVIOUS
  <2>1. CASE UNCHANGED sharingvars
    BY <2>1 DEF sharingvars, SharingInv, SharingTypeOK, NothingLost,
                LengthsKnown, NoOverwrite, Working
  <2>2. CASE Next
    BY <2>2, OtherSteps, ConstructStep, OpenStep, ReceiveStep DEF Next
  <2> QED BY <2>1, <2>2
<1> QED BY <1>1, <1>2, PTL DEF Spec

-----------------------------------------------------------------------------
\* The type invariant, for any number of processes: no write goes to a position
\* before the first (file.cpp, open_file and write_cb).
THEOREM SharingTypeCorrect ==
  Spec => []SharingTypeOK
<1>1. SharingInv => SharingTypeOK
  BY DEF SharingInv
<1> QED BY <1>1, Inductive, PTL

\* However many cclive work in one directory and are killed in the middle of
\* it, what was there before stays unless one has --overwrite: the length that
\* file::_init took may be out of date when open_file uses it, but it is never
\* 0 for a file that held something (file.cpp, _init and open_file).
THEOREM NothingIsLost ==
  Spec => []NothingLost
<1>1. SharingInv => NothingLost
  BY DEF SharingInv
<1> QED BY <1>1, Inductive, PTL

-----------------------------------------------------------------------------
(* One process at a time.                                                  *)

\* As long as no two processes have been at work at the same time: where one is
\* says how long its file is, and the next byte goes to its end.
AloneAt(p) ==
  LET length == Len(disk[files[p].path]) IN
  Working(p) =>
    /\ job[p].vm.overwrite => files[p].initial = 0
    /\ at[p] = "open" /\ ~job[p].vm.overwrite => length = files[p].initial
    /\ at[p] = "request" => /\ length = files[p].initial
                            /\ xfer[p].got = 0 /\ xfer[p].offset = 0
    /\ at[p] = "body" => /\ length = files[p].initial + xfer[p].got
                         /\ ~Appends(p) => xfer[p].offset = xfer[p].got

Alone ==
  ~overlap =>
    /\ \A p, q \in Processes : Working(p) /\ Working(q) => p = q
    /\ \A x \in ThePaths, m \in Media : InPlace(disk[x], m)
    /\ \A p \in Processes : AloneAt(p)

\* open_file appends if there is no --overwrite and the file had a length (file.cpp).
LEMMA AppendsIff ==
  ASSUME SharingTypeOK, NEW p \in Processes
  PROVE  Appends(p) <=> ~job[p].vm.overwrite /\ files[p].initial > 0
  BY DEF Appends, P!should_continue

\* A file whose bytes are in place takes one more at its end.
LEMMA InPlaceAppend ==
  ASSUME NEW f \in Contents, NEW j \in Nat, j = Len(f) + 1,
         NEW s \in Media \cup {Other}, NEW m
  PROVE  /\ InPlace(f, m) => InPlace(WriteAt(f, j, <<s, j>>), m)
         /\ Len(WriteAt(f, j, <<s, j>>)) = j
<1> DEFINE g == WriteAt(f, j, <<s, j>>)
<1>1. Len(f) \in Nat /\ Max2(Len(f), j) = j
  BY DEF Max2, Contents
<1>2. g = [h \in 1 .. j |-> IF h = j THEN <<s, j>>
                            ELSE IF h <= Len(f) THEN f[h] ELSE Zero]
  BY <1>1 DEF WriteAt
<1>3. <<s, j>> \in (Media \cup {Other}) \X Nat
  OBVIOUS
<1>4. g \in Contents
  BY <1>1, <1>3, WriteAtType
<1>5. Len(g) = j
  <2>1. DOMAIN g = 1 .. j
    BY <1>2
  <2>2. g \in Seq((Media \cup {Other}) \X Nat)
    BY <1>4 DEF Contents
  <2> HIDE DEF g
  <2> QED BY <1>1, <2>1, <2>2
<1>6. \A h \in 1 .. j : g[h] = IF h = j THEN <<s, j>> ELSE f[h]
  BY <1>1, <1>2
<1> HIDE DEF g
<1>7. InPlace(f, m) => InPlace(g, m)
  BY <1>1, <1>5, <1>6 DEF InPlace
<1> QED BY <1>5, <1>7 DEF g

\* Every step keeps what is claimed of a process that nobody has overlapped with.
LEMMA AloneStep ==
  ASSUME SharingInv, SharingTypeOK', Alone, NEW p \in Processes,
         \/ Start(p) \/ Construct(p) \/ Open(p) \/ Reply(p) \/ Receive(p)
         \/ Succeed(p) \/ Fail(p) \/ Kill(p)
  PROVE  Alone'
<1> SUFFICES ASSUME ~overlap' PROVE Alone'
  BY DEF Alone
<1>1. SharingTypeOK /\ UNCHANGED job
  BY DEF SharingInv, Start, Construct, Open, Reply, Receive, Succeed, Fail, Kill,
         fixed
<1>2. ~overlap
  BY <1>1 DEF Start, Construct, Open, Reply, Receive, Succeed, Fail, Kill,
              SharingTypeOK
<1>3. /\ \A q, r \in Processes : Working(q) /\ Working(r) => q = r
      /\ \A x \in ThePaths, m \in Media : InPlace(disk[x], m)
      /\ \A q \in Processes : AloneAt(q)
  BY <1>2 DEF Alone
<1>4. \A q \in Processes \ {p} : /\ at'[q] = at[q] /\ files'[q] = files[q]
                                 /\ xfer'[q] = xfer[q]
  BY <1>1 DEF Start, Construct, Open, Reply, Receive, Succeed, Fail, Kill, Goto,
              SharingTypeOK
<1>5. /\ files[p].path \in ThePaths /\ files[p].initial \in Nat
      /\ xfer[p].got \in Nat /\ disk[files[p].path] \in Contents
      /\ xfer[p].source \in Media \cup {Other}
      /\ job[p].vm.overwrite \in BOOLEAN
  BY <1>1, Fixed
<1>6. CASE Start(p) \/ Succeed(p) \/ Fail(p) \/ Kill(p)
  <2>1. ~Working(p)' /\ disk' = disk
    BY <1>1, <1>6 DEF Start, Succeed, Fail, Kill, Goto, Working, SharingTypeOK
  <2>2. \A q \in Processes : AloneAt(q)'
    BY <1>1, <1>3, <1>4, <2>1 DEF AloneAt, Working, Appends, P!should_continue
  <2> QED BY <1>3, <1>4, <2>1, <2>2 DEF Alone, Working
<1>7. CASE Construct(p)
  <2>1. PICK x \in ThePaths :
          /\ files' = [files EXCEPT ![p] = P(p)!FileAt(x)]
          /\ Goto(p, IF P(p)!NothingTodo(x) THEN "complete" ELSE "open")
          /\ overlap' = (overlap \/ (~P(p)!NothingTodo(x) /\
                                     \E q \in Processes \ {p} : Working(q)))
    BY <1>7 DEF Construct
  <2>2. disk' = disk /\ at[p] = "stat"
    BY <1>7 DEF Construct
  <2>3. P(p)!NothingTodo(x) \in BOOLEAN
    BY DEF P!NothingTodo
  <2>4. CASE P(p)!NothingTodo(x)
    <3>1. ~Working(p)'
      BY <1>1, <2>1, <2>4 DEF Goto, Working, SharingTypeOK
    <3>2. \A q \in Processes : AloneAt(q)'
      BY <1>1, <1>3, <1>4, <2>2, <3>1
      DEF AloneAt, Working, Appends, P!should_continue
    <3> QED BY <1>3, <1>4, <2>2, <3>1, <3>2 DEF Alone, Working
  <2>5. CASE ~P(p)!NothingTodo(x)
    <3>1. \A q \in Processes : Working(q)' => q = p
      BY <1>4, <2>1, <2>5 DEF Working
    <3>2. at'[p] = "open" /\ files'[p] = P(p)!FileAt(x)
      BY <1>1, <2>1, <2>5 DEF Goto, SharingTypeOK
    <3>3. /\ files'[p].path = x
          /\ files'[p].initial = IF job[p].vm.overwrite THEN 0 ELSE Len(disk[x])
      BY <3>2 DEF P!FileAt, P!InitialLength, P!exists
    <3>4. AloneAt(p)'
      BY <1>1, <1>5, <2>2, <3>2, <3>3 DEF AloneAt
    <3>5. \A q \in Processes : AloneAt(q)'
      BY <3>1, <3>4 DEF AloneAt
    <3> QED BY <1>3, <2>2, <3>1, <3>5 DEF Alone
  <2> QED BY <2>3, <2>4, <2>5
<1>8. CASE Open(p) \/ Reply(p) \/ Receive(p)
  <2>1. Working(p) /\ files' = files /\ Working(p)'
    BY <1>1, <1>8 DEF Open, Reply, Receive, Goto, Working, SharingTypeOK
  <2>2. \A q \in Processes : Working(q)' => q = p
    BY <1>3, <1>4, <2>1 DEF Working
  <2> SUFFICES /\ \A x \in ThePaths, m \in Media : InPlace(disk'[x], m)
               /\ AloneAt(p)'
    <3>1. ASSUME AloneAt(p)' PROVE \A q \in Processes : AloneAt(q)'
      BY <2>2, <3>1 DEF AloneAt
    <3> QED BY <2>2, <3>1 DEF Alone
  <2>3. AloneAt(p)
    BY <1>3
  <2>4. Appends(p) <=> ~job[p].vm.overwrite /\ files[p].initial > 0
    BY <1>1, AppendsIff
  <2>5. Appends(p)' <=> Appends(p)
    BY <1>1, <2>1 DEF Appends, P!should_continue
  <2>6. CASE Open(p)
    <3>1. /\ disk' = [disk EXCEPT ![files[p].path] = Left(p)]
          /\ at[p] = "open" /\ at'[p] = "request" /\ xfer'[p] = Nothing
      BY <1>1, <2>6 DEF Open, Goto, SharingTypeOK
    <3>2. Left(p) = IF Appends(p) THEN disk[files[p].path] ELSE <<>>
      BY DEF Left, P!Opened, Appends
    <3>3. disk'[files[p].path] = Left(p)
      BY <1>1, <1>5, <3>1 DEF SharingTypeOK
    <3>4. ASSUME NEW x \in ThePaths, NEW m \in Media
          PROVE  InPlace(disk'[x], m)
      <4>1. disk'[x] = disk[x] \/ disk'[x] = <<>>
        BY <1>1, <1>5, <3>1, <3>2 DEF SharingTypeOK
      <4>2. InPlace(<<>>, m)
        BY DEF InPlace
      <4> QED BY <1>3, <4>1, <4>2
    <3>5. Len(disk'[files[p].path]) = files[p].initial
      BY <1>5, <2>3, <2>4, <3>1, <3>2, <3>3 DEF AloneAt, Working
    <3>6. xfer'[p].got = 0 /\ xfer'[p].offset = 0
      BY <3>1 DEF Nothing
    <3>7. job[p].vm.overwrite => files[p].initial = 0
      BY <2>1, <2>3 DEF AloneAt
    <3>8. AloneAt(p)'
      BY <1>1, <2>1, <3>1, <3>5, <3>6, <3>7 DEF AloneAt
    <3> QED BY <3>4, <3>8
  <2>7. CASE Reply(p)
    <3>1. /\ disk' = disk /\ at[p] = "request" /\ at'[p] = "body"
          /\ xfer'[p].got = xfer[p].got /\ xfer'[p].offset = xfer[p].offset
      BY <1>1, <2>7 DEF Reply, Goto, SharingTypeOK
    <3>2. AloneAt(p)'
      BY <1>1, <1>5, <2>1, <2>3, <2>5, <3>1 DEF AloneAt
    <3> QED BY <1>3, <3>1, <3>2
  <2>8. CASE Receive(p)
    <3> DEFINE f == disk[files[p].path]
               n == files[p].initial + xfer[p].got + 1
               g == WriteAt(f, n, <<xfer[p].source, n>>)
    <3>1. /\ Len(f) = files[p].initial + xfer[p].got
          /\ ~Appends(p) => xfer[p].offset = xfer[p].got
          /\ job[p].vm.overwrite => files[p].initial = 0
      BY <2>1, <2>3, <2>8 DEF AloneAt, Receive
    <3>2. Position(p) = n /\ n \in Nat /\ n = Len(f) + 1
      BY <1>5, <2>4, <3>1 DEF Position
    <3>3. /\ disk' = [disk EXCEPT ![files[p].path] = g]
          /\ at' = at /\ at[p] = "body"
          /\ xfer'[p].got = xfer[p].got + 1 /\ xfer'[p].offset = Position(p)
      BY <1>1, <2>8, <3>2 DEF Receive, SharingTypeOK
    <3>4. Len(g) = n /\ \A m \in Media : InPlace(g, m)
      <4>1. \A m : Len(g) = n /\ (InPlace(f, m) => InPlace(g, m))
        <5> HIDE DEF n, f
        <5> QED BY <1>5, <3>2, InPlaceAppend DEF f
      <4> QED BY <1>3, <1>5, <4>1
    <3> HIDE DEF g
    <3>5. disk'[files[p].path] = g
          /\ \A x \in ThePaths \ {files[p].path} : disk'[x] = disk[x]
      BY <1>1, <1>5, <3>3 DEF SharingTypeOK
    <3>6. \A x \in ThePaths, m \in Media : InPlace(disk'[x], m)
      BY <1>3, <3>4, <3>5
    <3>7. Len(disk'[files[p].path]) = files[p].initial + xfer'[p].got
      <4>1. Len(disk'[files[p].path]) = n
        BY <3>4, <3>5
      <4>2. n = files[p].initial + (xfer[p].got + 1)
        BY <1>5
      <4> QED BY <3>3, <4>1, <4>2
    <3>8. ~Appends(p) => xfer'[p].offset = xfer'[p].got
      <4>1. ~Appends(p) => files[p].initial = 0
        BY <1>5, <2>4, <3>1
      <4> QED BY <1>5, <3>2, <3>3, <4>1
    <3>9. AloneAt(p)'
      BY <1>1, <2>1, <2>5, <3>1, <3>3, <3>7, <3>8 DEF AloneAt
    <3> QED BY <3>6, <3>9
  <2> QED BY <1>8, <2>6, <2>7, <2>8
<1> QED BY <1>6, <1>7, <1>8

\* A transfer is whole when it is complete if no two processes were at work at
\* the same time, whatever was killed before it (cc::file::write, with the
\* length that file::_init found).
THEOREM OneByOne == Spec => []OneByOneIsWhole
<1>1. Init => Alone
  BY SharingAssumption DEF Init, Alone, AloneAt, Working, SharingAssumption
<1>2. SharingInv /\ SharingTypeOK' /\ Alone /\ [Next]_sharingvars => Alone'
  <2> SUFFICES ASSUME SharingInv, SharingTypeOK', Alone, [Next]_sharingvars
               PROVE  Alone'
    OBVIOUS
  <2>1. CASE Next
    BY <2>1, AloneStep DEF Next
  <2>2. CASE UNCHANGED sharingvars
    BY <2>2 DEF sharingvars, Alone, AloneAt, Working, Appends, P!should_continue
  <2> QED BY <2>1, <2>2
<1>3. SharingInv /\ Alone => OneByOneIsWhole
  <2> SUFFICES ASSUME SharingInv, Alone, NEW p \in Processes, ~overlap, Received(p)
               PROVE  /\ Len(disk[files[p].path]) = StreamLength[job[p].media]
                      /\ InPlace(disk[files[p].path], job[p].media)
    BY DEF OneByOneIsWhole
  <2>1. /\ files[p].path \in ThePaths /\ files[p].initial \in Nat
        /\ job[p].media \in Media /\ xfer[p].got \in Nat
    BY Fixed DEF SharingInv
  <2>2. StreamLength[job[p].media] \in Nat
    BY <2>1, SharingAssumption DEF SharingAssumption
  <2>3. xfer[p].got = StreamLength[job[p].media] - files[p].initial
    BY DEF Received, BodyLength
  <2>4. Len(disk[files[p].path]) = files[p].initial + xfer[p].got
    BY DEF Received, Alone, AloneAt, Working
  <2> QED BY <2>1, <2>2, <2>3, <2>4 DEF Alone
<1>4. SharingInv => SharingTypeOK
  BY DEF SharingInv
<1> QED BY <1>1, <1>2, <1>3, <1>4, Inductive, PTL DEF Spec

-----------------------------------------------------------------------------
(* All at once.                                                            *)

\* An attempt is counted before it begins, and only the stream's end is taken
\* for a success.
Counted ==
  \A p \in Processes :
    /\ at[p] \notin {"off", "stat"} => attempts[p] > 0
    /\ at[p] \in {"body", "done"} => xfer[p].source \in {job[p].media, Other}
    /\ at[p] = "done" => xfer[p].source # Other

\* So far p has done nothing but retrieve m from its start, at the first attempt.
Fine(p, m) ==
  /\ job[p].media = m
  /\ \/ attempts[p] = 0 /\ at[p] \in {"off", "stat"}
     \/ /\ attempts[p] = 1 /\ files[p].initial = 0
        /\ at[p] \in {"open", "request", "body", "done"}
        /\ at[p] \in {"body", "done"} => xfer[p].source # Other

Underway(p) == at[p] \in {"request", "body", "done"}

\* Everything that p has written is there, and nothing that is too much.
Holds(p, m) ==
  LET f == disk[files[p].path] IN
    /\ xfer[p].got <= Len(f) /\ Len(f) <= StreamLength[m]
    /\ \A k \in 1 .. xfer[p].got : f[k] = <<m, k>>

InPace(p, m) ==
  /\ xfer[p].offset = xfer[p].got /\ xfer[p].got <= StreamLength[m]
  /\ at[p] = "request" => xfer[p].got = 0
  /\ at[p] = "done" => xfer[p].got = StreamLength[m]

\* As long as all are fine, every file has what one of those that write to it
\* has written: the one that opened it last.
Together ==
  \A m \in Media :
    (\A p \in Processes : Fine(p, m)) =>
      \A p \in Processes : Underway(p) =>
        /\ InPace(p, m)
        /\ \E q \in Processes : /\ Underway(q) /\ files[q].path = files[p].path
                                /\ Holds(q, m)

\* What a step of p leaves of the other processes.
LEMMA Others ==
  ASSUME SharingTypeOK, NEW p \in Processes,
         \/ Start(p) \/ Construct(p) \/ Open(p) \/ Reply(p) \/ Receive(p)
         \/ Succeed(p) \/ Fail(p) \/ Kill(p)
  PROVE  /\ UNCHANGED job
         /\ \A q \in Processes \ {p} :
              /\ at'[q] = at[q] /\ files'[q] = files[q]
              /\ xfer'[q] = xfer[q] /\ attempts'[q] = attempts[q]
  BY DEF Start, Construct, Open, Reply, Receive, Succeed, Fail, Kill, Goto,
         SharingTypeOK, fixed

\* Counted is inductive.
LEMMA CountedStep ==
  ASSUME SharingTypeOK, Counted, NEW p \in Processes,
         \/ Start(p) \/ Construct(p) \/ Open(p) \/ Reply(p) \/ Receive(p)
         \/ Succeed(p) \/ Fail(p) \/ Kill(p)
  PROVE  Counted'
<1>1. /\ attempts[p] \in Nat /\ Processes = DOMAIN at /\ Processes = DOMAIN xfer
      /\ Processes = DOMAIN attempts
  BY SharingAssumption DEF SharingTypeOK, SharingAssumption
<1>2. /\ at'[p] \notin {"off", "stat"} => attempts'[p] > 0
      /\ at'[p] \in {"body", "done"} => xfer'[p].source \in {job[p].media, Other}
      /\ at'[p] = "done" => xfer'[p].source # Other
  <2>1. CASE Start(p) \/ Kill(p)
    BY <1>1, <2>1 DEF Start, Kill, Goto
  <2>2. CASE Construct(p)
    BY <1>1, <2>2 DEF Construct, Goto
  <2>3. CASE Open(p)
    BY <1>1, <2>3 DEF Open, Goto, Counted
  <2>4. CASE Reply(p)
    BY <1>1, <2>4, ZenonT(30) DEF Reply, Goto, Counted, SharingTypeOK
  <2>5. CASE Receive(p)
    BY <1>1, <2>5 DEF Receive, Counted
  <2>6. CASE Succeed(p)
    BY <1>1, <2>6 DEF Succeed, Goto, Counted
  <2>7. CASE Fail(p)
    BY <1>1, <2>7 DEF Fail, Goto, Counted
  <2> QED BY <2>1, <2>2, <2>3, <2>4, <2>5, <2>6, <2>7
<1> QED BY <1>2, Others DEF Counted

\* What is fine has been so from the beginning.
LEMMA FineBefore ==
  ASSUME SharingTypeOK, Counted, NEW p \in Processes, NEW m \in Media,
         \/ Start(p) \/ Construct(p) \/ Open(p) \/ Reply(p) \/ Receive(p)
         \/ Succeed(p) \/ Fail(p) \/ Kill(p),
         NEW q \in Processes, Fine(q, m)'
  PROVE  Fine(q, m)
<1>1. CASE q # p
  BY <1>1, Others DEF Fine
<1>2. CASE q = p
  <2>1. /\ attempts[p] \in Nat /\ Processes = DOMAIN at
        /\ Processes = DOMAIN xfer /\ Processes = DOMAIN attempts
    BY SharingAssumption DEF SharingTypeOK, SharingAssumption
  <2>2. job'[p] = job[p]
    BY Others
  <2>3. CASE Start(p)
    BY <1>2, <2>1, <2>2, <2>3 DEF Start, Goto, Fine
  <2>4. CASE Construct(p)
    <3>1. attempts'[p] = attempts[p] + 1 /\ at[p] = "stat"
      BY <2>1, <2>4 DEF Construct
    <3>2. attempts[p] = 0
      BY <1>2, <2>1, <3>1 DEF Fine
    <3> QED BY <1>2, <2>2, <3>1, <3>2 DEF Fine
  <2>5. CASE Open(p) \/ Reply(p)
    BY <1>2, <2>1, <2>2, <2>5 DEF Open, Reply, Goto, Fine
  <2>6. CASE Receive(p)
    <3>1. /\ UNCHANGED <<files, at, attempts>> /\ at[p] = "body"
          /\ xfer'[p].source = xfer[p].source
      BY <2>1, <2>6 DEF Receive
    <3> QED BY <1>2, <2>2, <3>1 DEF Fine
  <2>7. CASE Succeed(p)
    <3>1. /\ UNCHANGED <<files, xfer, attempts>>
          /\ at[p] = "body" /\ at'[p] = "done"
      BY <2>1, <2>7 DEF Succeed, Goto
    <3> QED BY <1>2, <2>2, <3>1 DEF Fine
  <2>8. CASE Fail(p)
    <3>1. /\ UNCHANGED attempts /\ at[p] \in {"request", "body"}
          /\ at'[p] \in {"stat", "failed"}
      BY <2>1, <2>8 DEF Fail, Goto
    <3>2. attempts[p] > 0
      BY <3>1 DEF Counted
    <3> QED BY <1>2, <3>1, <3>2 DEF Fine
  <2>9. CASE Kill(p)
    <3>1. UNCHANGED attempts /\ at[p] # "off" /\ at'[p] = "off"
      BY <2>1, <2>9 DEF Kill, Goto
    <3>2. attempts[p] = 0
      BY <1>2, <3>1 DEF Fine
    <3>3. at[p] = "stat"
      BY <3>1, <3>2 DEF Counted
    <3> QED BY <1>2, <2>2, <3>2, <3>3 DEF Fine
  <2> QED BY <2>3, <2>4, <2>5, <2>6, <2>7, <2>8, <2>9
<1> QED BY <1>1, <1>2

\* One more byte of m is written over what there is.
LEMMA WriteOver ==
  ASSUME NEW f \in Contents, NEW m \in Media, NEW n \in Nat, NEW size \in Nat,
         n < size, Len(f) <= size
  PROVE  LET g == WriteAt(f, n + 1, <<m, n + 1>>) IN
           /\ n + 1 <= Len(g) /\ Len(f) <= Len(g) /\ Len(g) <= size
           /\ g[n + 1] = <<m, n + 1>>
           /\ \A k \in 1 .. Len(f) : k # n + 1 => g[k] = f[k]
<1> DEFINE g == WriteAt(f, n + 1, <<m, n + 1>>)
           length == Max2(Len(f), n + 1)
<1>1. Len(f) \in Nat /\ length \in Nat /\ length >= n + 1 /\ length >= Len(f)
      /\ length <= size
  BY DEF Max2, Contents
<1>2. g \in Contents
  <2>1. <<m, n + 1>> \in (Media \cup {Other}) \X Nat /\ n + 1 \in Nat \ {0}
    OBVIOUS
  <2> QED BY <2>1, WriteAtType
<1>3. g = [h \in 1 .. length |-> IF h = n + 1 THEN <<m, n + 1>>
                                 ELSE IF h <= Len(f) THEN f[h] ELSE Zero]
  BY DEF WriteAt
<1> HIDE DEF length
<1>4. DOMAIN g = 1 .. length
  BY <1>3
<1>5. g[n + 1] = <<m, n + 1>> /\ \A k \in 1 .. Len(f) : k # n + 1 => g[k] = f[k]
  BY <1>1, <1>3, SMTT(20)
<1> HIDE DEF g
<1>6. Len(g) = length
  BY <1>1, <1>2, <1>4 DEF Contents
<1> QED BY <1>1, <1>5, <1>6 DEF g

\* Together is inductive.
LEMMA TogetherStep ==
  ASSUME SharingTypeOK, SharingTypeOK', Counted, Together, NEW p \in Processes,
         \/ Start(p) \/ Construct(p) \/ Open(p) \/ Reply(p) \/ Receive(p)
         \/ Succeed(p) \/ Fail(p) \/ Kill(p)
  PROVE  Together'
<1> SUFFICES ASSUME NEW m \in Media, \A q \in Processes : Fine(q, m)'
             PROVE  \A r \in Processes : Underway(r)' =>
                      /\ InPace(r, m)'
                      /\ \E q \in Processes : /\ Underway(q)'
                                              /\ files'[q].path = files'[r].path
                                              /\ Holds(q, m)'
  BY DEF Together
<1>1. \A q \in Processes : Fine(q, m)
  BY FineBefore
<1>2. \A r \in Processes : Underway(r) =>
        /\ InPace(r, m)
        /\ \E q \in Processes : /\ Underway(q) /\ files[q].path = files[r].path
                                /\ Holds(q, m)
  BY <1>1 DEF Together
<1>3. /\ UNCHANGED job
      /\ \A q \in Processes \ {p} :
           /\ at'[q] = at[q] /\ files'[q] = files[q]
           /\ xfer'[q] = xfer[q] /\ attempts'[q] = attempts[q]
  BY Others
<1>4. Fine(p, m) /\ Fine(p, m)'
  BY <1>1
<1>5. /\ files[p].path \in ThePaths /\ disk[files[p].path] \in Contents
      /\ xfer[p].got \in Nat /\ StreamLength[m] \in Nat
  BY Fixed, SharingAssumption DEF SharingAssumption
<1>6. CASE Start(p) \/ Construct(p) \/ Fail(p) \/ Kill(p)
  <2>1. ~Underway(p)' /\ disk' = disk
    BY <1>4, <1>6 DEF Start, Construct, Fail, Kill, Goto, Fine, Underway,
                      SharingTypeOK
  <2>2. ~Underway(p)
    BY <1>3, <1>4, <1>6 DEF Start, Construct, Fail, Kill, Goto, Fine, Underway,
                      SharingTypeOK
  <2>3. \A q \in Processes :
          /\ Underway(q)' => Underway(q) /\ q # p
          /\ Underway(q) => /\ q # p /\ files'[q] = files[q] /\ Underway(q)'
                            /\ InPace(q, m) => InPace(q, m)'
                            /\ Holds(q, m) => Holds(q, m)'
    BY <1>3, <2>1, <2>2 DEF Underway, InPace, Holds
  <2> QED BY <1>2, <2>3
<1>7. CASE Open(p)
  <2>1. files[p].initial = 0
    BY <1>4, <1>7 DEF Open, Fine
  <2>2. Left(p) = <<>>
    BY <2>1 DEF Left, P!Opened, P!should_continue
  <2>3. /\ disk' = [disk EXCEPT ![files[p].path] = <<>>] /\ files' = files
        /\ xfer'[p] = Nothing /\ at'[p] = "request" /\ at[p] = "open"
    BY <1>7, <2>2 DEF Open, Goto, SharingTypeOK
  <2>4. Underway(p)' /\ InPace(p, m)' /\ Holds(p, m)'
    BY <1>5, <2>3 DEF Underway, InPace, Holds, Nothing, SharingTypeOK
  <2>5. ASSUME NEW r \in Processes \ {p}, Underway(r)
        PROVE  /\ InPace(r, m)'
               /\ \E q \in Processes : /\ Underway(q)'
                                       /\ files'[q].path = files'[r].path
                                       /\ Holds(q, m)'
    <3>1. InPace(r, m)'
      BY <1>2, <1>3, <2>5 DEF InPace
    <3>2. CASE files[r].path = files[p].path
      BY <2>3, <2>4, <3>1, <3>2
    <3>3. CASE files[r].path # files[p].path
      <4>1. PICK q \in Processes : /\ Underway(q) /\ Holds(q, m)
                                   /\ files[q].path = files[r].path
        BY <1>2, <2>5
      <4>2. q # p
        BY <2>3, <4>1 DEF Underway
      <4>3. disk'[files[q].path] = disk[files[q].path]
        BY <2>3, <3>3, <4>1, Fixed DEF SharingTypeOK
      <4>4. Underway(q)' /\ Holds(q, m)'
        BY <1>3, <2>3, <4>1, <4>2, <4>3 DEF Underway, Holds
      <4> QED BY <2>3, <3>1, <4>1, <4>4
    <3> QED BY <3>2, <3>3
  <2>6. \A r \in Processes \ {p} : Underway(r)' => Underway(r)
    BY <1>3 DEF Underway
  <2> QED BY <2>3, <2>4, <2>5, <2>6
<1>8. CASE Reply(p) \/ Succeed(p)
  <2>1. /\ disk' = disk /\ files' = files /\ Underway(p) /\ Underway(p)'
        /\ xfer'[p].got = xfer[p].got /\ xfer'[p].offset = xfer[p].offset
    BY <1>8 DEF Reply, Succeed, Goto, Underway, SharingTypeOK
  <2>2. InPace(p, m)'
    <3>1. InPace(p, m)
      BY <1>2, <2>1
    <3>2. CASE Reply(p)
      BY <2>1, <3>1, <3>2 DEF Reply, Goto, InPace, SharingTypeOK
    <3>3. CASE Succeed(p)
      <4>1. xfer[p].got = StreamLength[m] - files[p].initial
        BY <1>4, <3>3 DEF Succeed, BodyLength, Fine
      <4>2. files[p].initial = 0
        BY <1>4, <3>3 DEF Succeed, Fine
      <4> QED BY <1>5, <2>1, <3>1, <3>3, <4>1, <4>2
              DEF Succeed, Goto, InPace, SharingTypeOK
    <3> QED BY <1>8, <3>2, <3>3
  <2>3. \A q \in Processes : /\ Underway(q)' = Underway(q)
                             /\ Holds(q, m) => Holds(q, m)'
                             /\ q # p /\ InPace(q, m) => InPace(q, m)'
    BY <1>3, <2>1 DEF Underway, Holds, InPace
  <2> QED BY <1>2, <2>1, <2>2, <2>3
<1>9. CASE Receive(p)
  <2> DEFINE n == xfer[p].got
             f == disk[files[p].path]
             g == WriteAt(f, n + 1, <<m, n + 1>>)
  <2>1. at[p] = "body" /\ InPace(p, m) /\ Underway(p)
    BY <1>2, <1>9 DEF Receive, Underway
  <2>2. files[p].initial = 0 /\ xfer[p].source = m
    BY <1>4, <2>1 DEF Fine, Counted
  <2>3. ~Appends(p) /\ Position(p) = n + 1
    BY <2>1, <2>2 DEF Appends, P!should_continue, Position, InPace
  <2>4. n < StreamLength[m]
    BY <1>4, <1>5, <1>9, <2>1, <2>2 DEF Receive, BodyLength, Fine
  <2>5. /\ disk' = [disk EXCEPT ![files[p].path] = g] /\ files' = files /\ at' = at
        /\ xfer'[p].got = n + 1 /\ xfer'[p].offset = n + 1
    <3>1. files[p].initial + xfer[p].got + 1 = n + 1
      BY <1>5, <2>2
    <3>2. UNCHANGED <<files, at>>
      BY <1>9 DEF Receive
    <3>3. disk' = [disk EXCEPT ![files[p].path] =
            WriteAt(@, Position(p),
                    <<xfer[p].source, files[p].initial + xfer[p].got + 1>>)]
      BY <1>9 DEF Receive
    <3>4. xfer'[p] = [source |-> xfer[p].source, got |-> n + 1,
                      offset |-> Position(p)]
      BY <1>9 DEF Receive, SharingTypeOK
    <3>5. xfer'[p].got = n + 1 /\ xfer'[p].offset = n + 1
      BY <2>3, <3>4
    <3>6. disk' = [disk EXCEPT ![files[p].path] =
            WriteAt(@, n + 1, <<m, n + 1>>)]
      BY <2>2, <2>3, <3>1, <3>3
    <3> QED BY <3>2, <3>5, <3>6
  <2>6. PICK h \in Processes : /\ Underway(h) /\ files[h].path = files[p].path
                               /\ Holds(h, m)
    BY <1>2, <2>1
  <2>7. Len(f) <= StreamLength[m]
    BY <2>6 DEF Holds
  <2>8. /\ n + 1 <= Len(g) /\ Len(f) <= Len(g) /\ Len(g) <= StreamLength[m]
        /\ g[n + 1] = <<m, n + 1>>
        /\ \A k \in 1 .. Len(f) : k # n + 1 => g[k] = f[k]
    <3> HIDE DEF f, n
    <3>1. f \in Contents /\ n \in Nat
      BY <1>5 DEF f, n
    <3> QED BY <1>5, <2>4, <2>7, <3>1, WriteOver
  <2>9. disk'[files[p].path] = g
    BY <1>5, <2>5 DEF SharingTypeOK
  <2> HIDE DEF g
  <2>10. InPace(p, m)'
    BY <1>5, <2>1, <2>4, <2>5 DEF InPace
  <2>11. Holds(h, m)'
    <3>1. xfer[h].got \in Nat /\ Len(f) \in Nat /\ Len(g) \in Nat
      <4>1. g \in Contents
        BY <1>5, <2>9, <2>5 DEF SharingTypeOK, Contents
      <4> QED BY <1>5, <4>1, Fixed DEF Contents
    <3>2. xfer[h].got <= Len(f) /\ \A k \in 1 .. xfer[h].got : f[k] = <<m, k>>
      BY <2>6 DEF Holds
    <3>3. \A k \in 1 .. xfer[h].got : g[k] = <<m, k>>
      BY <2>8, <3>1, <3>2, SMTT(15)
    <3>4. CASE h # p
      <4>1. xfer'[h] = xfer[h]
        BY <1>3, <3>4
      <4>2. xfer[h].got <= Len(g)
        BY <2>8, <3>1, <3>2
      <4> QED BY <2>5, <2>6, <2>8, <2>9, <3>3, <4>1, <4>2 DEF Holds
    <3>5. CASE h = p
      <4>1. \A k \in 1 .. (n + 1) : g[k] = <<m, k>>
        BY <1>5, <2>8, <3>3, <3>5
      <4> QED BY <2>5, <2>8, <2>9, <3>5, <4>1 DEF Holds
    <3> QED BY <3>4, <3>5
  <2>12. ASSUME NEW r \in Processes, Underway(r)'
         PROVE  /\ InPace(r, m)'
                /\ \E q \in Processes : /\ Underway(q)'
                                        /\ files'[q].path = files'[r].path
                                        /\ Holds(q, m)'
    <3>1. Underway(r) /\ Underway(h)'
      BY <2>5, <2>6, <2>12 DEF Underway
    <3>2. InPace(r, m)'
      BY <1>2, <1>3, <2>5, <2>10, <3>1 DEF InPace
    <3>3. CASE files[r].path = files[p].path
      BY <2>5, <2>6, <2>11, <3>1, <3>2, <3>3
    <3>4. CASE files[r].path # files[p].path
      <4>1. PICK q \in Processes : /\ Underway(q) /\ Holds(q, m)
                                   /\ files[q].path = files[r].path
        BY <1>2, <3>1
      <4>2. q # p
        BY <3>4, <4>1
      <4>3. disk'[files[q].path] = disk[files[q].path]
        BY <2>5, <3>4, <4>1, Fixed DEF SharingTypeOK
      <4>4. Underway(q)' /\ Holds(q, m)'
        BY <1>3, <2>5, <4>1, <4>2, <4>3 DEF Underway, Holds
      <4> QED BY <2>5, <3>2, <4>1, <4>4
    <3> QED BY <3>3, <3>4
  <2> QED BY <2>12
<1> QED BY <1>6, <1>7, <1>8, <1>9

\* Processes that retrieve the same media at once from its start truncate each
\* other's file and write over each other; when all have succeeded at their
\* first attempt every file they wrote is whole (cc::file::write, open_file).
THEOREM AllAtOnce == Spec => []AllSucceededIsWhole
<1>1. Init => Counted /\ Together
  BY DEF Init, Counted, Together, Underway
<1>2. SharingInv /\ SharingTypeOK' /\ Counted /\ Together /\ [Next]_sharingvars
        => Counted' /\ Together'
  <2> SUFFICES ASSUME SharingInv, SharingTypeOK', Counted, Together,
                      [Next]_sharingvars
               PROVE  Counted' /\ Together'
    OBVIOUS
  <2>1. CASE Next
    BY <2>1, CountedStep, TogetherStep DEF Next, SharingInv
  <2>2. CASE UNCHANGED sharingvars
    BY <2>2, ZenonT(30) DEF sharingvars, Counted, Together, Fine, Underway, InPace, Holds
  <2> QED BY <2>1, <2>2
<1>3. SharingInv /\ Counted /\ Together => AllSucceededIsWhole
  <2> SUFFICES ASSUME SharingInv, Counted, Together, NEW m \in Media,
                      \A p \in Processes : /\ job[p].media = m
                                           /\ at[p] = "done" /\ attempts[p] = 1
                                           /\ files[p].initial = 0,
                      NEW p \in Processes
               PROVE  disk[files[p].path] = Copy(m)
    BY DEF AllSucceededIsWhole
  <2>1. \A q \in Processes : Fine(q, m)
    BY DEF Fine, Counted
  <2>2. PICK q \in Processes : /\ Underway(q) /\ files[q].path = files[p].path
                               /\ Holds(q, m) /\ InPace(q, m)
    BY <2>1 DEF Together, Underway
  <2> DEFINE f == disk[files[p].path]
  <2>3. f \in Contents /\ StreamLength[m] \in Nat
    BY Fixed, SharingAssumption DEF SharingAssumption, SharingInv
  <2>4. Len(f) = StreamLength[m] /\ \A k \in 1 .. StreamLength[m] : f[k] = <<m, k>>
    BY <2>2, <2>3 DEF Holds, InPace, Contents
  <2>5. f = [k \in 1 .. Len(f) |-> f[k]]
    BY <2>3 DEF Contents
  <2> QED BY <2>4, <2>5 DEF Copy
<1>4. SharingInv => SharingTypeOK
  BY DEF SharingInv
<1> QED BY <1>1, <1>2, <1>3, <1>4, Inductive, PTL DEF Spec
=============================================================================
