--------------------------- MODULE StartupProofs ---------------------------
(***************************************************************************)
(* Theorems about the start of cclive, for all command lines, all          *)
(* configuration files and all inputs.                                     *)
(***************************************************************************)
EXTENDS Startup, InputProofs, Induction, TLAPS

-----------------------------------------------------------------------------
(* The options.  The invariant: what of a source has been stored, or passed *)
(* over, is sound, and the rest is still to be stored.                     *)

\* The first n occurrences of a source are sound.
Good(source, known, overridden, n) ==
  \A h \in 1 .. n :
    LET o == source[h][1] IN
      /\ o \in known
      /\ o \notin overridden =>
           /\ IsValid(o, source[h][2])
           /\ o \notin Lists => \A j \in 1 .. (h - 1) : source[j][1] # o

\* The first n of them are done.
Done(source, n) ==
  /\ n \in 0 .. Len(source)
  /\ Len(todo) = Len(source) - n
  /\ \A h \in 1 .. Len(todo) : todo[h] = source[n + h]
  /\ \A o : o \in fresh <=> o \notin final /\ \E h \in 1 .. n : source[h][1] = o

Underway(source, known) ==
  \E n \in 0 .. Len(source) :
    Done(source, n) /\ Good(source, known, final, n)

GivenFirst == {o \in Names : GivenIn(argv, o)}

PhaseInv ==
  /\ phase = "command_line" => final = {} /\ Underway(argv, Names)
  /\ phase \notin {"command_line", "error"} => ~BadCommandLine
  /\ phase \in {"notify", "help", "open", "config"} =>
       final = GivenFirst /\ fresh \subseteq Names
  /\ phase \in {"notify", "help", "open"} => fresh = {}
  /\ phase = "config" =>
       ConfigRead /\ Underway(config.occurrences, Configurable)
  /\ phase \in {"print_config", "ready"} => ~BadConfig

OptionsInv == OptionsTypeOK /\ todo \in Seq(Occurrences) /\ PhaseInv /\ Verdict

\* A list of occurrences read to its end is good or has one that is bad.
LEMMA GoodIsNotBad ==
  ASSUME NEW source, NEW known, NEW overridden
  PROVE  Good(source, known, overridden, Len(source))
         <=> ~Bad(source, known, overridden)
  BY DEF Good, Bad

\* Command line and configuration file are sequences of occurrences.
LEMMA Sources ==
  ASSUME OptionsAssumption, OptionsTypeOK
  PROVE  /\ argv \in Seq(Occurrences) /\ Len(argv) \in Nat
         /\ config.occurrences \in Seq(Occurrences)
         /\ Len(config.occurrences) \in Nat
  BY DEF OptionsAssumption, OptionsTypeOK

\* The head and the tail of a sequence that is not empty.
LEMMA Heads ==
  ASSUME NEW S, NEW q \in Seq(S), q # <<>>
  PROVE  /\ q[1] \in S /\ Tail(q) \in Seq(S) /\ Len(q) \in Nat \ {0}
         /\ Len(Tail(q)) = Len(q) - 1
         /\ \A h \in 1 .. (Len(q) - 1) : Tail(q)[h] = q[h + 1]
  OBVIOUS

\* One more occurrence is done.
LEMMA DoneOneMore ==
  ASSUME NEW source \in Seq(Occurrences), NEW known,
         todo \in Seq(Occurrences), todo # <<>>,
         Underway(source, known), todo' = Tail(todo), final' = final,
         todo[1][1] \in known,
         todo[1][1] \in final \/ (IsValid(todo[1][1], todo[1][2])
                                  /\ (todo[1][1] \notin fresh \/ todo[1][1] \in Lists)),
         fresh' = IF todo[1][1] \in final THEN fresh ELSE fresh \cup {todo[1][1]}
  PROVE  Underway(source, known)'
<1>1. PICK n \in 0 .. Len(source) : Done(source, n) /\ Good(source, known, final, n)
  BY DEF Underway
<1>2. /\ Len(source) \in Nat /\ Len(todo) \in Nat \ {0} /\ n + 1 \in 0 .. Len(source)
      /\ todo[1] = source[n + 1] /\ n \in Nat
  BY <1>1, Heads DEF Done
<1>3. Good(source, known, final, n + 1)
  <2>1. SUFFICES ASSUME NEW h \in 1 .. (n + 1)
                 PROVE  /\ source[h][1] \in known
                        /\ source[h][1] \notin final =>
                             /\ IsValid(source[h][1], source[h][2])
                             /\ source[h][1] \notin Lists =>
                                  \A j \in 1 .. (h - 1) : source[j][1] # source[h][1]
    BY DEF Good
  <2>2. CASE h \in 1 .. n
    BY <1>1, <2>2 DEF Good
  <2>3. CASE h = n + 1
    <3>1. source[h] = todo[1]
      BY <1>2, <2>3
    <3>2. ASSUME todo[1][1] \notin final, todo[1][1] \notin Lists,
                 NEW j \in 1 .. (h - 1)
          PROVE  source[j][1] # todo[1][1]
      BY <1>1, <1>2, <2>3, <3>2 DEF Done
    <3>3. ASSUME todo[1][1] \notin final
          PROVE  IsValid(todo[1][1], todo[1][2])
      BY <3>3
    <3>4. todo[1][1] \in known
      OBVIOUS
    <3>5. source[h][1] = todo[1][1] /\ source[h][2] = todo[1][2]
      BY <3>1
    <3>6. source[h][1] \in known
      BY <3>4, <3>5
    <3>7. ASSUME source[h][1] \notin final PROVE IsValid(source[h][1], source[h][2])
      BY ONLY <3>3, <3>5, <3>7, Zenon
    <3>8. ASSUME source[h][1] \notin final, source[h][1] \notin Lists,
                 NEW j \in 1 .. (h - 1)
          PROVE  source[j][1] # source[h][1]
      BY <3>2, <3>5, <3>8
    <3> QED BY <3>6, <3>7, <3>8
  <2> QED BY <1>2, <2>2, <2>3
<1>4. Done(source, n + 1)'
  <2>1. /\ Len(todo') = Len(source) - (n + 1)
        /\ \A h \in 1 .. Len(todo') : todo'[h] = source[n + 1 + h]
    <3>1. /\ Len(todo') = Len(todo) - 1
          /\ \A h \in 1 .. (Len(todo) - 1) : todo'[h] = todo[h + 1]
      BY Heads
    <3>2. Len(todo) = Len(source) - n
          /\ \A h \in 1 .. Len(todo) : todo[h] = source[n + h]
      BY <1>1 DEF Done
    <3>3. Len(todo') = Len(source) - (n + 1)
      BY <1>2, <3>1, <3>2
    <3>4. ASSUME NEW h \in 1 .. Len(todo') PROVE todo'[h] = source[n + 1 + h]
      <4>1. h \in 1 .. (Len(todo) - 1) /\ h + 1 \in 1 .. Len(todo)
            /\ n + (h + 1) = n + 1 + h
        BY <1>2, <3>1
      <4>2. todo'[h] = todo[h + 1] /\ todo[h + 1] = source[n + (h + 1)]
        BY <3>1, <3>2, <4>1
      <4> QED BY <4>1, <4>2
    <3> QED BY <3>3, <3>4
  <2>2. ASSUME NEW o
        PROVE  o \in fresh' <=>
               o \notin final /\ \E h \in 1 .. (n + 1) : source[h][1] = o
    <3>1. o \in fresh <=> o \notin final /\ \E h \in 1 .. n : source[h][1] = o
      BY <1>1 DEF Done
    <3>2. (\E h \in 1 .. (n + 1) : source[h][1] = o)
          <=> (\E h \in 1 .. n : source[h][1] = o) \/ todo[1][1] = o
      BY <1>2
    <3> QED BY <3>1, <3>2
  <2> QED BY <1>2, <2>1, <2>2 DEF Done
<1> QED BY <1>2, <1>3, <1>4 DEF Underway

\* Nothing is done before the first occurrence is read.
LEMMA OptionsInitInv ==
  ASSUME OptionsAssumption, OptionsInit
  PROVE  OptionsInv
<1>1. OptionsTypeOK
  BY DEF OptionsInit, OptionsTypeOK, Phases
<1>2. todo \in Seq(Occurrences) /\ todo = argv /\ Len(argv) \in Nat
  BY DEF OptionsAssumption, OptionsInit
<1>3. Done(argv, 0) /\ Good(argv, Names, {}, 0)
  BY <1>2 DEF OptionsInit, Done, Good
<1>4. Underway(argv, Names)
  BY <1>2, <1>3 DEF Underway, OptionsInit
<1> QED BY <1>1, <1>2, <1>4 DEF OptionsInv, OptionsInit, PhaseInv, Verdict

\* A step that stores or passes over one occurrence.
LEMMA OneMoreStep ==
  ASSUME OptionsAssumption, OptionsInv, Overridden \/ Store
  PROVE  OptionsInv'
<1> USE DEF OptionsInv
<1>1. /\ todo \in Seq(Occurrences) /\ todo # <<>> /\ todo' = Tail(todo)
      /\ phase' = phase /\ phase \in {"command_line", "config"}
      /\ final' = final /\ argv' = argv /\ config' = config
      /\ todo[1][1] \in Known
      /\ todo[1][1] \in final
         \/ (IsValid(todo[1][1], todo[1][2])
             /\ (todo[1][1] \notin fresh \/ todo[1][1] \in Lists))
      /\ fresh' = IF todo[1][1] \in final THEN fresh
                  ELSE fresh \cup {todo[1][1]}
  BY DEF Overridden, Store, Storing, Acceptable, Name, Value, sources
<1>2. Names = Names /\ Configurable \subseteq Names /\ Known \subseteq Names
  BY DEF Known, Names, Configurable, Switches, Flags, Lists, Strings,
         NotNegative, Positive
<1>3. todo' \in Seq(Occurrences)
  BY <1>1, Heads
<1>4. DOMAIN values' = Names
  BY DEF Overridden, Store, OptionsTypeOK
<1>5. OptionsTypeOK'
  BY <1>1, <1>2, <1>4 DEF OptionsTypeOK
<1>6. CASE phase = "command_line"
  <2>1. Underway(argv, Names)'
    <3>1. Known = Names /\ Underway(argv, Names)
      BY <1>6 DEF Known, PhaseInv
    <3> QED BY <1>1, <3>1, DoneOneMore, Sources
  <2> QED BY <1>1, <1>3, <1>5, <1>6, <2>1 DEF PhaseInv, Verdict
<1>7. CASE phase = "config"
  <2>1. Underway(config.occurrences, Configurable)'
    <3>1. Known = Configurable /\ Underway(config.occurrences, Configurable)
      BY <1>7 DEF Known, PhaseInv
    <3>2. config'.occurrences = config.occurrences
      BY <1>1
    <3> QED BY <1>1, <3>1, <3>2, DoneOneMore, Sources
  <2>2. final' = GivenFirst' /\ ConfigRead' /\ ~BadCommandLine' /\ fresh' \subseteq Names
    BY <1>1, <1>5, <1>7 DEF PhaseInv, GivenFirst, ConfigRead, BadCommandLine,
                            OptionsTypeOK
  <2> QED BY <1>1, <1>3, <1>5, <1>7, <2>1, <2>2 DEF PhaseInv, Verdict
<1> QED BY <1>1, <1>6, <1>7

\* The first occurrence that is left is not sound.
LEMMA RejectFinds ==
  ASSUME NEW source \in Seq(Occurrences), NEW known,
         todo \in Seq(Occurrences), todo # <<>>, Underway(source, known),
         \/ todo[1][1] \notin known
         \/ /\ todo[1][1] \notin final
            /\ ~(/\ IsValid(todo[1][1], todo[1][2])
                 /\ todo[1][1] \notin fresh \/ todo[1][1] \in Lists)
  PROVE  Bad(source, known, final)
<1>1. PICK n \in 0 .. Len(source) : Done(source, n)
  BY DEF Underway
<1>2. /\ Len(source) \in Nat /\ Len(todo) \in Nat \ {0} /\ n + 1 \in 1 .. Len(source)
      /\ todo[1] = source[n + 1] /\ n \in Nat
  BY <1>1, Heads DEF Done
<1>3. source[n + 1][1] = todo[1][1] /\ source[n + 1][2] = todo[1][2]
  BY <1>2
<1>4. CASE todo[1][1] \notin known
  BY <1>2, <1>3, <1>4 DEF Bad
<1>5. CASE todo[1][1] \notin final /\ ~IsValid(todo[1][1], todo[1][2])
  <2>1. ~IsValid(source[n + 1][1], source[n + 1][2])
    BY ONLY <1>3, <1>5, Zenon
  <2> QED BY <1>2, <1>3, <1>5, <2>1 DEF Bad
<1>6. CASE todo[1][1] \notin final /\ todo[1][1] \in fresh /\ todo[1][1] \notin Lists
  <2>1. PICK j \in 1 .. n : source[j][1] = todo[1][1]
    BY <1>1, <1>6 DEF Done
  <2>2. j \in 1 .. (n + 1 - 1)
    BY <1>2
  <2> QED BY <1>2, <1>3, <1>6, <2>1, <2>2 DEF Bad
<1> QED BY <1>4, <1>5, <1>6

\* A rejected occurrence is bad, so that the error is one that is there.
LEMMA RejectStep ==
  ASSUME OptionsAssumption, OptionsInv, Reject
  PROVE  OptionsInv'
<1> USE DEF OptionsInv
<1>1. /\ phase' = "error" /\ todo # <<>> /\ phase \in {"command_line", "config"}
      /\ UNCHANGED <<argv, config, todo, values, fresh, final>>
  BY DEF Reject, Storing, sources
<1>2. \/ todo[1][1] \notin Known
      \/ /\ todo[1][1] \notin final
         /\ ~(/\ IsValid(todo[1][1], todo[1][2])
              /\ todo[1][1] \notin fresh \/ todo[1][1] \in Lists)
  BY DEF Reject, Acceptable, Name, Value
<1>3. OptionsTypeOK'
  BY <1>1 DEF OptionsTypeOK, Phases
<1>4. BadCommandLine \/ BadConfig
  <2>1. CASE phase = "command_line"
    <3>1. Known = Names /\ Underway(argv, Names) /\ final = {}
      BY <2>1 DEF Known, PhaseInv
    <3>2. Bad(argv, Names, final)
      BY <1>1, <1>2, <3>1, RejectFinds, Sources
    <3> QED BY <3>1, <3>2 DEF BadCommandLine
  <2>2. CASE phase = "config"
    <3>1. Known = Configurable /\ Underway(config.occurrences, Configurable)
          /\ final = GivenFirst /\ ConfigRead
      BY <2>2 DEF Known, PhaseInv
    <3>2. Bad(config.occurrences, Configurable, final)
      BY <1>1, <1>2, <3>1, RejectFinds, Sources
    <3> QED BY <3>1, <3>2 DEF BadConfig, GivenFirst
  <2> QED BY <1>1, <2>1, <2>2
<1>5. (BadCommandLine \/ BadConfig)'
  BY <1>1, <1>4 DEF BadCommandLine, BadConfig, ConfigRead
<1> QED BY <1>1, <1>3, <1>5 DEF PhaseInv, Verdict

\* All of a source is done.
LEMMA AllDone ==
  ASSUME NEW source \in Seq(Occurrences), NEW known, todo = <<>>,
         Underway(source, known)
  PROVE  /\ ~Bad(source, known, final)
         /\ \A o : o \in fresh <=> o \notin final /\ GivenIn(source, o)
<1>1. PICK n \in 0 .. Len(source) : Done(source, n) /\ Good(source, known, final, n)
  BY DEF Underway
<1>2. n = Len(source)
  <2>1. Len(todo) = 0 /\ Len(source) \in Nat
    OBVIOUS
  <2> QED BY <1>1, <2>1 DEF Done
<1>3. ~Bad(source, known, final)
  BY <1>1, <1>2, GoodIsNotBad
<1> QED BY <1>1, <1>2, <1>3 DEF Done, GivenIn

\* Once both sources are stored, everything read was good.
LEMMA StoredStep ==
  ASSUME OptionsAssumption, OptionsInv, Stored
  PROVE  OptionsInv'
<1> USE DEF OptionsInv
<1>1. /\ todo = <<>> /\ phase \in {"command_line", "config"}
      /\ final' = final \cup fresh /\ fresh' = {}
      /\ phase' = IF phase = "config" THEN "print_config" ELSE "notify"
      /\ UNCHANGED <<argv, config, todo, values>>
  BY DEF Stored, sources
<1>2. OptionsTypeOK'
  BY <1>1 DEF OptionsTypeOK, Phases
<1>3. CASE phase = "command_line"
  <2>1. /\ ~Bad(argv, Names, final) /\ final = {}
        /\ \A o : o \in fresh <=> GivenIn(argv, o)
    BY <1>1, <1>3, AllDone, Sources DEF PhaseInv
  <2>2. ~BadCommandLine'
    BY <1>1, <2>1 DEF BadCommandLine
  <2>3. final' = GivenFirst'
    BY <1>1, <2>1 DEF GivenFirst, GivenIn, OptionsTypeOK
  <2> QED BY <1>1, <1>2, <1>3, <2>2, <2>3 DEF PhaseInv, Verdict
<1>4. CASE phase = "config"
  <2>1. ~Bad(config.occurrences, Configurable, final) /\ final = GivenFirst
        /\ ConfigRead /\ ~BadCommandLine
    BY <1>1, <1>4, AllDone, Sources DEF PhaseInv
  <2>2. ~BadConfig /\ ~BadCommandLine
    BY <2>1 DEF BadConfig, GivenFirst
  <2>3. ~BadConfig' /\ ~BadCommandLine'
    BY <1>1, <2>2 DEF BadConfig, BadCommandLine, ConfigRead
  <2> QED BY <1>1, <1>2, <1>4, <2>3 DEF PhaseInv, Verdict
<1> QED BY <1>1, <1>3, <1>4

\* The steps that only change the phase, and Open.
LEMMA RestStep ==
  ASSUME OptionsAssumption, OptionsInv,
         Notify \/ SupportFails \/ Help \/ Open \/ NoConfig \/ PrintConfig
  PROVE  OptionsInv'
<1> USE DEF OptionsInv
<1>1. UNCHANGED <<argv, config, values, fresh, final>>
  BY DEF Notify, SupportFails, Help, Open, NoConfig, PrintConfig, Go, sources
<1>2. /\ BadCommandLine' = BadCommandLine /\ BadConfig' = BadConfig
      /\ GivenFirst' = GivenFirst /\ ConfigRead' = ConfigRead
      /\ \A o : Given(o)' = Given(o)
  BY <1>1 DEF BadCommandLine, BadConfig, GivenFirst, ConfigRead, Given
<1>3. phase' \in Phases
  BY DEF Notify, SupportFails, Help, Open, NoConfig, PrintConfig, Go, Phases
<1>4. OptionsTypeOK'
  BY <1>1, <1>3 DEF OptionsTypeOK
<1>5. ~BadCommandLine
  BY DEF Notify, SupportFails, Help, Open, NoConfig, PrintConfig, PhaseInv
<1>6. CASE Open
  <2>1. /\ todo' = config.occurrences /\ phase' = "config" /\ ConfigRead
        /\ fresh = {} /\ final = GivenFirst /\ phase = "open"
    BY <1>6 DEF Open, ConfigRead, PhaseInv
  <2>2. todo' \in Seq(Occurrences) /\ Len(config.occurrences) \in Nat
        /\ config.occurrences \in Seq(Occurrences)
    BY <2>1, Sources
  <2>3. Done(config.occurrences, 0)' /\ Good(config.occurrences, Configurable, final, 0)'
    BY <1>1, <2>1, <2>2 DEF Done, Good
  <2>4. Underway(config.occurrences, Configurable)'
    BY <1>1, <2>2, <2>3 DEF Underway
  <2>5. fresh' \subseteq Names
    BY <1>1, <2>1
  <2>6. PhaseInv'
    BY <1>1, <1>2, <1>5, <2>1, <2>4, <2>5 DEF PhaseInv
  <2>7. Verdict'
    BY <2>1 DEF Verdict
  <2> QED BY <1>4, <2>2, <2>6, <2>7
<1>7. CASE Notify \/ SupportFails \/ Help
  <2>1. /\ todo' = todo /\ phase \in {"notify", "help"}
        /\ phase' \in {"exit", "error", "help", "open"}
        /\ phase' = "exit" => Given("support") \/ Given("version") \/ Given("help")
        /\ phase' = "error" => Given("support")
    BY <1>7 DEF Notify, SupportFails, Help, Go
  <2>2. PhaseInv'
    BY <1>1, <1>2, <1>5, <2>1 DEF PhaseInv
  <2>3. Verdict'
    BY <1>2, <1>5, <2>1 DEF Verdict
  <2> QED BY <1>4, <2>1, <2>2, <2>3
<1>8. CASE NoConfig
  <2>1. /\ todo' = todo /\ phase = "open" /\ config.kind = "absent"
        /\ phase' = IF values["config-file"] = default("config-file")
                    THEN "print_config" ELSE "error"
    BY <1>8 DEF NoConfig, Go
  <2>2. BadConfig <=> values["config-file"] # default("config-file")
    BY <2>1 DEF BadConfig, ConfigRead
  <2>3. PhaseInv'
    BY <1>2, <1>5, <2>1, <2>2 DEF PhaseInv
  <2>4. Verdict'
    BY <1>2, <1>5, <2>1, <2>2 DEF Verdict
  <2> QED BY <1>4, <2>1, <2>3, <2>4
<1>9. CASE PrintConfig
  <2>1. /\ todo' = todo /\ phase = "print_config" /\ phase' \in {"exit", "ready"}
    BY <1>9 DEF PrintConfig, Go
  <2>2. ~BadConfig
    BY <2>1 DEF PhaseInv
  <2> QED BY <1>2, <1>4, <1>5, <2>1, <2>2 DEF PhaseInv, Verdict
<1> QED BY <1>6, <1>7, <1>8, <1>9

\* Every step of the option parser keeps its invariant.
LEMMA OptionsInvariant ==
  ASSUME OptionsAssumption, OptionsInv, [OptionsNext]_optvars
  PROVE  OptionsInv'
<1>1. CASE UNCHANGED optvars
  <2> USE <1>1 DEF optvars, sources, OptionsInv
  <2>1. OptionsTypeOK' /\ todo' \in Seq(Occurrences)
    BY DEF OptionsTypeOK
  <2>2. PhaseInv'
    <3>1. UNCHANGED <<argv, config, phase, todo, values, fresh, final>>
      OBVIOUS
    <3>2. Underway(argv, Names)' = Underway(argv, Names)
      BY <3>1 DEF Underway, Done, Good
    <3>3. Underway(config.occurrences, Configurable)'
          = Underway(config.occurrences, Configurable)
      BY <3>1 DEF Underway, Done, Good
    <3>4. /\ BadCommandLine' = BadCommandLine /\ BadConfig' = BadConfig
          /\ GivenFirst' = GivenFirst /\ ConfigRead' = ConfigRead
      BY <3>1 DEF BadCommandLine, BadConfig, GivenFirst, ConfigRead
    <3> QED BY <3>1, <3>2, <3>3, <3>4 DEF PhaseInv
  <2>3. Verdict'
    BY DEF Verdict, BadCommandLine, BadConfig, ConfigRead, Given
  <2> QED BY <2>1, <2>2, <2>3
<1>2. CASE OptionsNext
  BY <1>2, OneMoreStep, RejectStep, StoredStep, RestStep DEF OptionsNext
<1> QED BY <1>1, <1>2

-----------------------------------------------------------------------------
(* The processes, and the whole.                                           *)

\* The child is there after the fork only, and each place is reached with the
\* options and the input that it takes for granted.
ProcessInv ==
  /\ front \in FrontPlaces
  /\ child \in ChildPlaces
  /\ child # "none" => front \in {"parent", "ok"} /\ Given("background")
  /\ front \notin {"options", "ok", "error", "killed"} => phase = "ready"
  /\ front \in {"quvi", "background", "parent", "run"} => where = "done"
  /\ front = "ok" => \/ phase = "exit"
                     \/ phase = "ready" /\ where = "done"

StartupInv == OptionsInv /\ InputInv /\ ProcessInv

\* The invariant holds when main is entered.
LEMMA StartupInitInv ==
  ASSUME OptionsAssumption, InputAssumption, StartupInit
  PROVE  StartupInv
  BY OptionsInitInv, InputInitInv
  DEF StartupInit, StartupInv, ProcessInv, FrontPlaces, ChildPlaces, Ended

\* The steps of the processes themselves, which leave options and input alone.
Own ==
  \/ OptionsReturn \/ OptionsThrow \/ InputReturn \/ InputThrow
  \/ QuviInit \/ QuviFails \/ Foreground \/ ForkFails \/ Fork
  \/ ParentExits \/ ChildStep \/ Run

\* They do leave them alone.
LEMMA OwnFrame ==
  ASSUME Own
  PROVE  UNCHANGED <<optvars, inputvars>>
  BY DEF Own, OptionsReturn, OptionsThrow, InputReturn, InputThrow, QuviInit,
         QuviFails, Foreground, ForkFails, Fork, ParentExits, ChildStep, Detach,
         OpenLog, LogFails, Run, FrontTo, ChildTo

\* Each keeps the order of the places.
LEMMA OwnStep ==
  ASSUME ProcessInv, Own \/ UNCHANGED ownvars, UNCHANGED <<optvars, inputvars>>
  PROVE  ProcessInv'
<1> USE DEF ProcessInv, FrontPlaces, ChildPlaces, Ended
<1>1. UNCHANGED <<phase, where>> /\ Given("background")' = Given("background")
  BY DEF optvars, inputvars, Given
<1>2. CASE OptionsReturn \/ OptionsThrow \/ InputReturn \/ InputThrow
           \/ QuviInit \/ QuviFails
  BY <1>1, <1>2 DEF OptionsReturn, OptionsThrow, InputReturn, InputThrow,
                    QuviInit, QuviFails, FrontTo
<1>3. CASE Foreground \/ ForkFails \/ Fork \/ ParentExits
  BY <1>1, <1>3 DEF Foreground, ForkFails, Fork, ParentExits, FrontTo
<1>4. CASE ChildStep
  BY <1>1, <1>4 DEF ChildStep, Detach, OpenLog, LogFails, ChildTo
<1>5. CASE Run
  <2>1. PICK status \in {"ok", "error"} :
          (front = "run" /\ FrontTo(status)) \/ (child = "run" /\ ChildTo(status))
    BY <1>5 DEF Run
  <2>2. CASE front = "run" /\ FrontTo(status)
    BY <1>1, <2>1, <2>2 DEF FrontTo
  <2>3. CASE child = "run" /\ ChildTo(status)
    BY <1>1, <2>1, <2>3 DEF ChildTo
  <2> QED BY <2>1, <2>2, <2>3
<1>6. CASE UNCHANGED ownvars
  BY <1>1, <1>6 DEF ownvars
<1> QED BY <1>2, <1>3, <1>4, <1>5, <1>6 DEF Own

\* What a step of the start is: one of the options, one of the input, or one of
\* a process.
LEMMA StartupSteps ==
  ASSUME [StartupNext]_startvars
  PROVE  \/ OptionsStep \/ InputStep
         \/ (Own \/ UNCHANGED ownvars) /\ UNCHANGED <<optvars, inputvars>>
  BY OwnFrame DEF StartupNext, FrontStep, Exited, Own, startvars

\* Every step of the options, of the input or of a process keeps the invariant.
LEMMA StartupStep ==
  ASSUME OptionsAssumption, InputAssumption, StartupInv,
         [StartupNext]_startvars
  PROVE  StartupInv'
<1> USE DEF StartupInv
<1>1. CASE OptionsStep
  <2>1. front = "options" /\ OptionsNext /\ UNCHANGED <<inputvars, ownvars>>
    BY <1>1 DEF OptionsStep
  <2>2. OptionsInv' /\ InputInv'
    BY <2>1, OptionsInvariant, InputInvStep
  <2> QED BY <2>1, <2>2 DEF ProcessInv, ownvars
<1>2. CASE InputStep
  <2>1. front = "input" /\ InputNext /\ UNCHANGED <<optvars, ownvars>>
    BY <1>2 DEF InputStep
  <2>2. OptionsInv' /\ InputInv'
    BY <2>1, OptionsInvariant, InputInvStep
  <2> QED BY <2>1, <2>2 DEF ProcessInv, ownvars, optvars
<1>3. CASE (Own \/ UNCHANGED ownvars) /\ UNCHANGED <<optvars, inputvars>>
  BY <1>3, OwnStep, OptionsInvariant, InputInvStep
<1> QED BY <1>1, <1>2, <1>3, StartupSteps

\* The invariant of the start holds throughout.
LEMMA StartupInvariance == StartupSpec => []StartupInv
<1>1. StartupInit => StartupInv
  BY OptionsAssumption, InputAssumption, StartupInitInv
<1>2. StartupInv /\ [StartupNext]_startvars => StartupInv'
  BY OptionsAssumption, InputAssumption, StartupStep
<1> QED BY <1>1, <1>2, PTL DEF StartupSpec

\* All variables have their types.
THEOREM StartupTypeCorrect == StartupSpec => []StartupTypeOK
<1>1. StartupInv => StartupTypeOK
  BY DEF StartupInv, StartupTypeOK, OptionsInv, InputInv, ProcessInv
<1> QED BY <1>1, StartupInvariance, PTL

\* For every command line and configuration file: cclive starts only if they
\* are sound, and refuses only if they are not.
THEOREM VerdictIsSound == StartupSpec => []Verdict
<1>1. StartupInv => Verdict
  BY DEF StartupInv, OptionsInv
<1> QED BY <1>1, StartupInvariance, PTL

\* The composed specification leaves one of each URL, like the input alone.
THEOREM StartupHasOneOfEach == StartupSpec => []OneOfEach
<1>1. StartupInv => OneOfEach
  BY DEF StartupInv, InputInv
<1> QED BY <1>1, StartupInvariance, PTL

\* To the input, the rest of the start is nothing but waiting.
LEMMA StartupIsInput == StartupSpec => InputSpec
<1>1. StartupInit => InputInit
  BY DEF StartupInit
<1>2. [StartupNext]_startvars => [InputNext]_inputvars
  BY StartupSteps DEF OptionsStep, InputStep
<1> QED BY <1>1, <1>2, PTL DEF StartupSpec, InputSpec

\* The composed specification reads the lists in order, like the input alone.
THEOREM StartupReadsInOrder == StartupSpec => []InputAsRead
BY StartupIsInput, InputReadsInOrder, PTL

\* The process that the shell waits for succeeds only if there is no error in
\* the options, the configuration file or the input.
THEOREM ErrorsAreSeen == StartupSpec => []ErrorsBeforeDetaching
<1>1. StartupInv => ErrorsBeforeDetaching
  <2>1. SUFFICES ASSUME OptionsInv, ProcessInv PROVE ErrorsBeforeDetaching
    BY DEF StartupInv
  <2>2. phase = "ready" => ~BadCommandLine /\ ~BadConfig
    BY <2>1 DEF OptionsInv, Verdict
  <2> QED BY <2>1, <2>2 DEF ProcessInv, ErrorsBeforeDetaching
<1> QED BY <1>1, StartupInvariance, PTL

-----------------------------------------------------------------------------
(* Where the values come from.  The invariant: of the source that is being *)
(* stored, each option that is not final has what the occurrences done so  *)
(* far give it, if any, or its default.                                    *)

\* What occurrences give the options.
Values == {x[2] : x \in Occurrences}

\* Occurring goes through the source from its beginning to its end.
LEMMA OccurringSteps ==
  ASSUME NEW source \in Seq(Occurrences), NEW o
  PROVE  /\ Occurring(source, o, 0) = <<>>
         /\ \A n \in 0 .. Len(source) : Occurring(source, o, n) \in Seq(Values)
         /\ \A n \in 1 .. Len(source) :
              Occurring(source, o, n) =
                IF source[n][1] = o
                THEN Append(Occurring(source, o, n - 1), source[n][2])
                ELSE Occurring(source, o, n - 1)
<1> DEFINE D == 0 .. Len(source)
           X == Seq(Values)
           Body(u) == [h \in D |->
             IF h = 0 THEN <<>>
             ELSE IF source[h][1] = o THEN Append(u[h - 1], source[h][2])
             ELSE u[h - 1]]
           u0 == CHOOSE u : u = Body(u)
           G == [h \in D |-> [g \in [D -> X] |-> Body(g)[h]]]
           r == [h \in D |-> h]
<1>1. \A n : Occurring(source, o, n) = u0[n]
  BY DEF Occurring
<1>2. Len(source) \in Nat /\ \A h \in 1 .. Len(source) : source[h][2] \in Values
  BY DEF Values
<1>3. r \in [D -> Nat]
  BY <1>2
<1>4. ASSUME NEW u, NEW h \in D, \A i \in D : r[i] < r[h] => u[i] \in X
      PROVE  Body(u)[h] \in X
  <2>1. CASE h = 0
    BY <2>1
  <2>2. CASE h # 0
    <3>1. h - 1 \in D /\ r[h - 1] < r[h]
      BY <1>2, <2>2
    <3>2. u[h - 1] \in Seq(Values) /\ source[h][2] \in Values
      BY <1>2, <1>4, <2>2, <3>1
    <3> QED BY <2>2, <3>2
  <2> QED BY <2>1, <2>2
<1>5. ASSUME NEW g1, NEW g2, NEW h \in D, \A i \in D : r[i] < r[h] => g1[i] = g2[i]
      PROVE  Body(g1)[h] = Body(g2)[h]
  <2>1. CASE h = 0
    BY <2>1
  <2>2. CASE h # 0
    <3>1. h - 1 \in D /\ r[h - 1] < r[h]
      BY <1>2, <2>2
    <3>2. g1[h - 1] = g2[h - 1]
      BY <1>5, <3>1
    <3> QED BY <3>2
  <2> QED BY <2>1, <2>2
<1>6. DOMAIN Body(u0) = D /\ \A u : Body(u) = [h \in D |-> Body(u)[h]]
  OBVIOUS
<1>7. \A h \in D, g \in [D -> X] : G[h][g] = Body(g)[h]
  OBVIOUS
<1>8. X # {}
  <2>1. <<>> \in X
    OBVIOUS
  <2> HIDE DEF X
  <2> QED BY <2>1
<1> HIDE DEF D, Body, r, X
<1>9. G \in [D -> [[D -> X] -> X]]
  BY <1>4
<1> HIDE DEF G
<1>10. Descends(D, X, r, G)
  <2>1. ASSUME NEW h \in D, NEW g1 \in [D -> X], NEW g2 \in [D -> X],
               \A i \in D : r[i] < r[h] => g1[i] = g2[i]
        PROVE  G[h][g1] = G[h][g2]
    <3>1. Body(g1)[h] = Body(g2)[h]
      BY <1>5, <2>1, Zenon
    <3>2. G[h][g1] = Body(g1)[h] /\ G[h][g2] = Body(g2)[h]
      BY <1>7
    <3> QED BY <3>1, <3>2
  <2> QED BY <2>1 DEF Descends
<1>11. PICK g \in [D -> X] : Solves(g, D, G)
  BY <1>3, <1>8, <1>9, <1>10, Solvable
<1>12. g = Body(g)
  BY <1>6, <1>7, <1>11 DEF Solves
<1>13. u0 = Body(u0)
  BY <1>12
<1> HIDE DEF u0
<1> DEFINE T == {h \in D : u0[h] \in X}
<1>14. ASSUME NEW h \in D, \A i \in D : r[i] < r[h] => i \in T
       PROVE  h \in T
  BY <1>4, <1>13, <1>14
<1>15. T = D
  <2>1. T \in SUBSET D
    OBVIOUS
  <2> HIDE DEF T
  <2>2. ASSUME T # D PROVE FALSE
    <3>1. r \in [D -> Nat]
      BY <1>3
    <3>2. PICK h \in D : h \notin T /\ \A i \in D : r[i] < r[h] => i \in T
      BY ONLY <2>1, <2>2, <3>1, ByRank
    <3> QED BY <1>14, <3>2
  <2> QED BY <2>2
<1>16. \A h \in D : u0[h] = IF h = 0 THEN <<>>
                    ELSE IF source[h][1] = o THEN Append(u0[h - 1], source[h][2])
                    ELSE u0[h - 1]
  BY <1>13 DEF Body
<1>17. 0 \in D /\ \A n \in 1 .. Len(source) : n \in D /\ n # 0
  BY <1>2 DEF D
<1>18. u0[0] = <<>> /\ \A n \in 1 .. Len(source) :
         u0[n] = IF source[n][1] = o THEN Append(u0[n - 1], source[n][2])
                 ELSE u0[n - 1]
  BY <1>16, <1>17
<1>19. \A n \in 0 .. Len(source) : u0[n] \in Seq(Values)
  BY <1>15 DEF D, X
<1> QED BY <1>1, <1>18, <1>19, Zenon

\* The occurrences that make the value v of an option.
Held(o, v) == IF o \in Lists THEN v ELSE <<v>>

\* What has been stored so far comes from the occurrences that are done.
StoredSoFar(source) ==
  \A o \in Names \ final :
    LET have == Occurring(source, o, Len(source) - Len(todo)) IN
      IF o \in fresh THEN have = Held(o, values[o])
                     ELSE have = <<>> /\ values[o] = default(o)

Sourced ==
  \A o \in Names :
    values[o] = IF GivenIn(argv, o) THEN ValuesIn(argv, o)
                ELSE IF ConfigRead /\ GivenIn(config.occurrences, o)
                     THEN ValuesIn(config.occurrences, o)
                ELSE default(o)

ValuesInv ==
  /\ phase = "command_line" => StoredSoFar(argv)
  /\ phase \in {"notify", "help", "open", "config"} =>
       \A o \in Names \cap final : values[o] = ValuesIn(argv, o)
  /\ phase \in {"notify", "help", "open"} =>
       \A o \in Names \ final : values[o] = default(o)
  /\ phase = "config" => StoredSoFar(config.occurrences)
  /\ phase \in {"print_config", "ready"} => Sourced

\* One occurrence is stored, or passed over.
LEMMA OneMoreStored ==
  ASSUME OptionsAssumption, OptionsInv, Overridden \/ Store,
         NEW source \in Seq(Occurrences), NEW known,
         Underway(source, known), StoredSoFar(source)
  PROVE  \A o \in Names \ final :
           LET have == Occurring(source, o, Len(source) - Len(todo')) IN
             IF o \in fresh' THEN have = Held(o, values'[o])
                             ELSE have = <<>> /\ values'[o] = default(o)
<1>1. PICK m \in 0 .. Len(source) : Done(source, m)
  BY DEF Underway
<1>2. /\ todo \in Seq(Occurrences) /\ todo # <<>> /\ todo' = Tail(todo)
      /\ DOMAIN values = Names
  BY DEF Overridden, Store, Storing, OptionsInv, OptionsTypeOK
<1> DEFINE n == Len(source) - Len(todo')
           e == todo[1]
<1>3. /\ n \in 1 .. Len(source) /\ n - 1 = Len(source) - Len(todo)
      /\ source[n] = e
  <2>1. Len(source) \in Nat /\ Len(todo) \in Nat \ {0} /\ Len(todo') = Len(todo) - 1
    BY <1>2, Heads
  <2>2. m = n - 1 /\ todo[1] = source[m + 1]
    BY <1>1, <2>1 DEF Done
  <2> QED BY <1>1, <2>1, <2>2
<1>4. ASSUME NEW o \in Names \ final
      PROVE  /\ Occurring(source, o, n) =
                  IF e[1] = o THEN Append(Occurring(source, o, n - 1), e[2])
                  ELSE Occurring(source, o, n - 1)
             /\ IF o \in fresh THEN Occurring(source, o, n - 1) = Held(o, values[o])
                ELSE Occurring(source, o, n - 1) = <<>> /\ values[o] = default(o)
  <2>1. Occurring(source, o, n) =
          IF source[n][1] = o THEN Append(Occurring(source, o, n - 1), source[n][2])
          ELSE Occurring(source, o, n - 1)
    <3> HIDE DEF n, e
    <3> QED BY <1>3, OccurringSteps
  <2>2. IF o \in fresh
        THEN Occurring(source, o, Len(source) - Len(todo)) = Held(o, values[o])
        ELSE /\ Occurring(source, o, Len(source) - Len(todo)) = <<>>
             /\ values[o] = default(o)
    BY DEF StoredSoFar
  <2> HIDE DEF n, e
  <2> QED BY <1>3, <2>1, <2>2
<1> HIDE DEF n
<1>5. CASE Overridden
  <2>1. e[1] \in final /\ UNCHANGED <<values, fresh>>
    BY <1>5 DEF Overridden, Name
  <2> HIDE DEF e
  <2>2. ASSUME NEW o \in Names \ final
        PROVE  IF o \in fresh' THEN Occurring(source, o, n) = Held(o, values'[o])
               ELSE Occurring(source, o, n) = <<>> /\ values'[o] = default(o)
    BY <1>4, <2>1
  <2> QED BY <2>2 DEF n
<1>6. CASE Store
  <2>1. /\ e[1] \in Known \ final
        /\ values' = [values EXCEPT ![e[1]] =
                        IF e[1] \notin Lists THEN e[2]
                        ELSE IF e[1] \in fresh THEN Append(values[e[1]], e[2])
                        ELSE <<e[2]>>]
        /\ fresh' = fresh \cup {e[1]}
        /\ e[1] \notin fresh \/ e[1] \in Lists
    BY <1>6 DEF Store, Name, Value, Acceptable
  <2> HIDE DEF e
  <2>2. ASSUME NEW o \in Names \ final
        PROVE  IF o \in fresh' THEN Occurring(source, o, n) = Held(o, values'[o])
               ELSE Occurring(source, o, n) = <<>> /\ values'[o] = default(o)
    <3>1. CASE o # e[1]
      <4>1. values'[o] = values[o] /\ (o \in fresh' <=> o \in fresh)
        BY <2>1, <3>1
      <4> QED BY <1>4, <3>1, <4>1
    <3>2. CASE o = e[1]
      <4>1. o \in fresh' /\ Occurring(source, o, n) = Append(Occurring(source, o, n - 1), e[2])
        BY <1>4, <2>1, <3>2
      <4>2. values'[o] = IF o \notin Lists THEN e[2]
                         ELSE IF o \in fresh THEN Append(values[o], e[2])
                         ELSE <<e[2]>>
        BY <1>2, <2>1, <3>2
      <4>3. CASE o \in fresh
        <5>1. o \in Lists /\ Occurring(source, o, n - 1) = values[o]
          BY <1>4, <2>1, <3>2, <4>3 DEF Held
        <5> QED BY <4>1, <4>2, <4>3, <5>1 DEF Held
      <4>4. CASE o \notin fresh
        <5>1. Occurring(source, o, n - 1) = <<>>
          BY <1>4, <4>4
        <5>2. Append(<<>>, e[2]) = <<e[2]>>
          OBVIOUS
        <5> QED BY <4>1, <4>2, <4>4, <5>1, <5>2 DEF Held
      <4> QED BY <4>3, <4>4
    <3> QED BY <3>1, <3>2
  <2> QED BY <2>2 DEF n
<1> QED BY <1>5, <1>6

\* When all of a source is stored, what is fresh has its values.
LEMMA AllStored ==
  ASSUME NEW source, Len(source) \in Nat, todo = <<>>, StoredSoFar(source),
         NEW o \in Names \ final
  PROVE  values[o] = IF o \in fresh THEN ValuesIn(source, o) ELSE default(o)
<1>1. Len(source) - Len(todo) = Len(source)
  OBVIOUS
<1>2. IF o \in fresh THEN Occurring(source, o, Len(source)) = Held(o, values[o])
                     ELSE values[o] = default(o)
  BY <1>1 DEF StoredSoFar
<1>3. <<values[o]>>[1] = values[o]
  OBVIOUS
<1> QED BY <1>2, <1>3 DEF ValuesIn, Held

\* Before the command line is looked at, no option has a value.
LEMMA ValuesInitInv ==
  ASSUME OptionsAssumption, OptionsInit
  PROVE  ValuesInv
<1>1. /\ phase = "command_line" /\ final = {} /\ fresh = {} /\ todo = argv
      /\ argv \in Seq(Occurrences) /\ \A o \in Names : values[o] = default(o)
  BY DEF OptionsAssumption, OptionsInit
<1>2. Len(argv) - Len(todo) = 0
  BY <1>1
<1>3. StoredSoFar(argv)
  BY <1>1, <1>2, OccurringSteps DEF StoredSoFar
<1> QED BY <1>1, <1>3 DEF ValuesInv

\* Every step of the option parser keeps the values to where they come from.
LEMMA ValuesStep ==
  ASSUME OptionsAssumption, OptionsInv, ValuesInv, [OptionsNext]_optvars
  PROVE  ValuesInv'
<1>1. CASE UNCHANGED optvars
  <2>1. UNCHANGED <<argv, config, phase, todo, values, fresh, final>>
    BY <1>1 DEF optvars
  <2>2. /\ StoredSoFar(argv)' = StoredSoFar(argv)
        /\ StoredSoFar(config.occurrences)' = StoredSoFar(config.occurrences)
        /\ Sourced' = Sourced
    BY <2>1 DEF StoredSoFar, Sourced, ConfigRead
  <2> QED BY <2>1, <2>2 DEF ValuesInv
<1>2. CASE Overridden \/ Store
  <2>1. /\ UNCHANGED <<argv, config, phase, final>>
        /\ phase \in {"command_line", "config"}
    BY <1>2 DEF Overridden, Store, Storing, sources
  <2>2. ASSUME phase = "command_line" PROVE StoredSoFar(argv)'
    <3>1. Underway(argv, Names) /\ StoredSoFar(argv) /\ argv \in Seq(Occurrences)
      BY <2>2, Sources DEF OptionsInv, PhaseInv, ValuesInv
    <3> QED BY <1>2, <2>1, <3>1, OneMoreStored DEF StoredSoFar
  <2>3. ASSUME phase = "config" PROVE StoredSoFar(config.occurrences)'
    <3>1. /\ Underway(config.occurrences, Configurable)
          /\ StoredSoFar(config.occurrences)
          /\ config.occurrences \in Seq(Occurrences)
      BY <2>3, Sources DEF OptionsInv, PhaseInv, ValuesInv
    <3> QED BY <1>2, <2>1, <3>1, OneMoreStored DEF StoredSoFar
  <2>4. ASSUME phase = "config", NEW o \in Names \cap final
        PROVE  values'[o] = ValuesIn(argv, o)
    <3>1. values'[o] = values[o]
      BY <1>2, <2>4 DEF Overridden, Store, Name, OptionsInv, OptionsTypeOK
    <3> QED BY <2>4, <3>1 DEF ValuesInv
  <2> QED BY <2>1, <2>2, <2>3, <2>4 DEF ValuesInv
<1>3. CASE Reject
  BY <1>3 DEF Reject, ValuesInv
<1>4. CASE Stored
  <2>1. /\ todo = <<>> /\ phase \in {"command_line", "config"}
        /\ final' = final \cup fresh
        /\ phase' = IF phase = "config" THEN "print_config" ELSE "notify"
        /\ UNCHANGED <<argv, config, values>>
    BY <1>4 DEF Stored, sources
  <2>2. /\ Len(argv) \in Nat /\ Len(config.occurrences) \in Nat
        /\ argv \in Seq(Occurrences) /\ config.occurrences \in Seq(Occurrences)
    BY Sources DEF OptionsInv
  <2>3. CASE phase = "command_line"
    <3>1. final = {} /\ StoredSoFar(argv)
      BY <2>3 DEF OptionsInv, PhaseInv, ValuesInv
    <3>2. \A o \in Names : values[o] = IF o \in fresh THEN ValuesIn(argv, o)
                                                      ELSE default(o)
      BY <2>1, <2>2, <3>1, AllStored
    <3> QED BY <2>1, <2>3, <3>1, <3>2 DEF ValuesInv
  <2>4. CASE phase = "config"
    <3>1. /\ StoredSoFar(config.occurrences) /\ ConfigRead /\ final = GivenFirst
          /\ Underway(config.occurrences, Configurable)
          /\ \A o \in Names \cap final : values[o] = ValuesIn(argv, o)
      BY <2>4 DEF OptionsInv, PhaseInv, ValuesInv
    <3>2. \A o : o \in fresh <=> o \notin final /\ GivenIn(config.occurrences, o)
      BY <2>1, <2>2, <3>1, AllDone
    <3>3. \A o \in Names : o \in final <=> GivenIn(argv, o)
      BY <3>1 DEF GivenFirst
    <3>4. \A o \in Names \ final :
            values[o] = IF o \in fresh THEN ValuesIn(config.occurrences, o)
                                       ELSE default(o)
      BY <2>1, <2>2, <3>1, AllStored
    <3>5. Sourced
      BY <3>1, <3>2, <3>3, <3>4 DEF Sourced
    <3>6. Sourced'
      BY <2>1, <3>5 DEF Sourced, ConfigRead
    <3> QED BY <2>1, <2>4, <3>6 DEF ValuesInv
  <2> QED BY <2>1, <2>3, <2>4
<1>5. CASE Open
  <2>1. /\ phase = "open" /\ phase' = "config" /\ todo' = config.occurrences
        /\ UNCHANGED <<argv, config, values, fresh, final>>
    BY <1>5 DEF Open, sources
  <2>2. fresh = {} /\ config.occurrences \in Seq(Occurrences)
    BY <2>1, Sources DEF OptionsInv, PhaseInv
  <2>3. (Len(config.occurrences) - Len(todo))' = 0
    BY <2>1, <2>2
  <2>4. StoredSoFar(config.occurrences)'
    BY <2>1, <2>2, <2>3, OccurringSteps DEF StoredSoFar, ValuesInv
  <2> QED BY <2>1, <2>4 DEF ValuesInv
<1>6. CASE Notify \/ SupportFails \/ Help \/ NoConfig \/ PrintConfig
  <2>1. /\ UNCHANGED <<argv, config, values, fresh, final>>
        /\ \/ phase' \in {"exit", "error"}
           \/ phase = "notify" /\ phase' = "help"
           \/ phase = "help" /\ phase' = "open"
           \/ phase = "open" /\ phase' = "print_config" /\ config.kind = "absent"
           \/ phase = "print_config" /\ phase' = "ready"
    BY <1>6 DEF Notify, SupportFails, Help, NoConfig, PrintConfig, Go, sources
  <2>2. CASE phase = "open" /\ phase' = "print_config" /\ config.kind = "absent"
    <3>1. final = GivenFirst /\ ~ConfigRead
      BY <2>2 DEF OptionsInv, PhaseInv, ConfigRead
    <3>2. \A o \in Names : o \in final <=> GivenIn(argv, o)
      BY <3>1 DEF GivenFirst
    <3>3. Sourced
      BY <2>2, <3>1, <3>2 DEF Sourced, ValuesInv
    <3>4. Sourced'
      BY <2>1, <3>3 DEF Sourced, ConfigRead
    <3> QED BY <2>2, <3>4 DEF ValuesInv
  <2>3. CASE phase = "print_config" /\ phase' = "ready"
    <3>1. Sourced'
      BY <2>1, <2>3 DEF Sourced, ConfigRead, ValuesInv
    <3> QED BY <2>3, <3>1 DEF ValuesInv
  <2> QED BY <2>1, <2>2, <2>3 DEF ValuesInv
<1> QED BY <1>1, <1>2, <1>3, <1>4, <1>5, <1>6 DEF OptionsNext

\* The command line has priority over the configuration file, option by option,
\* and lists are never mixed of the two (options.h: boost's store, called first
\* for the command line); for all of them.
THEOREM ValuesAreSourced == StartupSpec => []CommandLineFirst
<1>1. StartupInit => ValuesInv
  BY OptionsAssumption, ValuesInitInv DEF StartupInit
<1>2. StartupInv /\ ValuesInv /\ [StartupNext]_startvars => ValuesInv'
  <2> SUFFICES ASSUME StartupInv, ValuesInv, [StartupNext]_startvars PROVE ValuesInv'
    OBVIOUS
  <2>1. [OptionsNext]_optvars
    BY StartupSteps DEF OptionsStep, InputStep
  <2> QED BY <2>1, OptionsAssumption, ValuesStep DEF StartupInv
<1>3. ValuesInv => CommandLineFirst
  BY DEF ValuesInv, Sourced, CommandLineFirst
<1> QED BY <1>1, <1>2, <1>3, StartupInvariance, PTL DEF StartupSpec
=============================================================================
