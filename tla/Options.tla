------------------------------- MODULE Options ------------------------------
(***************************************************************************)
(* cc::options: the option values, from the command line and then from the *)
(* configuration file.  boost stores the occurrences of a source one by    *)
(* one, passing over the options that an earlier source has given, and     *)
(* rejects the first one that is unknown, repeated or has no valid value.  *)
(* --version, --support, --help and --print-config end the program.        *)
(*                                                                         *)
(* A value is a number, <<"int", n>>, or another text.  Lists of values    *)
(* are sequences.                                                          *)
(***************************************************************************)
EXTENDS Integers, Sequences

CONSTANTS
  Occurrences,   \* the occurrences of options under study: <<name, value>>
  CommandLines,  \* what the shell passes: sequences of occurrences
  Configs,       \* what the configuration file may be: [kind, occurrences]
  IntMax         \* INT_MAX

Num(n) == <<"int", n>>
Text(s) == <<"text", s>>
On == Text("on")
Off == Text("off")

\* --option.  A switch that is not given is off.
Switches ==
  {"no-download", "background", "timestamp", "continue", "print-streams",
   "print-config", "help", "verbose-libcurl", "overwrite", "quiet",
   "no-proxy", "no-resolve"}

\* No default, and present only if given.
Flags == {"support", "version"}
Lists == {"exec", "prefer-format", "tr"}
Strings ==
  {"config-file", "stream", "output-file", "log-file", "filename-format",
   "output-dir", "agent", "proxy"}
NotNegative ==
  {"dns-cache-timeout", "transfer-timeout", "connect-timeout", "max-retries",
   "retry-wait", "throttle"}
Positive == {"update-interval"}
Names == Switches \cup Flags \cup Lists \cup Strings \cup NotNegative
         \cup Positive \cup {"progressbar"}

\* What the configuration file may hold.
Configurable ==
  {"timestamp", "continue", "stream", "exec", "filename-format",
   "update-interval", "progressbar", "output-dir", "tr", "dns-cache-timeout",
   "transfer-timeout", "connect-timeout", "max-retries", "retry-wait",
   "no-resolve", "throttle", "agent", "proxy", "prefer-format"}

Unset == <<>>

default(o) ==
  CASE o \in Switches -> Off
    [] o \in {"update-interval"} -> Num(1)
    [] o \in {"connect-timeout"} -> Num(30)
    [] o \in {"max-retries", "retry-wait"} -> Num(5)
    [] o \in {"dns-cache-timeout"} -> Num(60)
    [] o \in {"transfer-timeout", "throttle"} -> Num(0)
    [] o = "progressbar" -> Text("normal")
    [] o = "stream" -> Text("default")
    [] o = "tr" -> <<Text("/(\\w|\\pL|\\s)/g")>>
    [] o \in {"config-file", "log-file", "filename-format", "output-dir",
              "agent"} -> Text("default")
    [] OTHER -> Unset

\* integer_gt0.
IsPositive(v) == v[1] = "int" /\ v[2] \in 1 .. IntMax

\* integer_ge0.
IsNotNegative(v) == v[1] = "int" /\ v[2] \in 0 .. IntMax

\* The validators.  Of a --tr only the frame is looked at: "junk" has none.
IsValid(o, v) ==
  CASE o \in NotNegative -> IsNotNegative(v)
    [] o \in Positive -> IsPositive(v)
    [] o = "progressbar" -> v \in {Text("normal"), Text("dotline"), Text("simple")}
    [] o = "tr" -> v # Text("junk")
    [] o \in Switches -> v \in {On, Off}
    [] OTHER -> TRUE

ASSUME OptionsAssumption ==
  /\ \A x \in Occurrences : Len(x) = 2
  /\ CommandLines \subseteq Seq(Occurrences)
  /\ \A f \in Configs : /\ f.kind \in {"list", "absent"}
                         /\ f.occurrences \in Seq(Occurrences)
  /\ IntMax \in Nat

VARIABLES
  argv,    \* the command line, without its positional arguments
  config,  \* the configuration file: [kind, occurrences]; neither changes
  phase,   \* where the constructor is; see Phases
  todo,    \* the occurrences to be stored
  values,  \* _vm: the value of each option
  fresh,   \* the options that this source has given
  final    \* the options that an earlier source has given

optvars == <<argv, config, phase, todo, values, fresh, final>>
sources == <<argv, config>>

\* ready: the constructor returns.  exit: cc::exit_program.  error: any other
\* exception; main reports it and exits with an error.
Phases == {"command_line", "notify", "help", "open", "config", "print_config",
           "ready", "exit", "error"}

OptionsInit ==
  /\ argv \in CommandLines
  /\ config \in Configs
  /\ phase = "command_line"
  /\ todo = argv
  /\ values = [o \in Names |-> default(o)]
  /\ fresh = {}
  /\ final = {}

-----------------------------------------------------------------------------
(* store.                                                                  *)

\* Mutation: unknown options are let through.
Known_Unregistered == {todo[1][1]}

Known == IF phase = "config" THEN Configurable ELSE Names

Storing == phase \in {"command_line", "config"} /\ todo # <<>>
Name == todo[1][1]
Value == todo[1][2]

\* check_first_occurrence and the validators.
Acceptable ==
  /\ IsValid(Name, Value)
  /\ Name \notin fresh \/ Name \in Lists

\* An earlier source has given the option: the value is not even looked at.
Overridden ==
  /\ Storing /\ Name \in Known \cap final
  /\ todo' = Tail(todo)
  /\ UNCHANGED <<sources, phase, values, fresh, final>>

\* The first value of a source takes the place of the default.
Store ==
  /\ Storing /\ Name \in Known \ final
  /\ Acceptable
  /\ values' = [values EXCEPT ![Name] =
                  IF Name \notin Lists THEN Value
                  ELSE IF Name \in fresh THEN Append(@, Value) ELSE <<Value>>]
  /\ fresh' = fresh \cup {Name}
  /\ todo' = Tail(todo)
  /\ UNCHANGED <<sources, phase, final>>

\* Mutation: the value is looked at even if it is not to be stored.
Reject_Overridden ==
  /\ Storing
  /\ Name \notin Known \/ ~Acceptable
  /\ phase' = "error"
  /\ UNCHANGED <<sources, todo, values, fresh, final>>

Reject ==
  /\ Storing
  /\ Name \notin Known \/ (Name \notin final /\ ~Acceptable)
  /\ phase' = "error"
  /\ UNCHANGED <<sources, todo, values, fresh, final>>

\* Mutation: the options given are not made final.
Stored_NotFinal ==
  /\ phase \in {"command_line", "config"} /\ todo = <<>>
  /\ fresh' = {}
  /\ phase' = IF phase = "config" THEN "print_config" ELSE "notify"
  /\ UNCHANGED <<sources, todo, values, final>>

Stored ==
  /\ phase \in {"command_line", "config"} /\ todo = <<>>
  /\ final' = final \cup fresh
  /\ fresh' = {}
  /\ phase' = IF phase = "config" THEN "print_config" ELSE "notify"
  /\ UNCHANGED <<sources, todo, values>>

-----------------------------------------------------------------------------
(* The rest of the constructor.                                            *)

Given(o) == values[o] \notin {Off, Unset}

Go(to) ==
  /\ phase' = to
  /\ UNCHANGED <<sources, todo, values, fresh, final>>

\* notify calls print_version or print_support, which throw cc::exit_program.
Notify ==
  phase = "notify" /\ Go(IF Given("support") \/ Given("version") THEN "exit"
                         ELSE "help")

\* print_support finds that libquvi cannot be initialised.
SupportFails == phase = "notify" /\ Given("support") /\ Go("error")

Help == phase = "help" /\ Go(IF Given("help") THEN "exit" ELSE "open")

\* The configuration file is there.
Open ==
  /\ phase = "open" /\ config.kind = "list"
  /\ phase' = "config"
  /\ todo' = config.occurrences
  /\ UNCHANGED <<sources, values, fresh, final>>

\* It need not be, unless it is another than the default.
NoConfig ==
  phase = "open" /\ config.kind = "absent"
    /\ Go(IF values["config-file"] = default("config-file") THEN "print_config"
          ELSE "error")

\* dump throws cc::exit_program.
PrintConfig ==
  phase = "print_config" /\ Go(IF Given("print-config") THEN "exit" ELSE "ready")

OptionsNext ==
  \/ Overridden \/ Store \/ Reject \/ Stored
  \/ Notify \/ SupportFails \/ Help \/ Open \/ NoConfig \/ PrintConfig

OptionsSpec == OptionsInit /\ [][OptionsNext]_optvars

-----------------------------------------------------------------------------
(* Properties.                                                             *)

\* The type invariant.
OptionsTypeOK ==
  /\ argv \in CommandLines
  /\ config \in Configs
  /\ phase \in Phases
  /\ DOMAIN values = Names
  /\ fresh \subseteq Names
  /\ final \subseteq Names

GivenIn(source, o) == \E k \in 1 .. Len(source) : source[k][1] = o

\* The values that the first n occurrences of a source give an option.
Occurring(source, o, n) ==
  LET upto[h \in 0 .. Len(source)] ==
        IF h = 0 THEN <<>>
        ELSE IF source[h][1] = o THEN Append(upto[h - 1], source[h][2])
        ELSE upto[h - 1]
  IN  upto[n]

ValuesIn(source, o) ==
  LET all == Occurring(source, o, Len(source))
  IN  IF o \in Lists THEN all ELSE all[1]

ConfigRead == config.kind = "list"

\* An option has the value of the command line, else that of the configuration
\* file, else its default; the two sources are never mixed, not even for an
\* option that takes a list.
CommandLineFirst ==
  phase = "ready" => \A o \in Names :
    values[o] = IF GivenIn(argv, o) THEN ValuesIn(argv, o)
                ELSE IF ConfigRead /\ GivenIn(config.occurrences, o)
                     THEN ValuesIn(config.occurrences, o)
                ELSE default(o)

Bad(source, known, overridden) ==
  \E k \in 1 .. Len(source) :
    LET o == source[k][1] IN
      \/ o \notin known
      \/ /\ o \notin overridden
         /\ \/ ~IsValid(o, source[k][2])
            \/ o \notin Lists /\ \E j \in 1 .. (k - 1) : source[j][1] = o

BadCommandLine == Bad(argv, Names, {})
BadConfig ==
  IF ConfigRead
  THEN Bad(config.occurrences, Configurable,
           {o \in Names : GivenIn(argv, o)})
  ELSE values["config-file"] # default("config-file")

\* cclive starts with a sound command line and a sound configuration file, of
\* which the parts that the command line overrides do not count; and an
\* information that was asked for is printed even if the file is not sound,
\* but never if the command line is not.
Verdict ==
  /\ phase = "ready" => ~BadCommandLine /\ ~BadConfig
  /\ phase = "exit" => ~BadCommandLine
  /\ phase = "error" /\ ~Given("support") => BadCommandLine \/ BadConfig
  /\ phase = "exit" /\ BadConfig =>
       Given("support") \/ Given("version") \/ Given("help")
=============================================================================
