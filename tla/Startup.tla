------------------------------- MODULE Startup ------------------------------
(***************************************************************************)
(* What application::exec does before the first URL, and main: options,    *)
(* input, libquvi, and with --background a child that goes on while the    *)
(* process that the shell waits for exits at once.  What is wrong with the *)
(* options or the input is only known to the shell if it is found before.  *)
(* What follows, print_streams or the batch, is one step here; it is the   *)
(* subject of Application.                                                 *)
(***************************************************************************)
EXTENDS Options, Input

CONSTANT Worlds  \* [argv, config, input]: how cclive may be started

ASSUME StartupAssumption ==
  \A w \in Worlds : /\ w.argv \in CommandLines
                    /\ w.config \in Configs
                    /\ w.input \in Inputs

VARIABLES
  front,  \* where the process is that the shell waits for
  child   \* where its child is

ownvars == <<front, child>>
startvars == <<optvars, inputvars, ownvars>>

\* A process that has ended is at its status.
Ended == {"ok", "error", "killed"}

\* options: in cc::options.  input: in cc::input::parse.  quvi: about to open
\* libquvi.  background: about to fork, if asked to.  parent: fork has returned
\* the child's pid.  run: at work on the URLs.
FrontPlaces ==
  {"options", "input", "quvi", "background", "parent", "run"} \cup Ended

\* none: not there yet.  child: fork has returned 0.  log: in its own session,
\* with nothing of the terminal left, about to open --log-file.
ChildPlaces == {"none", "child", "log", "run"} \cup Ended

StartupInit ==
  /\ \E w \in Worlds : argv = w.argv /\ config = w.config /\ input = w.input
  /\ OptionsInit
  /\ InputInit
  /\ front = "options"
  /\ child = "none"

\* Options and input are not written any more when there are two processes, so
\* that one copy does for both.
FrontTo(to) == front' = to /\ UNCHANGED <<optvars, inputvars, child>>

ChildTo(to) == child' = to /\ UNCHANGED <<optvars, inputvars, front>>

OptionsStep ==
  front = "options" /\ OptionsNext /\ UNCHANGED <<inputvars, ownvars>>

\* Mutation: the input is left for later.
OptionsReturn_Late ==
  front = "options" /\ phase = "ready" /\ FrontTo("quvi")

OptionsReturn ==
  front = "options" /\ phase = "ready" /\ FrontTo("input")

\* main takes cc::exit_program for a success, and any other exception for a
\* failure.
OptionsThrow ==
  \/ front = "options" /\ phase = "exit" /\ FrontTo("ok")
  \/ front = "options" /\ phase = "error" /\ FrontTo("error")

InputStep ==
  front = "input" /\ InputNext /\ UNCHANGED <<optvars, ownvars>>

InputReturn == front = "input" /\ where = "done" /\ FrontTo("quvi")

InputThrow ==
  \/ front = "input" /\ where = "failed" /\ FrontTo("error")
  \/ front = "input" /\ where = "crashed" /\ FrontTo("killed")

QuviInit == front = "quvi" /\ FrontTo("background")

QuviFails == front = "quvi" /\ FrontTo("error")

Foreground ==
  front = "background" /\ ~Given("background") /\ FrontTo("run")

ForkFails ==
  front = "background" /\ Given("background") /\ FrontTo("error")

\* go_background: from here on there are two processes.
Fork ==
  /\ front = "background" /\ Given("background")
  /\ front' = "parent"
  /\ child' = "child"
  /\ UNCHANGED <<optvars, inputvars>>

\* Mutation: the parent waits for its child to end.
ParentExits_Waits == front = "parent" /\ child \in Ended /\ FrontTo("ok")

\* The parent says where the output goes and exits with 0, whatever becomes of
\* its child.
ParentExits == front = "parent" /\ FrontTo("ok")

\* The child leaves the session and the terminal of the shell.
Detach == child = "child" /\ ChildTo("log")

OpenLog == child = "log" /\ ChildTo("run")

\* It cannot: main prints the error to stderr, which is /dev/null by now.
LogFails == child = "log" /\ ChildTo("error")

\* The URLs are done, and main returns the status.
Run ==
  \E status \in {"ok", "error"} :
    \/ front = "run" /\ FrontTo(status)
    \/ child = "run" /\ ChildTo(status)

Exited ==
  /\ front \in Ended /\ child \in Ended \cup {"none"}
  /\ UNCHANGED startvars

FrontStep ==
  \/ OptionsStep \/ OptionsReturn \/ OptionsThrow
  \/ InputStep \/ InputReturn \/ InputThrow
  \/ QuviInit \/ QuviFails
  \/ Foreground \/ ForkFails \/ Fork \/ ParentExits

ChildStep == Detach \/ OpenLog \/ LogFails

StartupNext == FrontStep \/ ChildStep \/ Run \/ Exited

StartupSpec == StartupInit /\ [][StartupNext]_startvars

\* Each process goes on to its work on the URLs: stdin is taken to come to an
\* end, and opening --log-file to succeed or to fail.  The work itself may
\* last for ever.
FairStartupSpec ==
  StartupSpec /\ WF_startvars(FrontStep) /\ WF_startvars(ChildStep)

-----------------------------------------------------------------------------
(* Properties.                                                             *)

\* The type invariant.
StartupTypeOK ==
  /\ OptionsTypeOK
  /\ InputTypeOK
  /\ front \in FrontPlaces
  /\ child \in ChildPlaces

\* The shell is told of every error in the options, the configuration file and
\* the input, --background or not: the process it waits for succeeds only if
\* there is none, or if cclive was only asked for information.
ErrorsBeforeDetaching ==
  front = "ok" =>
    \/ phase = "exit"
    \/ ~BadCommandLine /\ ~BadConfig /\ where = "done"

\* With --background the shell gets its prompt back whatever the child does, a
\* transfer that never ends included (go_background, and the fork at its place
\* in exec: nothing that may last for ever comes before it).
ShellIsReleased ==
  phase = "ready" /\ Given("background") ~> front \in Ended
=============================================================================
