------------------------------ MODULE Settings ------------------------------
(***************************************************************************)
(* How the program comes by its configuration (cmd/getconfig.go,           *)
(* impl/cmdline, impl/config) and gets ready to run its command (realMain  *)
(* of cmd/ociregistry.go, cmd/hello-world.go).                             *)
(*                                                                         *)
(* The value of an option is abstracted to where it comes from, or "zero"  *)
(* for the zero value of its type, which a flag may give as well.  The     *)
(* structs for prune and list are merged as one value each.                *)
(***************************************************************************)
EXTENDS Naturals, FiniteSets

CONSTANTS
  CommandLines,  \* the command lines the program may be started with
  ConfigFiles,   \* what a configuration file may hold
  Forgotten      \* no command line or no file

GlobalFlags == {"logLevel", "configFile", "imagePath", "logFile"}
ServeFlags ==
  {"preloadImages", "port", "os", "arch", "pullTimeout", "health", "metrics",
   "alwaysPullLatest", "helloWorld", "airGapped", "defaultNs", "host"}
LoadFlags == {"imageFile", "resolveRef", "os", "arch", "pullTimeout"}
Options == GlobalFlags \cup ServeFlags \cup LoadFlags
WithDefault == {"logLevel", "imagePath", "port", "os", "arch", "pullTimeout", "host"}

Commands == {"", "serve", "load", "list", "prune", "version"}
FlagsOf(command) ==
  GlobalFlags \cup (CASE command = "serve" -> ServeFlags
                      [] command = "load" -> LoadFlags
                      [] OTHER -> {})
\* The flags of a command that fill a struct.
StructFlagsOf(command) ==
  CASE command = "prune" -> {"pattern", "date", "dryRun"}
    [] command = "list" -> {"header", "pattern", "shortDigest"}
    [] OTHER -> {}

\* From is a command line or a file: "flag" or "file".
PruneStructs(from) ==
  [expr : {"zero", from}, type : {"zero", "pattern", "date", from}, dryRun : BOOLEAN,
   schedule : {"zero", from}]
ListStructs(from) == [expr : {"zero", from}, header : BOOLEAN, shortDigest : BOOLEAN]
NoPrune == [expr |-> "zero", type |-> "zero", dryRun |-> FALSE, schedule |-> "zero"]
NoList == [expr |-> "zero", header |-> FALSE, shortDigest |-> FALSE]

\* The flags given, each with a zero value or another; of --pattern and --date,
\* which share a destination, at most one.
IsCommandLine(line) ==
  /\ line.command \in Commands
  /\ DOMAIN line.flags \subseteq FlagsOf(line.command)
  /\ \A o \in DOMAIN line.flags : line.flags[o] \in {"zero", "flag"}
  /\ "configFile" \in DOMAIN line.flags => line.flags["configFile"] = "flag"
  /\ line.struct \subseteq StructFlagsOf(line.command)
  /\ ~({"pattern", "date"} \subseteq line.struct)

ASSUME SettingsAssumption ==
  /\ \A line \in CommandLines : IsCommandLine(line)
  /\ \A f \in ConfigFiles :
       /\ f.options \in [Options -> {"zero", "file"}]
       /\ f.prune \in PruneStructs("file") /\ f.list \in ListStructs("file")
  /\ Forgotten \notin CommandLines \cup ConfigFiles

VARIABLES
  program,  \* what the process is at; "down" if there is none
  command,  \* the command it was started with
  config,   \* config.config
  given     \* history: the command line and the file the configuration is made of

settingsVars == <<program, command, config, given>>
NothingGiven == [line |-> Forgotten, file |-> Forgotten]

-----------------------------------------------------------------------------
\* cmdline.cfg after Parse: the flags, and the defaults of the flags that the
\* command has and that were not given.
ParsedOptions(line) ==
  [o \in Options |->
     IF o \in DOMAIN line.flags THEN line.flags[o]
     ELSE IF o \in WithDefault \cap FlagsOf(line.command) THEN "default"
     ELSE "zero"]

\* The Actions of prune's flags, and of list --pattern, which sets a type of prune.
ParsedPrune(line) ==
  LET asked == {"pattern", "date"} \cap line.struct IN
  [expr |-> IF line.command = "prune" /\ asked # {} THEN "flag" ELSE "zero",
   type |-> CASE asked = {} -> "zero"
              [] line.command = "prune" /\ asked = {"pattern"} -> "pattern"
              [] OTHER -> "date",
   dryRun |-> "dryRun" \in line.struct,
   schedule |-> "zero"]
ParsedList(line) ==
  [expr |-> IF line.command = "list" /\ "pattern" \in line.struct THEN "flag" ELSE "zero",
   header |-> "header" \in line.struct,
   shortDigest |-> "shortDigest" \in line.struct]
\* fromCmdline.PruneConfig and fromCmdline.ListConfig
MarksPrune(line) == {"pattern", "date", "dryRun"} \cap line.struct # {}
MarksList(line) == {"header", "shortDigest"} \cap line.struct # {}

Parsed(line) ==
  [options |-> ParsedOptions(line), prune |-> ParsedPrune(line), list |-> ParsedList(line)]

\* A slip: a flag that gives the zero value is taken for one that is not given.
MergedUnlessZero(line, f) ==
  LET cfg == Parsed(line) IN
  [options |-> [o \in Options |->
                  IF cfg.options[o] = "flag" \/ f.options[o] = "zero"
                  THEN cfg.options[o] ELSE f.options[o]],
   prune |-> IF MarksPrune(line) \/ f.prune = NoPrune THEN cfg.prune ELSE f.prune,
   list |-> IF MarksList(line) \/ f.list = NoList THEN cfg.list ELSE f.list]
\* config.Merge, over what config.Load took from the file.
Merged(line, f) ==
  LET cfg == Parsed(line) IN
  [options |-> [o \in Options |->
                  IF o \in DOMAIN line.flags \/ f.options[o] = "zero"
                  THEN cfg.options[o] ELSE f.options[o]],
   prune |-> IF MarksPrune(line) \/ f.prune = NoPrune THEN cfg.prune ELSE f.prune,
   list |-> IF MarksList(line) \/ f.list = NoList THEN cfg.list ELSE f.list]

NoConfig ==
  [options |-> [o \in Options |-> "zero"], prune |-> NoPrune, list |-> NoList]
IsOn(option) == config.options[option] # "zero"

SettingsInit ==
  program = "down" /\ command = "" /\ config = NoConfig /\ given = NothingGiven

\* getCfg with --config-file.  A command line or file that cannot be parsed ends
\* the process before it did anything, which is no step.
ConfiguresFromFile(line, f) ==
  /\ program = "down" /\ "configFile" \in DOMAIN line.flags
  /\ program' = "configured"
  /\ command' = line.command
  /\ config' = Merged(line, f)
  /\ given' = [line |-> line, file |-> f]

\* getCfg without it
ConfiguresFromFlags(line) ==
  /\ program = "down" /\ "configFile" \notin DOMAIN line.flags
  /\ program' = "configured"
  /\ command' = line.command
  /\ config' = Parsed(line)
  /\ given' = [line |-> line, file |-> Forgotten]

\* realMain ends: there is nothing to do, or the directories cannot be created.
EndsAtOnce ==
  /\ program = "configured"
  /\ program' = "down" /\ command' = "" /\ config' = NoConfig /\ given' = NothingGiven

\* What helloWorldMode sets.
HelloWorldConfig ==
  [config EXCEPT !.options["airGapped"] = "set",
                 !.options["preloadImages"] = "zero",
                 !.options["imagePath"] = "set"]

\* The image path is there, the temporary one in hello-world mode.
GetsReady ==
  /\ program = "configured" /\ command \notin {"", "version"}
  /\ program' = "ready"
  /\ config' = IF IsOn("helloWorld") THEN HelloWorldConfig ELSE config
  /\ given' = NothingGiven
  /\ UNCHANGED command
-----------------------------------------------------------------------------
\* What an option of the configuration is to be: a flag decides, then a file that
\* sets it, then the default of the command's flag.
Wanted(option) ==
  LET line == given.line IN
  IF option \in DOMAIN line.flags THEN {line.flags[option]}
  ELSE IF given.file # Forgotten /\ given.file.options[option] = "file" THEN {"file"}
  ELSE {IF option \in WithDefault /\ option \in FlagsOf(command) THEN "default" ELSE "zero"}

\* Every option has the value that was wanted, a dry run that was asked for is
\* one, and a prune or a list that the file describes and no flag touches is as
\* in the file.  (list --pattern is the exception: it does not count as a flag of
\* list, but as one of prune.)
PrecedenceHolds ==
  program = "configured" =>
    /\ \A o \in Options : config.options[o] \in Wanted(o)
    /\ "dryRun" \in given.line.struct => config.prune.dryRun
    /\ given.line.struct = {} /\ given.file # Forgotten =>
         /\ given.file.prune # NoPrune => config.prune = given.file.prune
         /\ given.file.list # NoList => config.list = given.file.list
=============================================================================
