------------------------------ MODULE Startup ------------------------------
(***************************************************************************)
(* The start and the end of the program (main.go): settings come from the  *)
(* command line, from a JSON file and from defaults, exactly one of four   *)
(* capture modes must be asked for, and main starts the alerter, the       *)
(* dashboard's server and the mode's transport as goroutines around the    *)
(* database that it opens and has to close.  A signal may arrive at any    *)
(* moment: it cancels the context while main has the signals caught, and   *)
(* kills the process otherwise.                                            *)
(*                                                                         *)
(* Main's loop over the messages is in Pipeline; the specification here is *)
(* Program, and no name is one of Pipeline's, so that a module can talk    *)
(* about both.  A setting's value is an integer, with 0 for the zero value *)
(* of its Go type.                                                         *)
(***************************************************************************)
EXTENDS Integers, FiniteSets

CONSTANTS
  Starts  \* bound: the command lines and files, each with the options that it sets

Modes == {"wrap", "proxy", "pid", "socket"}

\* The settings of Config, by their names in the file.
Options ==
  {"wrap", "proxy", "proxy_port", "pid", "db", "ui", "log_level", "log_json", "auth_user",
   "auth_pass", "tls_cert", "tls_key", "alert_webhook", "alert_error_rate", "alert_latency",
   "alert_window", "gc_percent", "socket_local", "socket_target"}

\* Those of them that main takes from the file, and those of these that it takes only
\* if they are positive.
FileOptions == Options \ {"socket_local", "socket_target"}
PositiveOptions == {"alert_error_rate", "alert_latency", "alert_window", "gc_percent"}

\* A default of the flag package that is not the zero value.
Default(o) ==
  IF o \in {"proxy_port", "db", "ui", "log_level", "alert_window", "gc_percent"} THEN 9 ELSE 0

Start ==
  [version : BOOLEAN,
   explicit : SUBSET Options,  \* the flags that are on the command line
   flags : [Options -> Int],   \* and their values
   fileState : {"none", "unreadable", "malformed", "good"},
   file : [Options -> Int]]    \* the file's settings, 0 for those that it does not have

ASSUME StartupAssumption == Starts \subseteq Start

VARIABLES
  given,   \* what the program is started with
  phase,   \* where main is
  cfg,     \* main's cfg
  ctx,     \* the context: "none", "live" or "done"
  signals, \* what a signal does: "default" kills the process, "caught" cancels the context
  store,   \* the database: "closed" or "open"
  parts,   \* the goroutines that were started: [alerter, auth, tls, transport]
  down,    \* those of the server and the transport that have ended
  why      \* why the program has ended

programVars == <<given, phase, cfg, ctx, signals, store, parts, down, why>>

-----------------------------------------------------------------------------
(***************************************************************************)
(* Slips: what a plausible mistake would make of a definition below.  The  *)
(* specification does not use them; each one breaks a property.            *)
(***************************************************************************)

\* The file is read last.
FlagsAgainNever(settings) == settings

\* Main exits from its loop as it does everywhere else, without its deferred calls.
CloseSkipped == UNCHANGED store

-----------------------------------------------------------------------------
Nothing == [alerter |-> FALSE, auth |-> FALSE, tls |-> FALSE, transport |-> "none"]

ProgramInit ==
  /\ given \in Starts
  /\ phase = "flags" /\ cfg = [o \in Options |-> 0]
  /\ ctx = "none" /\ signals = "default" /\ store = "closed"
  /\ parts = Nothing /\ down = {} /\ why = "runs"

ExitFor(reason) == phase' = "exited" /\ why' = reason
GoTo(next) == phase' = next /\ UNCHANGED why

\* The flags, and with them the defaults.
ParseFlags ==
  /\ phase = "flags"
  /\ cfg' = [o \in Options |-> IF o \in given.explicit THEN given.flags[o] ELSE Default(o)]
  /\ IF given.version THEN ExitFor("version") ELSE GoTo("file")
  /\ UNCHANGED <<given, ctx, signals, store, parts, down>>

\* What the file's value has to be to count.
Heard(o) == IF o \in PositiveOptions THEN given.file[o] > 0 ELSE given.file[o] # 0

\* The flags that are on the command line overwrite what the file has overwritten.
FlagsAgain(settings) ==
  [o \in Options |->
     IF o \in given.explicit \intersect FileOptions THEN given.flags[o] ELSE settings[o]]

ReadFile ==
  /\ phase = "file"
  /\ CASE given.fileState = "none" -> GoTo("modes") /\ UNCHANGED cfg
       [] given.fileState \in {"unreadable", "malformed"} -> ExitFor("file") /\ UNCHANGED cfg
       [] given.fileState = "good" ->
            /\ cfg' = FlagsAgain([o \in Options |->
                        IF o \in FileOptions /\ Heard(o) THEN given.file[o] ELSE cfg[o]])
            /\ GoTo("modes")
  /\ UNCHANGED <<given, ctx, signals, store, parts, down>>

\* Whether settings ask for a mode.
Asks(settings, m) ==
  CASE m = "socket" -> settings["socket_local"] # 0 /\ settings["socket_target"] # 0
    [] m # "socket" -> settings[m] # 0

AskedModes(settings) == {m \in Modes : Asks(settings, m)}

CheckModes ==
  /\ phase = "modes"
  /\ IF Cardinality(AskedModes(cfg)) # 1 THEN ExitFor("usage") ELSE GoTo("signals")
  /\ UNCHANGED <<given, cfg, ctx, signals, store, parts, down>>

\* signal.NotifyContext: from here on, a signal cancels the context.
CatchSignals ==
  /\ phase = "signals"
  /\ ctx' = "live" /\ signals' = "caught"
  /\ GoTo("store")
  /\ UNCHANGED <<given, cfg, store, parts, down>>

OpenStore ==
  /\ phase = "store"
  /\ \/ store' = "open" /\ GoTo("alerter")
     \/ UNCHANGED store /\ ExitFor("store")
  /\ UNCHANGED <<given, cfg, ctx, signals, parts, down>>

StartAlerter ==
  /\ phase = "alerter"
  /\ parts' = [parts EXCEPT !.alerter = cfg["alert_webhook"] # 0]
  /\ GoTo("server")
  /\ UNCHANGED <<given, cfg, ctx, signals, store, down>>

StartServer ==
  /\ phase = "server"
  /\ parts' = [parts EXCEPT !.auth = cfg["auth_user"] # 0 /\ cfg["auth_pass"] # 0,
                            !.tls = cfg["tls_cert"] # 0 /\ cfg["tls_key"] # 0]
  /\ GoTo("transport")
  /\ UNCHANGED <<given, cfg, ctx, signals, store, down>>

\* The first mode that the settings ask for, in this order.
Chosen ==
  CASE Asks(cfg, "wrap") -> "wrap"
    [] ~Asks(cfg, "wrap") /\ Asks(cfg, "proxy") -> "proxy"
    [] ~Asks(cfg, "wrap") /\ ~Asks(cfg, "proxy") /\ Asks(cfg, "pid") -> "pid"
    [] OTHER -> "socket"

StartTransport ==
  /\ phase = "transport"
  /\ parts' = [parts EXCEPT !.transport = Chosen]
  /\ GoTo("loop")
  /\ UNCHANGED <<given, cfg, ctx, signals, store, down>>

\* The server's goroutine ends when it cannot listen; nobody is told.
ServerStops ==
  /\ phase \in {"transport", "loop", "closing"} /\ "server" \notin down
  /\ down' = down \union {"server"}
  /\ UNCHANGED <<given, phase, cfg, ctx, signals, store, parts, why>>

\* The transport ends, with or without an error.
TransportStops ==
  /\ phase \in {"loop", "closing"} /\ "transport" \notin down
  /\ down' = down \union {"transport"}
  /\ UNCHANGED <<given, phase, cfg, ctx, signals, store, parts, why>>

\* Main's loop hears of it and calls cancel(), which is the stop of NotifyContext: it
\* cancels the context and no longer catches signals.
HearTransport ==
  /\ phase = "loop" /\ "transport" \in down
  /\ ctx' = "done" /\ signals' = "default"
  /\ UNCHANGED <<given, phase, cfg, store, parts, down, why>>

\* Main's loop finds the context done and returns.
Return ==
  /\ phase = "loop" /\ ctx = "done"
  /\ GoTo("closing")
  /\ UNCHANGED <<given, cfg, ctx, signals, store, parts, down>>

\* store.Close is deferred.  It is deferred after cancel, and so runs before it.
CloseStore == store' = "closed"

Close ==
  /\ phase = "closing"
  /\ CloseStore
  /\ ExitFor("stopped")
  /\ UNCHANGED <<given, cfg, ctx, signals, parts, down>>

\* An interrupt or a termination signal.
SignalComes ==
  /\ phase # "exited"
  /\ \/ signals = "default" /\ ExitFor("signal") /\ UNCHANGED ctx
     \/ signals = "caught" /\ ctx' = "done" /\ UNCHANGED <<phase, why>>
  /\ UNCHANGED <<given, cfg, signals, store, parts, down>>

Finished == phase = "exited" /\ UNCHANGED programVars

Boot ==
  \/ ParseFlags \/ ReadFile \/ CheckModes \/ CatchSignals \/ OpenStore
  \/ StartAlerter \/ StartServer \/ StartTransport

ProgramNext ==
  \/ Boot
  \/ ServerStops \/ TransportStops \/ HearTransport \/ Return \/ Close
  \/ SignalComes
  \/ Finished

Program == ProgramInit /\ [][ProgramNext]_programVars

-----------------------------------------------------------------------------
(***************************************************************************)
(* Properties.                                                             *)
(***************************************************************************)

\* What the user asks for: a flag if it is there, else the file's setting if it counts,
\* else the default.
Asked ==
  [o \in Options |->
     IF o \in given.explicit THEN given.flags[o]
     ELSE IF given.fileState = "good" /\ o \in FileOptions /\ Heard(o) THEN given.file[o]
     ELSE Default(o)]

\* Flags go before the file and the file before the defaults, also when a flag is given
\* with its default or its zero value, and when a setting's two halves come from
\* different places; what runs follows these settings, and it runs only if they ask for
\* exactly one mode, the one that is started (main.go:81-219, 247-324).
RunsAsAsked ==
  /\ phase \notin {"flags", "file", "exited"} => cfg = Asked
  /\ store = "open" => \E m \in Modes : AskedModes(Asked) = {m}
  /\ phase = "loop" =>
       /\ AskedModes(Asked) = {parts.transport}
       /\ parts.alerter <=> Asked["alert_webhook"] # 0
       /\ parts.auth <=> Asked["auth_user"] # 0 /\ Asked["auth_pass"] # 0
       /\ parts.tls <=> Asked["tls_cert"] # 0 /\ Asked["tls_key"] # 0

\* However the program ends, it leaves no database open, with one exception: os.Exit
\* skips the deferred Close and is called only before the database is open, and a signal
\* cancels the context instead of killing the program for as long as the transport runs.
\* Once it has ended and main has called cancel(), a signal no longer waits for the
\* Close (main.go:270-273, 279-283, 355, 359).
StoreLeftClosed ==
  phase = "exited" /\ store = "open" =>
    why = "signal" /\ ctx = "done" /\ "transport" \in down

\* README.md, of the file: "Instead of passing flags, you can maintain configurations
\* in a JSON file."  A file that asks for one mode is enough.
FileSuffices ==
  given.explicit = {} /\ given.fileState = "good" /\ Cardinality(AskedModes(given.file)) = 1
    => why # "usage"
=============================================================================
