--------------------------- MODULE ServerProcess ---------------------------
(***************************************************************************)
(* The ahttpserver process: main() starts the HTTP server and the command  *)
(* server, processCommand() stops the process or reloads its settings, and *)
(* processSignal() ends it on whatever thread the signal arrives.          *)
(*                                                                         *)
(* Settings and log are those of HttpSettings and FileLogger; what loading *)
(* does is a parameter, to be given the operators of HttpSettings.  Of the *)
(* pool of the HTTP server (WorkerPool) only the counts matter here.  An   *)
(* actor is a thread that may call Server::start or stop: main, a worker   *)
(* of the command server, or the signal handler, which freezes its thread. *)
(***************************************************************************)
EXTENDS FileLogger

CONSTANTS
  Command,        \* worker threads of the command server
  SettingsTexts,  \* what the settings file may say when it is loaded: key -> text
  InitialSettings,\* what globalSettings is constructed with: Defaults
  HandlersFail(_),\* does InitHandlers fail with these settings?  InitHandlersFails
  Parsed(_),      \* what is read of a text: SettingsOf
  Loaded(_, _),   \* what load() makes of the settings and a document: Load
  Configured(_, _, _),  \* do settings say what the records mean?  AsConfigured
  Written,        \* the directory records each of them is meant to have
  WrittenLocals,  \* the same of LocalTexts: real path -> record
  Enforced,       \* is an exception specification enforced?  A set: GCC, not MSVC
  MaxHttpWorkers, \* bound: workers of the HTTP server
  MaxAcceptors,   \* bound: threads in Server::run, detached ones too
  MaxCommands     \* bound: commands received

ASSUME ServerProcessAssumption ==
  /\ Enforced \subseteq BOOLEAN
  /\ {MaxHttpWorkers, MaxAcceptors, MaxCommands} \subseteq Nat
  /\ Command \cap {"main", "signal", "none"} = {}

Documents == [key \in DOMAIN SettingsTexts |-> Parsed(SettingsTexts[key])]

Actor == Command \cup {"main", "signal"}

VARIABLES
  at,            \* actor -> where it is
  exitCode,      \* ReturnCodes, -1 while the process runs
  settings,      \* globalSettings
  lastLoaded,    \* history: the document loaded without an error, 0 before
  isStopped, mainThread, socket,   \* httpServer: the flag, and what is not NULL
  stopMutex,     \* the actor that holds it, or "none"
  accepting,     \* acceptors before the test of isStopped
  checked,       \* acceptors behind it, with a connection
  workers,       \* workersCount_
  command,       \* what each thread of the command server processes
  reading,       \* the document it loads, or 0
  received,      \* history: commands received
  signalled,     \* the thread the signal handler runs on, or "none"
  overlapped,    \* history: a reload began while another actor was stopping or loading
  late,          \* history: a worker was created after stop() had set the flag
  missed         \* history: stop() did not wait yet when a worker's notification came

httpVars    == <<isStopped, mainThread, socket, stopMutex>>
poolVars    == <<accepting, checked, workers, late, missed>>
loadVars    == <<settings, lastLoaded, reading>>
commandVars == <<command, received, overlapped>>
serverVars  == <<at, exitCode, httpVars, poolVars, loadVars, commandVars, signalled>>
allVars     == <<serverVars, logVars>>

\* Bound: either commands are received or messages are logged; the two share nothing
\* but the end of the process.
Init ==
  /\ at = [a \in Actor |-> IF a = "main" THEN "init" ELSE "idle"]
  /\ exitCode = -1
  /\ settings = InitialSettings /\ lastLoaded = 0
  /\ isStopped = FALSE /\ mainThread = FALSE /\ socket = FALSE
  /\ stopMutex = "none"
  /\ accepting = 0 /\ checked = 0 /\ workers = 0
  /\ command = [c \in Command |-> "none"]
  /\ reading = [c \in Command |-> 0]
  /\ signalled = "none"
  /\ overlapped = FALSE /\ late = FALSE /\ missed = FALSE
  /\ \/ received = 0 /\ LogInit(MaxMessages)
     \/ received = MaxCommands /\ LogInit(0)

Is(a, place)    == exitCode = -1 /\ signalled # a /\ at[a] = place
Goes(a, place)  == at' = [at EXCEPT ![a] = place]
Exit(code)      == exitCode' = code /\ UNCHANGED at

\* A signal, or std::abort: the handler interrupts thread t.  Bound: one signal.
Raise(t) == signalled = "none" /\ signalled' = t /\ Goes("signal", "begin")

\* A command is over.
Done(c) == Goes(c, "idle") /\ command' = [command EXCEPT ![c] = "none"]

\* An exception leaves a function whose specification does not list it: where that
\* is enforced the process aborts, elsewhere processCommand logs it and replies nothing.
Unexpected(c) ==
  \/ TRUE \in Enforced /\ Raise(c) /\ UNCHANGED command
  \/ FALSE \in Enforced /\ Done(c) /\ UNCHANGED signalled

\* It comes to the thread that holds stopMutex_, or to another: main stands for it.
Signal ==
  /\ exitCode = -1
  /\ \E t \in {"main", stopMutex} \ {"none"} : Raise(t)
  /\ UNCHANGED <<exitCode, httpVars, poolVars, loadVars, commandVars, logVars>>
-----------------------------------------------------------------------------
(* Server::stop, with what its caller does next. *)

WaitsForWorkers(a) == a \in Command /\ command[a] = "reload"
AfterStop(a)       == IF WaitsForWorkers(a) THEN "load" ELSE "logger"

\* Between its stop() and what comes after it.
Busy(a) == at[a] \in {"load", "loading", "start", "logger", "exit"}

StopBegin(a) ==
  /\ Is(a, "begin") /\ stopMutex = "none"
  /\ isStopped' = TRUE
  /\ IF isStopped THEN Goes(a, AfterStop(a)) /\ UNCHANGED stopMutex
     ELSE /\ stopMutex' = a
          /\ Goes(a, IF WaitsForWorkers(a) THEN "test" ELSE "close")
  /\ overlapped' = (overlapped \/ (WaitsForWorkers(a) /\ \E b \in Actor \ {a} : Busy(b)))
  /\ UNCHANGED <<exitCode, mainThread, socket, poolVars, loadVars, command, received,
                 signalled, logVars>>

\* Faulty: it waits for workers that are not there.
StopTestOffByOne(a) ==
  /\ Is(a, "test") /\ Goes(a, IF workers >= 0 THEN "lock" ELSE "close")
  /\ UNCHANGED <<exitCode, httpVars, poolVars, loadVars, commandVars, signalled, logVars>>

\* Faulty: the workers are not looked at.
StopTestNoWorkers(a) ==
  /\ Is(a, "test") /\ Goes(a, "close")
  /\ UNCHANGED <<exitCode, httpVars, poolVars, loadVars, commandVars, signalled, logVars>>

\* workersCount_ is read without finishMutex_: a worker that ends before the wait
\* begins wakes nobody.
StopTest(a) ==
  /\ Is(a, "test") /\ Goes(a, IF workers > 0 THEN "lock" ELSE "close")
  /\ UNCHANGED <<exitCode, httpVars, poolVars, loadVars, commandVars, signalled, logVars>>

StopWait(a) ==
  /\ Is(a, "lock") /\ Goes(a, "wait")
  /\ UNCHANGED <<exitCode, httpVars, poolVars, loadVars, commandVars, signalled, logVars>>

\* Faulty: the mutex is not given back.
StopCloseKeepsMutex(a) ==
  /\ Is(a, "close") /\ Goes(a, AfterStop(a))
  /\ socket' = FALSE /\ mainThread' = FALSE
  /\ UNCHANGED <<exitCode, isStopped, stopMutex, poolVars, loadVars, commandVars, signalled,
                 logVars>>

\* The socket is closed and the thread object deleted: its thread is detached.
StopClose(a) ==
  /\ Is(a, "close") /\ Goes(a, AfterStop(a))
  /\ socket' = FALSE /\ mainThread' = FALSE /\ stopMutex' = "none"
  /\ UNCHANGED <<exitCode, isStopped, poolVars, loadVars, commandVars, signalled, logVars>>

\* The rest of destroy(): the log is closed, then the process ends.
CloseLog(a) ==
  /\ Is(a, "logger") /\ Goes(a, "exit") /\ LoggerDestroy
  /\ UNCHANGED <<exitCode, httpVars, poolVars, loadVars, commandVars, signalled>>

End(a) ==
  /\ Is(a, "exit") /\ Exit(IF a = "signal" THEN 10 ELSE 0)
  /\ UNCHANGED <<httpVars, poolVars, loadVars, commandVars, signalled, logVars>>

StopStep(a) == StopBegin(a) \/ StopTest(a) \/ StopWait(a) \/ StopClose(a)
               \/ CloseLog(a) \/ End(a)
-----------------------------------------------------------------------------
(* Server::start. *)

\* Where it may fail, and the exception it fails with.
AlreadyStarted(outcome) == outcome = "other" /\ mainThread /\ UNCHANGED socket
NoSocket(outcome)  == outcome = "socket_error" /\ ~mainThread /\ UNCHANGED socket
NoOptions(outcome) == outcome = "socket_error" /\ ~mainThread /\ socket' = TRUE
NotBound(outcome)  == outcome = "socket_error" /\ ~mainThread /\ socket' = TRUE
NoThread(outcome)  == outcome = "other" /\ ~mainThread /\ socket' = TRUE

\* The flag is reset before anything is tested.
StartServer(outcome) ==
  /\ stopMutex = "none" /\ isStopped' = FALSE
  /\ \/ /\ AlreadyStarted(outcome) \/ NoSocket(outcome) \/ NoOptions(outcome)
           \/ NotBound(outcome) \/ NoThread(outcome)
        /\ UNCHANGED <<mainThread, accepting>>
     \/ /\ outcome = "started"
        /\ ~mainThread /\ accepting + checked < MaxAcceptors
        /\ mainThread' = TRUE /\ socket' = TRUE
        /\ accepting' = accepting + 1
  /\ UNCHANGED <<stopMutex, checked, workers, late, missed>>
-----------------------------------------------------------------------------
(* main. *)

Main(place) == Is("main", place)

\* init: the signal handlers, then getAppLocation, which throws where there is no
\* path to complete.
InitProcess ==
  /\ Main("init")
  /\ \/ Goes("main", "sockets") /\ UNCHANGED exitCode
     \/ Exit(1)
  /\ UNCHANGED <<httpVars, poolVars, loadVars, commandVars, signalled, logVars>>

\* Initializer::init; it can fail under Windows.
InitSockets ==
  /\ Main("sockets")
  /\ \/ Goes("main", "settings") /\ UNCHANGED exitCode
     \/ Exit(1)
  /\ UNCHANGED <<httpVars, poolVars, loadVars, commandVars, signalled, logVars>>

\* loadSettings; what settings_load_error does not cover nobody catches.
LoadSettings ==
  /\ Main("settings")
  /\ \E document \in DOMAIN Documents :
       LET loaded == Loaded(settings, Documents[document]) IN
       \/ /\ loaded.error = "none"
          /\ settings' = loaded /\ lastLoaded' = document /\ Goes("main", "dispatch")
          /\ UNCHANGED <<exitCode, signalled>>
       \/ /\ loaded.error = "settings" /\ Exit(2)
          /\ UNCHANGED <<settings, lastLoaded, signalled>>
       \/ /\ loaded.error \in {"other", "crash"} /\ Raise("main")
          /\ UNCHANGED <<settings, lastLoaded, exitCode>>
  /\ UNCHANGED <<httpVars, poolVars, reading, commandVars, logVars>>

\* Any command but `run` (on Unix `start` is `run`) is for a running server.
Dispatch ==
  /\ Main("dispatch")
  /\ \/ Goes("main", "log")
     \/ Goes("main", "find")
  /\ UNCHANGED <<exitCode, httpVars, poolVars, loadVars, commandVars, signalled, logVars>>

\* The socket_error of createSocket is caught nowhere; no connection means that no
\* server runs, and the process is over: destroy().
FindRunningServer ==
  /\ Main("find")
  /\ \/ Raise("main")
     \/ Goes("main", "send") /\ UNCHANGED signalled
     \/ Goes("main", "begin") /\ UNCHANGED signalled
  /\ UNCHANGED <<exitCode, httpVars, poolVars, loadVars, commandVars, logVars>>

\* What sending throws is reported; what closeSocket throws afterwards is not caught.
SendCommand ==
  /\ Main("send")
  /\ \/ Goes("main", "begin") /\ UNCHANGED signalled
     \/ Raise("main")
  /\ UNCHANGED <<exitCode, httpVars, poolVars, loadVars, commandVars, logVars>>

InitLogger ==
  /\ Main("log") /\ LoggerInit
  /\ IF logState' = "ready" THEN Goes("main", "handlers") /\ UNCHANGED exitCode ELSE Exit(3)
  /\ UNCHANGED <<httpVars, poolVars, loadVars, commandVars, signalled>>

InitHandlers ==
  /\ Main("handlers")
  /\ IF HandlersFail(settings) THEN Exit(2) ELSE Goes("main", "detach") /\ UNCHANGED exitCode
  /\ UNCHANGED <<httpVars, poolVars, loadVars, commandVars, signalled, logVars>>

\* detachFromConsole: the process forks twice, and this is the second child.
Detach ==
  /\ Main("detach")
  /\ \/ Goes("main", "http") /\ UNCHANGED exitCode
     \/ Exit(4)
  /\ UNCHANGED <<httpVars, poolVars, loadVars, commandVars, signalled, logVars>>

StartHttp ==
  /\ Main("http")
  /\ \/ StartServer("started") /\ Goes("main", "commands") /\ UNCHANGED <<exitCode, signalled>>
     \/ StartServer("socket_error") /\ Exit(4) /\ UNCHANGED signalled
     \/ StartServer("other") /\ TRUE \in Enforced /\ Raise("main") /\ UNCHANGED exitCode
     \/ StartServer("other") /\ FALSE \in Enforced /\ Exit(4) /\ UNCHANGED signalled
  /\ UNCHANGED <<loadVars, commandVars, logVars>>

\* From here on main waits for the thread of the command server, which does not end.
StartCommands ==
  /\ Main("commands")
  /\ \/ Goes("main", "join") /\ UNCHANGED exitCode
     \/ Exit(4)
  /\ UNCHANGED <<httpVars, poolVars, loadVars, commandVars, signalled, logVars>>
-----------------------------------------------------------------------------
(* processCommand. *)

\* `stat` and what is unknown are answered without changing anything.
Receive(c) ==
  /\ Is(c, "idle") /\ at["main"] = "join" /\ received < MaxCommands
  /\ \E cmd \in {"stop", "reload"} :
       /\ command' = [command EXCEPT ![c] = cmd]
       /\ Goes(c, IF cmd = "reload" THEN "begin" ELSE "reply")
  /\ received' = received + 1
  /\ UNCHANGED <<exitCode, httpVars, poolVars, loadVars, overlapped, signalled, logVars>>

Cleared(s) == [s EXCEPT !.directories = <<>>]

\* load() clears the directories of a document it can read.
ReloadBegin(c) ==
  /\ Is(c, "load") /\ Goes(c, "loading")
  /\ \E document \in DOMAIN Documents :
       /\ reading' = [reading EXCEPT ![c] = document]
       /\ settings' = IF Documents[document].loads /\ Documents[document].root = "settings"
                      THEN Cleared(settings) ELSE settings
  /\ UNCHANGED <<exitCode, httpVars, poolVars, lastLoaded, commandVars, signalled, logVars>>

\* Somebody else reads or writes what is loaded.
Racing(c) == workers > 0 \/ \E d \in Command \ {c} : at[d] = "loading"

\* Faulty: the HTTP server is started whatever the error was.
ReloadEndStarts(c) ==
  /\ Is(c, "loading") /\ Goes(c, "start")
  /\ LET loaded == Loaded(settings, Documents[reading[c]]) IN
     /\ settings' = loaded
     /\ lastLoaded' = IF loaded.error = "none" THEN reading[c] ELSE lastLoaded
  /\ reading' = [reading EXCEPT ![c] = 0]
  /\ UNCHANGED <<exitCode, httpVars, poolVars, commandVars, signalled, logVars>>

\* A settings_load_error is reported, and the HTTP server stays down.
ReloadEnd(c) ==
  /\ Is(c, "loading")
  /\ LET loaded == Loaded(settings, Documents[reading[c]]) IN
     /\ settings' = loaded
     /\ lastLoaded' = IF loaded.error = "none" THEN reading[c] ELSE lastLoaded
     /\ \/ loaded.error = "none" /\ Goes(c, "start") /\ UNCHANGED <<command, signalled>>
        \/ loaded.error = "settings" /\ Goes(c, "reply") /\ UNCHANGED <<command, signalled>>
        \/ loaded.error = "other" /\ Unexpected(c)
        \/ (loaded.error = "crash" \/ Racing(c)) /\ Raise(c) /\ UNCHANGED command
  /\ exitCode' = exitCode
  /\ reading' = [reading EXCEPT ![c] = 0]
  /\ UNCHANGED <<httpVars, poolVars, received, overlapped, logVars>>

\* What start() throws is logged, and nothing is replied.
ReloadStart(c) ==
  /\ Is(c, "start")
  /\ \/ StartServer("started") /\ Goes(c, "reply") /\ UNCHANGED <<command, signalled>>
     \/ StartServer("socket_error") /\ Done(c) /\ UNCHANGED signalled
     \/ StartServer("other") /\ Unexpected(c)
  /\ UNCHANGED <<exitCode, loadVars, received, overlapped, logVars>>

\* The reply is sent first: a stop command whose client has gone is not carried out.
Reply(c) ==
  /\ Is(c, "reply")
  /\ \/ command[c] = "stop" /\ Goes(c, "begin") /\ UNCHANGED command
     \/ Done(c)
  /\ UNCHANGED <<exitCode, httpVars, poolVars, loadVars, received, overlapped, signalled,
                 logVars>>
-----------------------------------------------------------------------------
(* The HTTP server's own threads. *)

AcceptorChecks ==
  /\ exitCode = -1 /\ accepting > 0
  /\ accepting' = accepting - 1
  /\ checked' = IF isStopped THEN checked ELSE checked + 1
  /\ UNCHANGED <<at, exitCode, httpVars, workers, late, missed, loadVars, commandVars, signalled,
                 logVars>>

\* runWorkerThread: the flag may have been set since it was tested there.
AcceptorSpawns ==
  /\ exitCode = -1 /\ checked > 0
  /\ \/ /\ workers < MaxHttpWorkers
        /\ workers' = workers + 1 /\ late' = (late \/ isStopped)
     \/ isStopped /\ UNCHANGED <<workers, late>>
  /\ checked' = checked - 1 /\ accepting' = accepting + 1
  /\ UNCHANGED <<at, exitCode, httpVars, missed, loadVars, commandVars, signalled, logVars>>

\* removeWorker: an acceptor at the limit waits on the same condition and may be woken.
WorkerEnds ==
  /\ exitCode = -1 /\ workers > 0 /\ workers' = workers - 1
  /\ LET waiting == {a \in Actor : at[a] = "wait"} IN
     \/ \E a \in waiting : Goes(a, "test") /\ UNCHANGED missed
     \/ /\ waiting = {} \/ (checked > 0 /\ workers = MaxHttpWorkers)
        /\ missed' = (missed \/ waiting # {} \/ \E a \in Actor : at[a] = "lock")
        /\ UNCHANGED at
  /\ UNCHANGED <<exitCode, httpVars, accepting, checked, late, loadVars, commandVars,
                 signalled, logVars>>

Logs == exitCode = -1 /\ LogStep /\ UNCHANGED serverVars

Next ==
  \/ InitProcess \/ InitSockets \/ LoadSettings \/ Dispatch \/ FindRunningServer
  \/ SendCommand \/ InitLogger \/ InitHandlers \/ Detach \/ StartHttp \/ StartCommands
  \/ Signal
  \/ \E a \in Actor : StopStep(a)
  \/ \E c \in Command : Receive(c) \/ ReloadBegin(c) \/ ReloadEnd(c) \/ ReloadStart(c)
                        \/ Reply(c)
  \/ AcceptorChecks \/ AcceptorSpawns \/ WorkerEnds \/ Logs

\* A thread that can go on in stop() or destroy() does, and a worker's connection
\* ends, at the latest by its timeouts.
ProcessSpec ==
  /\ Init /\ [][Next]_allVars
  /\ \A a \in Actor : WF_allVars(StopStep(a))
  /\ WF_allVars(WorkerEnds)
-----------------------------------------------------------------------------
(* Correctness. *)

\* The actor inside stop() holds stopMutex_, and nobody else; the log's own state is
\* of its types, and the counts stay within their bounds.
TypeOK ==
  /\ stopMutex \in Actor \cup {"none"}
  /\ \A a \in Actor : stopMutex = a <=> at[a] \in {"test", "lock", "wait", "close"}
  /\ workers \in 0..MaxHttpWorkers /\ accepting + checked \in 0..MaxAcceptors
  /\ {isStopped, mainThread, socket, overlapped, late, missed} \subseteq BOOLEAN
  /\ mainThread => socket
  /\ exitCode \in {-1, 0, 1, 2, 3, 4, 10}
  /\ LogTypeOK

\* While the directories are loaded again no worker of the HTTP server runs that
\* could read them, unless two reloads overlap or the acceptor passed its last test
\* of the flag before stop() set it.
ReadersExcluded ==
  (\E c \in Command : at[c] = "loading") /\ ~overlapped /\ ~late => workers = 0

Site(directories) == INSTANCE VirtualDirectories WITH Directories <- directories

\* What document i says is what the settings are, and a request reaches each of the
\* directories.
Says(s, i) ==
  /\ Configured(s, Written[i], WrittenLocals)
  /\ \A path \in DOMAIN s.directories :
       Site(s.directories)!FindDirectory(path) = s.directories[path]

\* A server that has been started serves what the last document that loaded without
\* an error says, whatever was tried in between, and a request reaches each of its
\* directories.
ServesConfigured ==
  /\ ~overlapped /\ ~isStopped /\ exitCode = -1
  /\ \/ at["main"] = "commands"
     \/ \E c \in Command : at[c] = "reply" /\ command[c] = "reload"
  => Says(settings, lastLoaded)

\* What ServesConfigured needs of load(), which reads nothing but its document and what
\* earlier calls left: from each of these settings a load without an error ends in
\* what its document says, and any load ends in one of them.
LoaderContract(States) ==
  /\ InitialSettings \in States
  /\ \A s \in States : Cleared(s) \in States
  /\ \A s \in States, i \in DOMAIN Documents :
       LET loaded == Loaded(s, Documents[i]) IN
       loaded \in States /\ (loaded.error = "none" => Says(loaded, i))

\* A stop command that was replied to ends the process, unless a reload missed that
\* its last worker ended, or a signal froze the thread that holds stopMutex_.
StopCarriedOut ==
  \A c \in Command :
    at[c] = "begin" /\ command[c] = "stop"
      ~> \/ exitCode # -1
         \/ \E a \in Actor : at[a] = "wait" /\ workers = 0 /\ missed
         \/ signalled # "none" /\ signalled = stopMutex
=============================================================================
