----------------------------- MODULE Application ----------------------------
(***************************************************************************)
(* ioproxy-cli from main() to its end: IOProxyConsoleApplication::start    *)
(* between the parsed command line and the running engine, and the control *)
(* events of Windows (os/SignalHandler.win32.cpp), which the system        *)
(* delivers in threads of their own.                                       *)
(***************************************************************************)
EXTENDS CmdLineConfig, Factories, FiniteSets

CONSTANTS CommandLines,  \* the arguments that may be given
          PluginFiles,   \* what the *.ioplugin.dll files beside the program may
                         \* be: "unloadable", "foreign", or their factories' IDs
          MaxPlugins,    \* bound: plugin files
          MaxEvents,     \* bound: control events
          EventLines     \* bound: the arguments under which there are any

ASSUME CommandLinesAssumption == CommandLines \subseteq Seq(Seq(STRING))
ASSUME ApplicationBoundsAssumption == {MaxPlugins, MaxEvents} \subseteq Nat

VARIABLES
  main,           \* how far main() is: see MainSteps
  step,           \* how far IOProxyConsoleApplication::start is: see StartSteps
  m_ioFactories,  \* the IDs of Engine::m_ioFactories
  plugins,        \* plugin files loaded
  m_handlers,     \* the IOs of the engine, with what create() gave them
  wires,          \* its connections, as pairs of positions in m_handlers
  m_started,      \* Engine::m_started
  exitCode,       \* what exit() left for exec() to return, 2 before that
  quitPosted,     \* a QEvent::Quit is on its way to the main thread
  entered,        \* threads of control events that have read g_signalHandler
  arrived,        \* bound and history: control events so far
  deadCall        \* history: where handleSignal was called on an object that is
                  \* not there, which is undefined

engine  == <<m_ioFactories, plugins, m_handlers, wires, m_started>>
process == <<main, exitCode>>
events  == <<quitPosted, entered, arrived, deadCall>>
vars    == <<arguments, parser, step, engine, process, events>>

(* The object is there while main() is at one of Alive: the constructor    *)
(* and the destructor of SignalHandler run while handleSignal is abstract. *)
MainSteps  == {"base", "made", "connected", "exec", "returned", "half", "gone"}
Alive      == {"made", "connected", "exec", "returned"}
StartSteps == {"queued", "parse", "factories", "plugins", "ios", "connections", "start",
               "running", "failed", "stuck", "crashed"}

BuiltIn == {<<"bytes_generator">>, <<"serialport">>, <<"stdout">>, <<"tcpsocket">>,
            <<"tcpserver">>, <<"udpsocket">>, <<"websocket">>, <<"websocketserver">>}

Init ==
  /\ arguments \in CommandLines
  /\ ParserInit
  /\ main = "base"
  /\ step = "queued"
  /\ m_ioFactories = {}
  /\ plugins = 0
  /\ m_handlers = <<>>
  /\ wires = <<>>
  /\ m_started = FALSE
  /\ exitCode = 2
  /\ quitPosted = FALSE
  /\ entered = 0
  /\ arrived = 0
  /\ deadCall = {}

-----------------------------------------------------------------------------
(* IOProxyConsoleApplication::start, called by the event loop.  Reports    *)
(* stands for errorOccurred, whose slot calls exit(1), and the return.     *)
Reports == step' = "failed" /\ exitCode' = 1 /\ UNCHANGED main

StartBegins ==
  /\ main = "exec"
  /\ step = "queued"
  /\ step' = "parse"
  /\ UNCHANGED <<arguments, parser, engine, process, events>>

FromArguments ==
  /\ step = "parse"
  /\ Parse
  /\ UNCHANGED <<step, engine, process, events>>

ConfigReady ==
  /\ step = "parse"
  /\ parsing # "running"
  /\ IF parsing = "done" THEN step' = "factories" /\ UNCHANGED process ELSE Reports
  /\ UNCHANGED <<arguments, parser, engine, events>>

RegisterBuiltIn ==
  /\ step = "factories"
  /\ m_ioFactories' = BuiltIn
  /\ step' = "plugins"
  /\ UNCHANGED <<arguments, parser, plugins, m_handlers, wires, m_started, process, events>>

(* registerIOFactory refuses an ID that is taken; the factories of the     *)
(* plugin before it stay registered.                                       *)
LoadPlugin ==
  /\ step = "plugins"
  /\ plugins < MaxPlugins
  /\ plugins' = plugins + 1
  /\ \E file \in PluginFiles :
       IF file.kind # "plugin" THEN Reports /\ UNCHANGED m_ioFactories
       ELSE LET ids   == file.ids
                fresh == {k \in DOMAIN ids : /\ ids[k] \notin m_ioFactories
                                             /\ \A j \in 1..(k - 1) : ids[j] # ids[k]}
                first == Min((DOMAIN ids \ fresh) \cup {Len(ids) + 1})
            IN  /\ m_ioFactories' = m_ioFactories \cup {ids[k] : k \in 1..(first - 1)}
                /\ IF first <= Len(ids) THEN Reports ELSE UNCHANGED <<step, process>>
  /\ UNCHANGED <<arguments, parser, m_handlers, wires, m_started, events>>

PluginsEnd ==
  /\ step = "plugins"
  /\ step' = "ios"
  /\ UNCHANGED <<arguments, parser, engine, process, events>>

(* One IO: findFactoryByID, create, setUniqueName, addIO.                  *)
AddConfiguredIO ==
  /\ step = "ios"
  /\ Len(m_handlers) < Len(m_ios)
  /\ LET io      == m_ios[Len(m_handlers) + 1]
         outcome == CreateOutcome(io.type, io.parameters)
     IN  IF io.type \notin m_ioFactories THEN Reports /\ UNCHANGED m_handlers
         ELSE CASE outcome = "error"   -> Reports /\ UNCHANGED m_handlers
                [] outcome = "endless" -> step' = "stuck" /\ UNCHANGED <<process, m_handlers>>
                [] outcome = "throws"  -> step' = "crashed" /\ UNCHANGED <<process, m_handlers>>
                [] outcome = "created" ->
                     /\ m_handlers' = Append(m_handlers,
                          [type |-> io.type, uniqueName |-> io.id,
                           options |-> CreatedOptions(io.type, io.parameters)])
                     /\ UNCHANGED <<step, process>>
  /\ UNCHANGED <<arguments, parser, m_ioFactories, plugins, wires, m_started, events>>

IOsEnd ==
  /\ step = "ios"
  /\ Len(m_handlers) = Len(m_ios)
  /\ step' = "connections"
  /\ UNCHANGED <<arguments, parser, engine, process, events>>

(* Comparing without regard to case; "A" stands for the capital letters.   *)
Folded(name) == [k \in DOMAIN name |-> IF name[k] = "A" THEN "a" ELSE name[k]]

(* The handlers getIOHandler finds, the first of the name.                 *)
IOHandlers(name) ==
  LET named == {k \in DOMAIN m_handlers : Folded(m_handlers[k].uniqueName) = Folded(name)}
  IN  IF named = {} THEN {} ELSE {Min(named)}

AddConfiguredConnection ==
  /\ step = "connections"
  /\ Len(wires) < Len(m_connections)
  /\ LET pair == m_connections[Len(wires) + 1]
     IN  \/ \E source \in IOHandlers(pair[1]), destination \in IOHandlers(pair[2]) :
              wires' = Append(wires, <<source, destination>>) /\ UNCHANGED <<step, process>>
         \/ (IOHandlers(pair[1]) = {} \/ IOHandlers(pair[2]) = {}) /\ Reports /\ UNCHANGED wires
  /\ UNCHANGED <<arguments, parser, m_ioFactories, plugins, m_handlers, m_started, events>>

ConnectionsEnd ==
  /\ step = "connections"
  /\ Len(wires) = Len(m_connections)
  /\ step' = "start"
  /\ UNCHANGED <<arguments, parser, engine, process, events>>

(* Engine::start and the status printer.                                   *)
StartEngine ==
  /\ step = "start"
  /\ m_started' = TRUE
  /\ step' = "running"
  /\ UNCHANGED <<arguments, parser, m_ioFactories, plugins, m_handlers, wires, process, events>>

Start ==
  \/ StartBegins \/ FromArguments \/ ConfigReady \/ RegisterBuiltIn \/ LoadPlugin \/ PluginsEnd
  \/ AddConfiguredIO \/ IOsEnd \/ AddConfiguredConnection \/ ConnectionsEnd \/ StartEngine

-----------------------------------------------------------------------------
(* main()                                                                  *)
MainGoesOn ==
  /\ \/ main = "base" /\ main' = "made"
     \/ main = "made" /\ main' = "connected"
     \/ main = "connected" /\ main' = "exec"
     \/ main = "returned" /\ main' = "half"
     \/ main = "half" /\ main' = "gone"
  /\ UNCHANGED <<arguments, parser, step, engine, exitCode, events>>

(* Mutant: start() runs the engine in a loop of its own.                   *)
InStart_Blocks == step # "failed"

(* The call of start() was queued before exec(), ahead of any quit.        *)
InStart == step \notin {"running", "failed"}

(* The event loop gets to the QEvent::Quit, which may still overtake the   *)
(* end of the loop after exit(1).                                          *)
OnQuit ==
  /\ main = "exec"
  /\ ~InStart
  /\ quitPosted
  /\ exitCode # 0
  /\ exitCode' = 0
  /\ UNCHANGED <<arguments, parser, step, engine, main, events>>

ExecReturns ==
  /\ main = "exec"
  /\ ~InStart
  /\ exitCode # 2
  /\ main' = "returned"
  /\ UNCHANGED <<arguments, parser, step, engine, exitCode, events>>

(* Mutant: the thread posts the quit before it calls the application.      *)
ControlEvent_QuitsFirst ==
  /\ main # "gone"
  /\ arrived < MaxEvents /\ arguments \in EventLines
  /\ arrived' = arrived + 1
  /\ entered' = entered + 1
  /\ quitPosted' = (quitPosted \/ main = "exec")
  /\ UNCHANGED <<arguments, parser, step, engine, process, deadCall>>

(* signalHandlerFunc, in a thread of its own: it finds g_signalHandler     *)
(* set, as it stays for ever, and some time later calls handleSignal,      *)
(* which emits quitted(); before exec() and after it quit() does nothing.  *)
ControlEvent ==
  /\ main # "gone"
  /\ arrived < MaxEvents /\ arguments \in EventLines
  /\ arrived' = arrived + 1
  /\ entered' = entered + 1
  /\ UNCHANGED <<arguments, parser, step, engine, process, quitPosted, deadCall>>

HandleSignal ==
  /\ entered > 0
  /\ entered' = entered - 1
  /\ quitPosted' = (quitPosted \/ main = "exec")
  /\ deadCall' = IF main \in Alive THEN deadCall ELSE deadCall \cup {main}
  /\ UNCHANGED <<arguments, parser, step, engine, process, arrived>>

Ended ==
  /\ main = "gone" /\ entered = 0
  /\ UNCHANGED vars

(* The loop of create() that does not end, and the exception that nobody   *)
(* catches: nothing more comes from this thread.                           *)
Hangs ==
  /\ step \in {"stuck", "crashed"}
  /\ UNCHANGED vars

Waits ==
  /\ step = "running"
  /\ UNCHANGED vars

Next ==
  \/ Start \/ MainGoesOn \/ OnQuit \/ ExecReturns
  \/ ControlEvent \/ HandleSignal
  \/ Ended \/ Hangs \/ Waits

Spec == Init /\ [][Next]_vars

(* The main thread goes on, and so does a handler's thread.                *)
Fairness ==
  /\ WF_vars(Start) /\ WF_vars(MainGoesOn) /\ WF_vars(OnQuit) /\ WF_vars(ExecReturns)
  /\ WF_vars(HandleSignal)

FairSpec == Spec /\ Fairness

-----------------------------------------------------------------------------
(* What runs is what the command line says, end to end: every IO, in order *)
(* and under its name; each option as given last, or else by its default;  *)
(* every connection, between the first IOs of the two names whatever the   *)
(* case.  One argument that cannot be followed, and nothing runs at all.   *)
FirstNamed(name) ==
  Min({k \in DOMAIN WrittenIOs : Folded(WrittenIOs[k].id) = Folded(name)})
OptionWritten(io, key) ==
  LET given == {k \in DOMAIN io.parameters : io.parameters[k].key = key}
  IN  IF given = {} THEN DefaultValue(io.type, key) ELSE io.parameters[Max(given)].value
RunsAsWritten ==
  m_started =>
    /\ Len(m_handlers) = Len(WrittenIOs)
    /\ \A k \in DOMAIN m_handlers :
         /\ m_handlers[k].type = WrittenIOs[k].type
         /\ m_handlers[k].uniqueName = WrittenIOs[k].id
         /\ \A key \in DOMAIN m_handlers[k].options :
              m_handlers[k].options[key] = OptionWritten(WrittenIOs[k], key)
    /\ wires = [k \in DOMAIN WrittenPairs |->
                  <<FirstNamed(WrittenPairs[k][1]), FirstNamed(WrittenPairs[k][2])>>]

(* One control event alone never reaches a destroyed application: its      *)
(* object goes only after the event loop has ended, for which it takes an  *)
(* error of start() or another event.                                      *)
OneEventIsSafe == (deadCall \cap {"half", "gone"} # {} /\ step # "failed") => arrived > 1

(* A control event that reaches the running event loop ends the program,   *)
(* however it meets the steps of start(), unless create() never returns:   *)
(* then the event is taken, and nothing comes of it.                       *)
QuitsWhenAsked == quitPosted ~> (main = "gone" \/ step = "stuck")

(* start() comes to an end: the proxy runs, or the program exits.  No      *)
(* create() gets as far as an expected::value() that has none, which is an *)
(* exception nobody catches: checkRequiredParameters asks for all that     *)
(* getParaValue may miss.                                                  *)
StartEnds == <>(step \in {"running", "stuck"} \/ main = "gone")

=============================================================================
