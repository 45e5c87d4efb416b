---------------------------- MODULE ProcessMain ----------------------------
(***************************************************************************)
(* A pyLabHub process from main() to its exit code, with the interactive   *)
(* signal handler that ends it (plh_role_main.cpp, plh_hub_main.cpp,       *)
(* interactive_signal_handler.cpp).                                        *)
(*                                                                         *)
(* Three threads and the signals act on one flag, g_shutdown.  main walks  *)
(* through its stages, returns early on the first that fails, and unwinds: *)
(* the host is destroyed first, the lifecycle guard uninstalls the handler *)
(* next.  The watcher sleeps on a self-pipe, asks the operator when there  *)
(* is a terminal, and raises the flag.  In the hub a bridge thread turns   *)
(* the flag into host.request_shutdown().  A signal runs its handler on    *)
(* any thread, in two steps: it counts, then writes one byte.              *)
(***************************************************************************)
EXTENDS Naturals

CONSTANTS Binaries,      \* of "role", "hub": the two main programs
          MaxSignals     \* signals sent in one behaviour

VARIABLES main,          \* [of, pc, rc]: which program, stage, return value
          host,          \* "none", "up", "stopped", "gone"
          flag,          \* g_shutdown
          bridge,        \* the hub's bridge thread
          installed,     \* signal dispositions point at signal_handler_impl
          force,         \* g_force_exit
          tty,           \* Impl::interactive
          pipe,          \* [open, full]: g_wake_pipe and whether it holds a byte
          count,         \* g_signal_count
          writing,       \* handlers between their fetch_add and their write
          watcher,       \* [pc, seen]: the watcher thread, the count it loaded
          status,        \* status_cb is set (it captures the host by reference)
          exit,          \* "none", or how the process ended
          sent,          \* signals sent, to bound them
          asked          \* history: the operator answered yes

mainVars == <<main, host, flag, bridge, installed, force, tty, pipe, count,
              writing, watcher, status, exit, sent, asked>>
watchVars == <<force, tty, pipe, count, writing, watcher, sent, asked>>

ProcessInit ==
    /\ main \in [of : Binaries, pc : {"begin"}, rc : {0}]
    /\ host = "none"
    /\ flag = FALSE
    /\ bridge = "off"
    /\ installed = FALSE
    /\ force = FALSE
    /\ tty \in BOOLEAN
    /\ pipe \in [open : BOOLEAN, full : {FALSE}]
    /\ count = 0
    /\ writing = 0
    /\ watcher = [pc |-> "off", seen |-> 0]
    /\ status = FALSE
    /\ exit = "none"
    /\ sent = 0
    /\ asked = FALSE

Alive == exit = "none"
Wake == pipe' = [pipe EXCEPT !.full = pipe.open]

-----------------------------------------------------------------------------
(* Signals                                                                 *)

\* signal_handler_impl, first half: the third unanswered signal ends the
\* process at once.  Without the handler the default disposition ends it.
Deliver ==
    /\ Alive
    /\ sent < MaxSignals
    /\ sent' = sent + 1
    /\ IF installed
         THEN /\ count' = count + 1
              /\ exit' = IF count + 1 >= 3 THEN "forced" ELSE exit
              /\ writing' = IF count + 1 >= 3 THEN writing ELSE writing + 1
         ELSE /\ exit' = "killed"
              /\ UNCHANGED <<count, writing>>
    /\ UNCHANGED <<main, host, flag, bridge, installed, force, tty, pipe,
                   watcher, status, asked>>

\* The byte that wakes the watcher.
WriteByte == Wake

\* signal_handler_impl, second half.
HandlerWrites ==
    /\ Alive
    /\ writing > 0
    /\ writing' = writing - 1
    /\ WriteByte
    /\ UNCHANGED <<main, host, flag, bridge, installed, force, tty, count,
                   watcher, status, exit, sent, asked>>

-----------------------------------------------------------------------------
(* The watcher thread                                                      *)

Watching(pc) == Alive /\ watcher.pc = pc
Goto(pc) == watcher' = [watcher EXCEPT !.pc = pc]

\* The loop condition and wait_for_signal: with the pipe, a readable byte;
\* without it, the counter, looked at every 500 ms.
WatcherLeaves ==
    /\ Watching("wait")
    /\ force
    /\ Goto("done")
    /\ UNCHANGED <<flag, pipe, count, asked>>

WaitForSignal ==
    /\ Watching("wait")
    /\ ~force
    /\ IF pipe.open THEN pipe.full ELSE count > 0
    /\ pipe' = [pipe EXCEPT !.full = FALSE]
    /\ Goto("load")
    /\ UNCHANGED <<flag, count, asked>>

LoadCount ==
    /\ Watching("load")
    /\ watcher' = [pc |-> CASE count = 0 -> "wait"
                            [] count >= 2 \/ ~tty -> "raise"
                            [] OTHER -> "flag",
                   seen |-> count]
    /\ UNCHANGED <<flag, pipe, count, asked>>

\* A shutdown already begun by the program needs no prompt.
LookAtFlag ==
    /\ Watching("flag")
    /\ Goto(IF flag THEN "raise" ELSE "status")
    /\ UNCHANGED <<flag, pipe, count, asked>>

\* print_interrupted calls the status callback; the prompt follows.
PrintInterrupted ==
    /\ Watching("status")
    /\ Goto("prompt")
    /\ UNCHANGED <<flag, pipe, count, asked>>

\* Variant: running out of time counts as consent.
NoAnswerConfirms == "raise"

\* What a prompt nobody answers leads to.
NoAnswer == "resume"

\* read_stdin_with_wake: a byte in the pipe, of a second signal or of
\* uninstall(), wins over the keyboard; then the answer; then the timeout.
Prompt ==
    /\ Watching("prompt")
    /\ \/ /\ pipe.full
          /\ pipe' = [pipe EXCEPT !.full = FALSE]
          /\ Goto("raise")
          /\ UNCHANGED asked
       \/ /\ ~pipe.full
          /\ asked' = TRUE
          /\ Goto("raise")
          /\ UNCHANGED pipe
       \/ /\ ~pipe.full
          /\ Goto(NoAnswer)
          /\ UNCHANGED <<pipe, asked>>
    /\ UNCHANGED <<flag, count>>

DoShutdown ==
    /\ Watching("raise")
    /\ flag' = TRUE
    /\ Goto("done")
    /\ UNCHANGED <<pipe, count, asked>>

\* Declined or timed out: the counter is reset, then the pipe is drained.
ResetCount ==
    /\ Watching("resume")
    /\ count' = 0
    /\ Goto("drain")
    /\ UNCHANGED <<flag, pipe, asked>>

DrainPipe ==
    /\ Watching("drain")
    /\ pipe' = [pipe EXCEPT !.full = FALSE]
    /\ Goto("wait")
    /\ UNCHANGED <<flag, count, asked>>

WatcherSteps ==
    /\ \/ WatcherLeaves
       \/ WaitForSignal
       \/ LoadCount
       \/ LookAtFlag
       \/ PrintInterrupted
       \/ Prompt
       \/ DoShutdown
       \/ ResetCount
       \/ DrainPipe
    /\ UNCHANGED <<main, host, bridge, installed, force, tty, writing, status,
                   exit, sent>>

-----------------------------------------------------------------------------
(* main                                                                    *)

At(pc) == Alive /\ main.pc = pc
Go(pc) == main' = [main EXCEPT !.pc = pc]
Return(pc, rc) == main' = [main EXCEPT !.pc = pc, !.rc = rc]

\* The ABI check, before anything exists; then install().
Install ==
    /\ At("begin")
    /\ \/ /\ exit' = "returned"
          /\ Return("end", 2)
          /\ UNCHANGED <<installed, count, force, watcher>>
       \/ /\ Go("parse")
          /\ installed' = TRUE
          /\ count' = 0
          /\ force' = FALSE
          /\ watcher' = [pc |-> "wait", seen |-> 0]
          /\ UNCHANGED exit
    /\ UNCHANGED <<host, flag, bridge, tty, pipe, writing, status, sent, asked>>

\* The arguments and the role's registration; then the lifecycle guard.
ParseArguments ==
    /\ At("parse")
    /\ \/ \E rc \in {0, 1} : Return("unwind", rc)
       \/ Go("prepare")
    /\ UNCHANGED <<host, flag, bridge, installed, status, exit>>
    /\ UNCHANGED watchVars

\* What both programs do next returns when its mode is done or on failure.
ReturnsOrGoesOn ==
    /\ \/ \E rc \in {0, 1} : Return("unwind", rc)
       \/ Go("startup")
    /\ UNCHANGED <<host, flag, bridge, installed, status, exit>>
    /\ UNCHANGED watchVars

\* The role: --init, the configuration and the log file, --keygen, the ZAP
\* pump, the vault, the interpreter.
PrepareRole ==
    /\ At("prepare")
    /\ main.of = "role"
    /\ ReturnsOrGoesOn

\* The hub: --init, the known-role commands, the configuration and the log
\* file, --keygen, the vault, the interpreter.
PrepareHub ==
    /\ At("prepare")
    /\ main.of = "hub"
    /\ ReturnsOrGoesOn

\* The host is built and started.  A start that throws returns 1; a script that
\* does not load, --validate and a loop that did not start shut down first.
StartReturns ==
    /\ \E rc \in {0, 1} : Return("destroy", rc)
    /\ host' = "stopped"
    /\ UNCHANGED <<status, bridge>>

StartRole ==
    /\ At("startup")
    /\ main.of = "role"
    /\ \/ StartReturns
       \/ /\ Go("loop")
          /\ host' = "up"
          /\ status' = TRUE
          /\ UNCHANGED bridge
    /\ UNCHANGED <<flag, installed, exit>>
    /\ UNCHANGED watchVars

\* The hub starts its bridge thread between the host and the callback.
StartHub ==
    /\ At("startup")
    /\ main.of = "hub"
    /\ \/ StartReturns
       \/ /\ Go("loop")
          /\ host' = "up"
          /\ bridge' = "watch"
          /\ status' = TRUE
    /\ UNCHANGED <<flag, installed, exit>>
    /\ UNCHANGED watchVars

\* The host's own end: api.stop(), a closed channel, a lost hub.
HostStops ==
    /\ Alive
    /\ host = "up"
    /\ host' = "stopped"
    /\ UNCHANGED <<main, flag, bridge, installed, status, exit>>
    /\ UNCHANGED watchVars

\* run_role_main_loop polls the flag and the host; HubHost::run_main_loop waits
\* for the host alone.  Either way the flag is set before the teardown.
MainLoopEnds ==
    /\ At("loop")
    /\ host = "stopped" \/ (main.of = "role" /\ flag)
    /\ flag' = TRUE
    /\ Go("join")
    /\ UNCHANGED <<host, bridge, installed, status, exit>>
    /\ UNCHANGED watchVars

\* The hub's bridge: the flag becomes request_shutdown.
BridgeRuns ==
    /\ Alive
    /\ bridge = "watch"
    /\ \/ /\ flag
          /\ host' = IF host = "up" THEN "stopped" ELSE host
       \/ /\ ~flag
          /\ host # "up"
          /\ UNCHANGED host
    /\ bridge' = "done"
    /\ UNCHANGED <<main, flag, installed, status, exit>>
    /\ UNCHANGED watchVars

\* bridge.join(), host.shutdown() and the exit code: 2 when the teardown had
\* to detach a thread.
ShutDownHost ==
    /\ At("join")
    /\ bridge # "watch"
    /\ host' = "stopped"
    /\ \E rc \in {0, 2} : Return("destroy", rc)
    /\ UNCHANGED <<flag, bridge, installed, status, exit>>
    /\ UNCHANGED watchVars

\* Locals are destroyed in reverse: first the host ...
DestroyHost ==
    /\ At("destroy")
    /\ host' = "gone"
    /\ Go("unwind")
    /\ UNCHANGED <<flag, bridge, installed, status, exit>>
    /\ UNCHANGED watchVars

\* ... then the lifecycle guard or the handler's destructor calls uninstall(),
\* which wakes the watcher ...
Uninstall ==
    /\ At("unwind")
    /\ force' = TRUE
    /\ Wake
    /\ Go("wait")
    /\ UNCHANGED <<host, flag, bridge, installed, tty, count, writing, watcher,
                   status, exit, sent, asked>>

\* ... joins it, and restores the dispositions.
JoinWatcher ==
    /\ At("wait")
    /\ watcher.pc = "done"
    /\ installed' = FALSE
    /\ pipe' = [open |-> FALSE, full |-> FALSE]
    /\ Go("leave")
    /\ UNCHANGED <<host, flag, bridge, force, tty, count, writing, watcher,
                   status, exit, sent, asked>>

Leave ==
    /\ At("leave")
    /\ exit' = "returned"
    /\ Go("end")
    /\ UNCHANGED <<host, flag, bridge, installed, status>>
    /\ UNCHANGED watchVars

MainSteps ==
    \/ Install
    \/ ParseArguments
    \/ PrepareRole
    \/ PrepareHub
    \/ StartRole
    \/ StartHub
    \/ MainLoopEnds
    \/ ShutDownHost
    \/ DestroyHost
    \/ Uninstall
    \/ JoinWatcher
    \/ Leave

ProcessNext ==
    \/ Deliver
    \/ HandlerWrites
    \/ WatcherSteps
    \/ MainSteps
    \/ BridgeRuns
    \/ HostStops

ProcessSpec ==
    /\ ProcessInit
    /\ [][ProcessNext]_mainVars
    /\ WF_mainVars(HandlerWrites)
    /\ WF_mainVars(WatcherSteps)
    /\ WF_mainVars(MainSteps)
    /\ WF_mainVars(BridgeRuns)

-----------------------------------------------------------------------------
(* Properties                                                              *)

\* On a terminal one signal alone never stops the process: the flag is raised
\* only by the program itself, by a yes, or when a second signal was sent.
ShutdownIsAsked ==
    (flag /\ tty /\ main.pc \in {"parse", "prepare", "startup", "loop"})
        => asked \/ sent >= 2

\* The second signal without a terminal ends the process at once, as the
\* header says ("second signal -> _Exit(1)").
SecondSignalExits ==
    (installed /\ ~tty /\ count >= 2) => ~Alive
=============================================================================
