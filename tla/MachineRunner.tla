--------------------------- MODULE MachineRunner ---------------------------
(***************************************************************************)
(* The driver's loop around a machine (machine_runner.cpp), which `ceres   *)
(* run` steps a slice at a time: between slices it restarts a machine that *)
(* stopped, goes back to the shell when a program ends, keeps the          *)
(* terminal's session across a change of program, and lets the host quit.  *)
(* One thread runs it all; the machine and its restart are CeresVM's.      *)
(***************************************************************************)
EXTENDS CeresVM

CONSTANTS
    Shell,          \* the shell's program, or None without --shell
    Environments,   \* what envp can hold, CERES_STATUS apart
    Statuses,       \* exit statuses
    NoSession,
    FaultStatus     \* the one the BIOS's default handlers end with

Unset == "unset"

(* Whose argv, which environment, and the CERES_STATUS in it. *)
ArgumentsOf(p, e, s) == [argv |-> p, env |-> e, status |-> s]

ASSUME RunnerAssumption ==
    /\ Shell \in Programs \cup {None}
    /\ FaultStatus \in Statuses
    /\ Unset \notin Statuses
    /\ Arguments = [argv : Programs, env : Environments, status : Statuses \cup {Unset}]

(* The terminal: who wrote on the screen last, who typed the last line of   *)
(* the history, and whether the text plane has the geometry of a reset.     *)
Blank == [screen |-> None, history |-> None, plain |-> TRUE]
Fault == "fault report"
Terminals == [screen : Programs \cup {None, Fault}, history : Programs \cup {None}, plain : BOOLEAN]

ASSUME SessionAssumption == NoSession \notin Terminals

VARIABLES
    runningShell,   \* the program running is the shell, started as the shell
    session,        \* the terminal kept for the program about to start
    terminal,
    exitStatus,     \* the control device's
    faulted,        \* the machine stopped in a default handler
    hostQuit,
    why,            \* history: what stopped the machine last
    last,           \* history: the program that stopped it, what it left
    resumed         \* history: the machine has just restarted

driver == <<runningShell, session, terminal, exitStatus, faulted, hostQuit, why, last, resumed>>
runVars == <<vars, driver>>

Reasons == {"start", "end", "reset", "load"}

(* The program's last moments, as the history keeps them. *)
Remember(reason, status) ==
    /\ why' = reason
    /\ last' = [program |-> program, env |-> arguments.env, status |-> status, terminal |-> terminal,
                faulted |-> faulted']

RunnerInit ==
    /\ Init
    /\ runningShell = (First = Shell)
    /\ session = NoSession
    /\ terminal = Blank
    /\ exitStatus \in Statuses
    /\ faulted = FALSE
    /\ hostQuit = FALSE
    /\ why = "start"
    /\ last = [program |-> First, env |-> FirstArguments.env, status |-> Unset, terminal |-> Blank,
               faulted |-> FALSE]
    /\ resumed = FALSE

(* vm.powerOn() before the loop. *)
Begin ==
    /\ at = "start"
    /\ on' = TRUE
    /\ started' = TRUE
    /\ at' = "pump"
    /\ UNCHANGED <<resetRequested, machine, cutting, history, driver>>

(* The top of the loop.  A load waiting keeps the terminal's session. *)
Top ==
    /\ at = "top"
    /\ at' = IF on THEN "pump" ELSE "exchange"
    /\ session' = IF ~on /\ pendingProgram # None THEN terminal ELSE NoSession
    /\ UNCHANGED <<on, resetRequested, machine, started, cutting, history,
                   runningShell, terminal, exitStatus, faulted, hostQuit, why, last, resumed>>

(* restartIfRequested(): the terminal is one of the devices it resets, and  *)
(* the pc leaves the default handlers.                                      *)
RestartStep ==
    /\ Restart
    /\ terminal' = IF at = "devices" THEN Blank ELSE terminal
    /\ faulted' = (faulted /\ at' # "clear")
    /\ UNCHANGED <<runningShell, session, exitStatus, hostQuit, why, last, resumed>>

(* A session whose text plane had another geometry gives back its history   *)
(* only.                                                                    *)
Restored(t, s) == [t EXCEPT !.history = s.history,
                            !.screen = IF s.plain = t.plain THEN s.screen ELSE t.screen]

Resume ==
    /\ at = "restarted"
    /\ terminal' = IF session = NoSession THEN terminal ELSE Restored(terminal, session)
    /\ resumed' = TRUE
    /\ at' = "pump"
    /\ UNCHANGED <<on, resetRequested, machine, started, cutting, history,
                   runningShell, session, exitStatus, faulted, hostQuit, why, last>>

(* Mutant: the shell is told the status of the program before. *)
ShellArgumentsMutant == ArgumentsOf(Shell, arguments.env,
    IF arguments.status = Unset THEN exitStatus ELSE arguments.status)

(* The program ended.  The shell's end, or no shell to go back to, ends the *)
(* run; so does a shell that does not fit with the environment.             *)
ShellArguments == ArgumentsOf(Shell, arguments.env, exitStatus)

Over == Shell = None \/ runningShell

(* Mutant: a shell that cannot start does not end the loop. *)
EndRunMutant ==
    /\ at = "refused"
    /\ Over \/ ShellArguments \notin Fits[Shell]
    /\ at' = IF Over THEN "ended" ELSE "pump"
    /\ terminal' = [terminal EXCEPT !.screen = IF faulted THEN Fault ELSE terminal.screen]
    /\ UNCHANGED <<on, resetRequested, machine, started, cutting, history,
                   runningShell, session, exitStatus, faulted, hostQuit, why, last, resumed>>

EndRun ==
    /\ at = "refused"
    /\ Over \/ ShellArguments \notin Fits[Shell]
    /\ at' = "ended"
    /\ terminal' = [terminal EXCEPT !.screen = IF faulted THEN Fault ELSE terminal.screen]
    /\ UNCHANGED <<on, resetRequested, machine, started, cutting, history,
                   runningShell, session, exitStatus, faulted, hostQuit, why, last, resumed>>

GoBack ==
    /\ at = "refused"
    /\ ~Over /\ ShellArguments \in Fits[Shell]
    /\ pendingProgram' = Shell /\ pendingArguments' = ShellArguments
    /\ chosen' = <<Shell, ShellArguments>>
    /\ resetRequested' = TRUE /\ on' = FALSE
    /\ runningShell' = TRUE
    /\ terminal' = [terminal EXCEPT !.screen = IF faulted THEN Fault ELSE terminal.screen]
    /\ session' = terminal'
    /\ at' = "exchange"
    /\ UNCHANGED <<program, arguments, image, vectors, pending, devicesFresh, started, cutting,
                   asks, hostAsks, shutdowns, stopped, exitStatus, faulted, hostQuit, why, last, resumed>>

(* The host's events go in between slices. *)
Pump ==
    /\ at = "pump"
    /\ at' = "looking"
    /\ resumed' = FALSE
    /\ UNCHANGED <<on, resetRequested, machine, started, cutting, history,
                   runningShell, session, terminal, exitStatus, faulted, hostQuit, why, last>>

Quit ==
    /\ at = "pump"
    /\ at' = "ended"
    /\ hostQuit' = TRUE
    /\ UNCHANGED <<on, resetRequested, machine, started, cutting, history,
                   runningShell, session, terminal, exitStatus, faulted, why, last, resumed>>

-----------------------------------------------------------------------------
(* A slice *)

NextStep ==
    /\ at = "looking" /\ on
    /\ at' = "stepping"
    /\ UNCHANGED <<on, resetRequested, machine, started, cutting, history, driver>>

(* The machine is off, or the slice's millisecond is over, or it halted. *)
SliceEnds ==
    /\ at = "looking"
    /\ at' = "top"
    /\ UNCHANGED <<on, resetRequested, machine, started, cutting, history, driver>>

(* The program prints, reads a line, or changes the text plane. *)
Terminal(t) ==
    /\ Work
    /\ t.screen \in {terminal.screen, program} /\ t.history \in {terminal.history, program}
    /\ terminal' = t
    /\ UNCHANGED <<runningShell, session, exitStatus, faulted, hostQuit, why, last, resumed>>

Exit(s) ==
    /\ ShutDown
    /\ exitStatus' = s
    /\ UNCHANGED <<runningShell, session, terminal, faulted, hostQuit, resumed>>
    /\ Remember("end", s)

(* An exception nobody handles: a default handler shuts the machine down. *)
Unhandled ==
    /\ ShutDown
    /\ exitStatus' = FaultStatus
    /\ faulted' = TRUE
    /\ Remember("end", FaultStatus)
    /\ UNCHANGED <<runningShell, session, terminal, hostQuit, resumed>>

Reset ==
    /\ AskReset
    /\ UNCHANGED <<runningShell, session, terminal, exitStatus, faulted, hostQuit, resumed>>
    /\ Remember("reset", Unset)

(* Mutant: the shell is still said to run after it loaded a program. *)
LoadAndRunMutant(p, e) ==
    /\ p # Shell
    /\ UNCHANGED <<runningShell, session, terminal, exitStatus, faulted, hostQuit, resumed>>
    /\ LET a == IF e = Unset THEN [arguments EXCEPT !.argv = p] ELSE ArgumentsOf(p, e, Unset)
       IN  /\ RequestLoad(p, a)
           /\ IF a \in Fits[p] THEN Remember("load", Unset) ELSE UNCHANGED <<why, last>>

(* Command 3, of a program of the host directory: the shell is not there.   *)
(* One that does not fit leaves the program running.                        *)
LoadAndRun(p, e) ==
    /\ p # Shell
    /\ UNCHANGED <<session, terminal, exitStatus, faulted, hostQuit, resumed>>
    /\ LET a == IF e = Unset THEN [arguments EXCEPT !.argv = p] ELSE ArgumentsOf(p, e, Unset)
       IN  /\ RequestLoad(p, a)
           /\ IF a \in Fits[p]
                 THEN runningShell' = FALSE /\ Remember("load", Unset)
                 ELSE UNCHANGED <<runningShell, why, last>>

Cut == CutPower /\ UNCHANGED driver

Slice ==
    \/ NextStep \/ SliceEnds \/ Unhandled \/ Reset \/ Cut
    \/ \E t \in Terminals : Terminal(t)
    \/ \E s \in Statuses : Exit(s)
    \/ \E p \in Programs, e \in Environments \cup {Unset} : LoadAndRun(p, e)

Loop == Begin \/ Top \/ RestartStep \/ Resume \/ EndRun \/ GoBack \/ Pump

RunnerNext == Loop \/ Quit \/ Slice

(* The loop goes round. *)
RunnerSpec == RunnerInit /\ [][RunnerNext]_runVars /\ WF_runVars(Loop) /\ WF_runVars(Slice)

-----------------------------------------------------------------------------
(* Properties *)

RunnerPlaces == Places \cup {"top", "pump", "ended"}

(* The driver's variables keep their types, and the machine's program and   *)
(* arguments are ones it can hold.                                          *)
RunnerTypeOK ==
    /\ on \in BOOLEAN /\ resetRequested \in BOOLEAN
    /\ program \in Programs /\ arguments \in Arguments
    /\ at \in RunnerPlaces
    /\ runningShell \in BOOLEAN /\ faulted \in BOOLEAN /\ hostQuit \in BOOLEAN /\ resumed \in BOOLEAN
    /\ terminal \in Terminals /\ session \in Terminals \cup {NoSession}
    /\ exitStatus \in Statuses
    /\ why \in Reasons
    /\ last \in [program : Programs, env : Environments, status : Statuses \cup {Unset}, terminal : Terminals,
                 faulted : BOOLEAN]

(* Going back: when a program other than the shell ends, the shell comes    *)
(* back with the environment of the program that ended and its exit status, *)
(* however many loads and resets came before.                               *)
ShellIsTold ==
    resumed /\ why = "end" =>
        /\ program = Shell /\ last.program # Shell
        /\ image.arguments = ArgumentsOf(Shell, last.env, last.status)

(* The run ends with the shell's own end, and not before: only the host, a  *)
(* run without a shell or a shell that does not fit ends it otherwise.      *)
RunEndsWithShell ==
    at = "ended" /\ ~hostQuit /\ Shell # None =>
        \/ program = Shell /\ last.program = Shell /\ why = "end"
        \/ ArgumentsOf(Shell, last.env, last.status) \notin Fits[Shell]

(* What survives: a change of program keeps the terminal's history, and its *)
(* screen unless the old program changed the text plane; an exception's     *)
(* report is on the screen the shell comes back to; a reset keeps nothing.  *)
TerminalCarriedOver ==
    resumed =>
        IF why = "reset" THEN terminal = Blank
        ELSE /\ terminal.plain
             /\ terminal.history = last.terminal.history
             /\ terminal.screen = IF ~last.terminal.plain THEN None
                                  ELSE IF last.faulted THEN Fault
                                  ELSE last.terminal.screen

(* The shell comes back as if it had called the program: what it is told    *)
(* and the terminal it finds are those of the program that ended.           *)
ShellResumes == RunnerTypeOK /\ ShellIsTold /\ TerminalCarriedOver

(* A machine that stopped runs again, or the run is over: the loop does not *)
(* go round for ever with the power off.                                    *)
StoppedGoesOn == ~on ~> (on \/ at \in {"ended", "returned"})

(* The loop never sticks: neither a machine that is off nor a reset that    *)
(* was asked for waits for ever.                                            *)
RunGoesOn == StoppedGoesOn /\ LoneResetTaken

=============================================================================
