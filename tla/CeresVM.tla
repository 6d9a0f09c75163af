------------------------------ MODULE CeresVM ------------------------------
(***************************************************************************)
(* The life of a machine (CeresVM): a program is loaded, run() steps it,   *)
(* and a reset, a load or a shutdown stops the step loop.  A reset starts  *)
(* over between two instructions; a load starts another program the same   *)
(* way.  The stop signal and the reset request are two atomics, and the    *)
(* thread that sets them is not always the one that runs the step loop, so *)
(* every atomic access is an action.                                       *)
(***************************************************************************)
EXTENDS Naturals

CONSTANTS
    Programs,        \* the images, each with its interrupt vectors
    Arguments,       \* argv and envp, together
    Fits,            \* Fits[p]: the arguments p fits this machine with (check)
    Vectors,         \* the interrupt numbers a program can bind
    DefaultVectors,  \* those the BIOS gives a default handler
    Binds,           \* Binds[p]: the vectors program p binds
    First,           \* the program loaded before run()
    FirstArguments,
    NoArguments,     \* the empty pair
    MaxAsks,         \* bound on the program's calls of requestReset() and requestLoad()
    MaxHostAsks,     \* bound on the other thread's calls of requestReset()
    MaxShutdowns     \* bound on calls of shutdown()

None == "none"
Bios == "bios"

ASSUME ConstantsAssumption ==
    /\ Fits \in [Programs -> SUBSET Arguments]
    /\ Binds \in [Programs -> SUBSET Vectors]
    /\ DefaultVectors \subseteq Vectors
    /\ First \in Programs /\ FirstArguments \in Fits[First]
    /\ MaxAsks \in Nat /\ MaxHostAsks \in Nat /\ MaxShutdowns \in Nat
    /\ {None, Bios} \cap Programs = {} /\ NoArguments \notin Arguments

VARIABLES
    on,                \* _isPoweredOn
    resetRequested,    \* _resetRequested
    program,           \* _program
    arguments,         \* _arguments
    pendingProgram,    \* _pendingProgram
    pendingArguments,  \* _pendingArguments
    image,             \* what loadProgram placed, and whether it is as it was loaded
    vectors,           \* whose handler each vector of the null page names
    pending,           \* an interrupt is pending
    devicesFresh,      \* the devices are as reset() leaves them
    at,                \* where the thread of the step loop is
    started,           \* run() has got past its first restart
    cutting,           \* another thread is between the stores of requestReset()
    asks,              \* the program's calls of requestReset() and requestLoad()
    hostAsks,          \* the other thread's calls of requestReset()
    shutdowns,         \* calls of shutdown()
    chosen,            \* history: the program and arguments last accepted
    stopped            \* history: a shutdown came after the step loop was left

machine == <<program, arguments, pendingProgram, pendingArguments, image, vectors, pending, devicesFresh>>
history == <<asks, hostAsks, shutdowns, chosen, stopped>>
vars == <<on, resetRequested, machine, at, started, cutting, history>>

Places == {"start", "looking", "stepping", "cutting", "exchange", "take", "load",
           "clear", "devices", "powerOn", "restarted", "refused", "returned"}

(* The vectors after loadProgram(p): the BIOS writes its own, the program   *)
(* those it binds, and the rest of the null page is left alone.             *)
Bound(p) == [v \in Vectors |-> IF v \in Binds[p] THEN p
                               ELSE IF v \in DefaultVectors THEN Bios
                               ELSE vectors[v]]

(* A machine with a program loaded, about to run(). *)
Init ==
    /\ on = FALSE
    /\ resetRequested = FALSE
    /\ program = First /\ arguments = FirstArguments
    /\ pendingProgram = None /\ pendingArguments = NoArguments
    /\ image = [program |-> First, arguments |-> FirstArguments, asLoaded |-> TRUE]
    /\ vectors = [v \in Vectors |-> IF v \in Binds[First] THEN First
                                    ELSE IF v \in DefaultVectors THEN Bios ELSE None]
    /\ pending = FALSE
    /\ devicesFresh = TRUE
    /\ at = "start"
    /\ started = FALSE
    /\ cutting = FALSE
    /\ asks = 0 /\ hostAsks = 0 /\ shutdowns = 0
    /\ chosen = <<First, FirstArguments>>
    /\ stopped = FALSE

-----------------------------------------------------------------------------
(* The step loop: run() *)

Run ==
    /\ at = "start"
    /\ at' = "exchange"
    /\ UNCHANGED <<on, resetRequested, machine, started, cutting, history>>

(* The load of _isPoweredOn before each step.  A machine switched off       *)
(* leaves the loop, and whatever stops it from here on is a new signal.     *)
Look ==
    /\ at = "looking"
    /\ at' = IF on THEN "stepping" ELSE "exchange"
    /\ stopped' = IF on THEN stopped ELSE FALSE
    /\ UNCHANGED <<on, resetRequested, machine, started, cutting, asks, hostAsks, shutdowns, chosen>>

(* An instruction that leaves the control port alone. *)
Work ==
    /\ at = "stepping"
    /\ at' = "looking"
    /\ image' = [image EXCEPT !.asLoaded = FALSE]
    /\ devicesFresh' = FALSE
    /\ pending' \in BOOLEAN
    /\ UNCHANGED <<on, resetRequested, program, arguments, pendingProgram, pendingArguments,
                   vectors, started, cutting, history>>

(* Command 1: shutdown(). *)
ShutDown ==
    /\ at = "stepping"
    /\ shutdowns < MaxShutdowns
    /\ on' = FALSE
    /\ shutdowns' = shutdowns + 1
    /\ at' = "looking"
    /\ UNCHANGED <<resetRequested, machine, started, cutting, asks, hostAsks, chosen, stopped>>

(* Commands 2 and 3 end in requestReset(): the request first, then the      *)
(* power-off (CutPower).                                                    *)
AskReset ==
    /\ at = "stepping"
    /\ asks < MaxAsks
    /\ asks' = asks + 1
    /\ resetRequested' = TRUE
    /\ at' = "cutting"
    /\ UNCHANGED <<on, machine, started, cutting, hostAsks, shutdowns, chosen, stopped>>

RequestLoad(p, a) ==
    /\ at = "stepping"
    /\ asks < MaxAsks
    /\ asks' = asks + 1
    /\ IF a \in Fits[p]
          THEN /\ pendingProgram' = p /\ pendingArguments' = a
               /\ chosen' = <<p, a>>
               /\ resetRequested' = TRUE
               /\ at' = "cutting"
          ELSE /\ at' = "looking"
               /\ UNCHANGED <<pendingProgram, pendingArguments, chosen, resetRequested>>
    /\ UNCHANGED <<on, program, arguments, image, vectors, pending, devicesFresh,
                   started, cutting, hostAsks, shutdowns, stopped>>

CutPower ==
    /\ at = "cutting"
    /\ on' = FALSE
    /\ at' = "looking"
    /\ UNCHANGED <<resetRequested, machine, started, cutting, history>>

-----------------------------------------------------------------------------
(* restartIfRequested() *)

Exchange ==
    /\ at = "exchange"
    /\ resetRequested' = FALSE
    /\ at' = IF resetRequested THEN "take" ELSE "refused"
    /\ UNCHANGED <<on, machine, started, cutting, history>>

(* What requestLoad() left becomes the machine's, program and arguments.    *)
TakePending ==
    /\ at = "take"
    /\ IF pendingProgram # None
          THEN /\ program' = pendingProgram /\ arguments' = pendingArguments
               /\ pendingProgram' = None /\ pendingArguments' = NoArguments
          ELSE UNCHANGED <<program, arguments, pendingProgram, pendingArguments>>
    /\ at' = "load"
    /\ UNCHANGED <<on, resetRequested, image, vectors, pending, devicesFresh, started, cutting, history>>

(* loadProgram(): refused while the power is on or when it does not fit.    *)
Load ==
    /\ at = "load"
    /\ IF ~on /\ arguments \in Fits[program]
          THEN /\ image' = [program |-> program, arguments |-> arguments, asLoaded |-> TRUE]
               /\ vectors' = Bound(program)
               /\ at' = "clear"
          ELSE /\ at' = "refused"
               /\ UNCHANGED <<image, vectors>>
    /\ UNCHANGED <<on, resetRequested, program, arguments, pendingProgram, pendingArguments,
                   pending, devicesFresh, started, cutting, history>>

ClearInterrupts ==
    /\ at = "clear"
    /\ pending' = FALSE
    /\ at' = "devices"
    /\ UNCHANGED <<on, resetRequested, program, arguments, pendingProgram, pendingArguments,
                   image, vectors, devicesFresh, started, cutting, history>>

ResetDevices ==
    /\ at = "devices"
    /\ devicesFresh' = TRUE
    /\ at' = "powerOn"
    /\ UNCHANGED <<on, resetRequested, program, arguments, pendingProgram, pendingArguments,
                   image, vectors, pending, started, cutting, history>>

PowerOn ==
    /\ at = "powerOn"
    /\ on' = TRUE
    /\ at' = "restarted"
    /\ UNCHANGED <<resetRequested, machine, started, cutting, history>>

Restart == Exchange \/ TakePending \/ Load \/ ClearInterrupts \/ ResetDevices \/ PowerOn


(* What run() makes of the answer.  The first time a machine nobody asked   *)
(* to reset is powered on as it is; after that the run is over.             *)
Restarted ==
    /\ at = "restarted"
    /\ started' = TRUE
    /\ at' = "looking"
    /\ UNCHANGED <<on, resetRequested, machine, cutting, history>>

PowerOnAsItIs ==
    /\ at = "refused" /\ ~started /\ ~on
    /\ on' = TRUE
    /\ started' = TRUE
    /\ at' = "looking"
    /\ UNCHANGED <<resetRequested, machine, cutting, history>>

Return ==
    /\ at = "refused" /\ (started \/ on)
    /\ at' = "returned"
    /\ UNCHANGED <<on, resetRequested, machine, started, cutting, history>>

-----------------------------------------------------------------------------
(* Another thread, once run() has started *)

(* Mutant: the power is cut before anyone can see the request. *)
HostAskResetMutant ==
    /\ ~cutting /\ started
    /\ hostAsks < MaxHostAsks
    /\ hostAsks' = hostAsks + 1
    /\ on' = FALSE
    /\ cutting' = TRUE
    /\ UNCHANGED <<resetRequested, machine, at, started, asks, shutdowns, chosen, stopped>>

HostAskReset ==
    /\ ~cutting /\ started
    /\ hostAsks < MaxHostAsks
    /\ hostAsks' = hostAsks + 1
    /\ resetRequested' = TRUE
    /\ cutting' = TRUE
    /\ UNCHANGED <<on, machine, at, started, asks, shutdowns, chosen, stopped>>

HostCutPower ==
    /\ cutting
    /\ on' = FALSE
    /\ cutting' = FALSE
    /\ UNCHANGED <<resetRequested, machine, at, started, history>>

HostShutDown ==
    /\ ~cutting /\ started
    /\ shutdowns < MaxShutdowns
    /\ on' = FALSE
    /\ shutdowns' = shutdowns + 1
    /\ stopped' = TRUE
    /\ UNCHANGED <<resetRequested, machine, at, started, cutting, asks, hostAsks, chosen>>

StepLoop ==
    \/ Run \/ Look \/ Work \/ ShutDown \/ AskReset \/ CutPower
    \/ \E p \in Programs, a \in Arguments : RequestLoad(p, a)
    \/ Restart \/ Restarted \/ PowerOnAsItIs \/ Return

Host == HostAskReset \/ HostCutPower \/ HostShutDown

Next == StepLoop \/ Host

(* The thread of the step loop keeps running, and a call of requestReset()  *)
(* ends.                                                                    *)
Spec == Init /\ [][Next]_vars /\ WF_vars(StepLoop) /\ WF_vars(HostCutPower)

-----------------------------------------------------------------------------
(* Properties *)

SignalsOK ==
    /\ on \in BOOLEAN
    /\ resetRequested \in BOOLEAN
    /\ started \in BOOLEAN
    /\ cutting \in BOOLEAN
    /\ stopped \in BOOLEAN
    /\ at \in Places

MachineOK ==
    /\ program \in Programs /\ arguments \in Arguments
    /\ pendingProgram \in Programs \cup {None}
    /\ pendingArguments \in Arguments \cup {NoArguments}
    /\ chosen \in Programs \X Arguments
    /\ image \in [program : Programs, arguments : Arguments, asLoaded : BOOLEAN]
    /\ vectors \in [Vectors -> Programs \cup {None, Bios}]
    /\ pending \in BOOLEAN
    /\ devicesFresh \in BOOLEAN

CountsOK == asks \in 0..MaxAsks /\ hostAsks \in 0..MaxHostAsks /\ shutdowns \in 0..MaxShutdowns

(* Every variable of the machine and its run keeps its type. *)
TypeOK ==
    /\ SignalsOK
    /\ MachineOK
    /\ CountsOK

(* Whatever resets, loads and shutdowns cross each other, what runs is what *)
(* was last accepted, its program with its own arguments: requestLoad()     *)
(* keeps the pair until a restart takes it, a reset in between does not     *)
(* lose it, and every later reset starts the same pair again.               *)
AcceptedLoadRuns ==
    /\ started /\ at \in {"looking", "stepping", "cutting"} =>
          /\ image.program = program /\ image.arguments = arguments
          /\ arguments \in Fits[program]
    /\ chosen = IF pendingProgram = None THEN <<program, arguments>>
                ELSE <<pendingProgram, pendingArguments>>

(* A restart gives the program a machine with nothing left of the last one: *)
(* its image as it was loaded, no interrupt pending, the devices reset, and *)
(* every vector it binds or the BIOS fills in its own.                      *)
RestartIsClean ==
    at = "restarted" =>
        /\ image.asLoaded /\ ~pending /\ devicesFresh
        /\ \A v \in Binds[program] : vectors[v] = program
        /\ \A v \in DefaultVectors \ Binds[program] : vectors[v] = Bios

(* Whether two threads, or one of them twice, asked for a reset. *)
Crossed == hostAsks > 1 \/ (hostAsks = 1 /\ asks > 0)

(* Of a reset no other crosses: the step loop that sees the power-off of    *)
(* requestReset() sees its request, so run() does not return for it.        *)
LoneResetKeepsRunning == at = "returned" => shutdowns > 0 \/ Crossed

(* The same of the request: a lone reset is carried out.                   *)
LoneResetTaken == resetRequested ~> (~resetRequested \/ at = "returned" \/ Crossed)

(* What was asked for last is what starts, on a machine with nothing left   *)
(* of the run before it; and a reset that no other crosses is a restart and *)
(* not the end of run().                                                    *)
RestartIsSound == AcceptedLoadRuns /\ RestartIsClean /\ LoneResetKeepsRunning

(* The stop signal is kept: a shutdown that comes while the loop is         *)
(* restarting leaves the machine off.                                       *)
StopSignalKept == stopped => ~on

=============================================================================
