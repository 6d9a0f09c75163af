----------------------------- MODULE MCLifecycle -----------------------------
(* A machine's life in both of its owners' hands: the driver's loop, whose  *)
(* one thread does everything, and run() itself, which another thread may   *)
(* stop or reset at any of its atomic accesses.                             *)
EXTENDS MachineRunner

(* A shell and one program of the host directory, which `ceres run` starts  *)
(* with or not.  The shell does not fit with the large environment and a    *)
(* status in it.                                                            *)
MCPrograms == {"app", "shell"}
MCEnvironments == {"small", "large"}
MCStatuses == {"0", "1"}
MCArguments == [argv : MCPrograms, env : MCEnvironments, status : MCStatuses \cup {"unset"}]
TooLarge == {a \in MCArguments : a.env = "large" /\ a.status = "1"}
MCFits == [p \in MCPrograms |-> IF p = "app" THEN MCArguments ELSE MCArguments \ TooLarge]
MCBinds == [p \in MCPrograms |-> IF p = "app" THEN {"Trap", "User5"} ELSE {"Trap"}]
StartArguments == ArgumentsOf(First, "small", "unset")

VARIABLE embedded   \* run() owns the step loop, and not the driver

lifeVars == <<runVars, embedded>>

ByDriver(A) == ~embedded /\ A /\ UNCHANGED embedded
ByRun(A) == embedded /\ A /\ UNCHANGED <<driver, embedded>>

(* Only the driver looks at the control device's status. *)
LifeInit ==
    /\ RunnerInit
    /\ embedded \in BOOLEAN
    /\ embedded => exitStatus = FaultStatus

LifeNext == ByDriver(RunnerNext) \/ ByRun(Next)

(* Each owner keeps its loop going, and a call of requestReset() ends. *)
LifeSpec ==
    /\ LifeInit /\ [][LifeNext]_lifeVars
    /\ WF_lifeVars(ByDriver(Loop)) /\ WF_lifeVars(ByDriver(Slice))
    /\ WF_lifeVars(ByRun(StepLoop)) /\ WF_lifeVars(ByRun(HostCutPower))

=============================================================================
