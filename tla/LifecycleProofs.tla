-------------------------- MODULE LifecycleProofs --------------------------
(***************************************************************************)
(* What a machine runs is what was last accepted (AcceptedLoadRuns), on a  *)
(* machine a restart left clean, and a reset that no other crosses keeps   *)
(* run() going; and the driver's loop around it goes back to the shell as  *)
(* if the shell had called the program, and ends with the shell: for any   *)
(* programs, arguments, environments and statuses, and any number of       *)
(* calls from both threads, of loads, resets and ends.                     *)
(***************************************************************************)
EXTENDS MachineRunner, TLAPS

(***************************************************************************)
(* The machine: CeresVM.                                                   *)
(***************************************************************************)

(* The machine is off while it restarts: nobody but the step loop's thread  *)
(* switches it on, and that thread left its loop because it was off.        *)
OffPlaces == {"start", "exchange", "take", "load", "clear", "devices", "powerOn"}

(* The strengthening.  The image is the program's except between the two    *)
(* steps that take a pending load and place it; loadProgram cannot refuse   *)
(* there, since the machine is off and everything accepted fits.            *)
Pairs ==
    /\ chosen = IF pendingProgram = None THEN <<program, arguments>>
                ELSE <<pendingProgram, pendingArguments>>
    /\ arguments \in Fits[program]
    /\ pendingProgram # None => pendingArguments \in Fits[pendingProgram]
Placed == at # "load" => image.program = program /\ image.arguments = arguments
Off == at \in OffPlaces => on = FALSE
IInv == TypeOK /\ Pairs /\ Placed /\ Off

(* Every step keeps the signals and the thread's place in their types. *)
LEMMA SignalsStep ==
    ASSUME IInv, [Next]_vars PROVE SignalsOK'
<1>1. CASE Run
    BY <1>1 DEF IInv, Run, TypeOK, SignalsOK, Places, machine, history
<1>2. CASE Look
    BY <1>2 DEF IInv, Look, TypeOK, SignalsOK, Places, machine, history
<1>3. CASE Work
    BY <1>3 DEF IInv, Work, TypeOK, SignalsOK, Places, machine, history
<1>4. CASE ShutDown
    BY <1>4 DEF IInv, ShutDown, TypeOK, SignalsOK, Places, machine, history
<1>5. CASE AskReset
    BY <1>5 DEF IInv, AskReset, TypeOK, SignalsOK, Places, machine, history
<1>6. CASE CutPower
    BY <1>6 DEF IInv, CutPower, TypeOK, SignalsOK, Places, machine, history
<1>7. ASSUME NEW p \in Programs, NEW a \in Arguments, RequestLoad(p, a) PROVE SignalsOK'
    BY <1>7 DEF IInv, RequestLoad, TypeOK, SignalsOK, Places, machine, history
<1>8. CASE Exchange
    BY <1>8 DEF IInv, Exchange, TypeOK, SignalsOK, Places, machine, history
<1>9. CASE TakePending
    BY <1>9 DEF IInv, TakePending, TypeOK, SignalsOK, Places, machine, history
<1>10. CASE Load
    BY <1>10 DEF IInv, Load, TypeOK, SignalsOK, Places, machine, history
<1>11. CASE ClearInterrupts
    BY <1>11 DEF IInv, ClearInterrupts, TypeOK, SignalsOK, Places, machine, history
<1>12. CASE ResetDevices
    BY <1>12 DEF IInv, ResetDevices, TypeOK, SignalsOK, Places, machine, history
<1>13. CASE PowerOn
    BY <1>13 DEF IInv, PowerOn, TypeOK, SignalsOK, Places, machine, history
<1>14. CASE Restarted
    BY <1>14 DEF IInv, Restarted, TypeOK, SignalsOK, Places, machine, history
<1>15. CASE PowerOnAsItIs
    BY <1>15 DEF IInv, PowerOnAsItIs, TypeOK, SignalsOK, Places, machine, history
<1>16. CASE Return
    BY <1>16 DEF IInv, Return, TypeOK, SignalsOK, Places, machine, history
<1>17. CASE HostAskReset
    BY <1>17 DEF IInv, HostAskReset, TypeOK, SignalsOK, Places, machine, history
<1>18. CASE HostCutPower
    BY <1>18 DEF IInv, HostCutPower, TypeOK, SignalsOK, Places, machine, history
<1>19. CASE HostShutDown
    BY <1>19 DEF IInv, HostShutDown, TypeOK, SignalsOK, Places, machine, history
<1>20. CASE UNCHANGED vars
    BY <1>20 DEF IInv, vars, TypeOK, SignalsOK, Places, machine, history
<1>21. QED
    BY <1>1, <1>2, <1>3, <1>4, <1>5, <1>6, <1>7, <1>8, <1>9, <1>10, <1>11, <1>12, <1>13, <1>14, <1>15, <1>16, <1>17, <1>18, <1>19, <1>20 DEF Next, StepLoop, Restart, Host

(* Every call is counted under its bound. *)
LEMMA CountsStep ==
    ASSUME IInv, [Next]_vars PROVE CountsOK'
<1> USE ConstantsAssumption
<1>1. CASE Run
    BY <1>1, SMT DEF IInv, Run, TypeOK, CountsOK, machine, history
<1>2. CASE Look
    BY <1>2, SMT DEF IInv, Look, TypeOK, CountsOK, machine, history
<1>3. CASE Work
    BY <1>3, SMT DEF IInv, Work, TypeOK, CountsOK, machine, history
<1>4. CASE ShutDown
    BY <1>4, SMT DEF IInv, ShutDown, TypeOK, CountsOK, machine, history
<1>5. CASE AskReset
    BY <1>5, SMT DEF IInv, AskReset, TypeOK, CountsOK, machine, history
<1>6. CASE CutPower
    BY <1>6, SMT DEF IInv, CutPower, TypeOK, CountsOK, machine, history
<1>7. ASSUME NEW p \in Programs, NEW a \in Arguments, RequestLoad(p, a) PROVE CountsOK'
    BY <1>7, SMT DEF IInv, RequestLoad, TypeOK, CountsOK, machine, history
<1>8. CASE Exchange
    BY <1>8, SMT DEF IInv, Exchange, TypeOK, CountsOK, machine, history
<1>9. CASE TakePending
    BY <1>9, SMT DEF IInv, TakePending, TypeOK, CountsOK, machine, history
<1>10. CASE Load
    BY <1>10, SMT DEF IInv, Load, TypeOK, CountsOK, machine, history
<1>11. CASE ClearInterrupts
    BY <1>11, SMT DEF IInv, ClearInterrupts, TypeOK, CountsOK, machine, history
<1>12. CASE ResetDevices
    BY <1>12, SMT DEF IInv, ResetDevices, TypeOK, CountsOK, machine, history
<1>13. CASE PowerOn
    BY <1>13, SMT DEF IInv, PowerOn, TypeOK, CountsOK, machine, history
<1>14. CASE Restarted
    BY <1>14, SMT DEF IInv, Restarted, TypeOK, CountsOK, machine, history
<1>15. CASE PowerOnAsItIs
    BY <1>15, SMT DEF IInv, PowerOnAsItIs, TypeOK, CountsOK, machine, history
<1>16. CASE Return
    BY <1>16, SMT DEF IInv, Return, TypeOK, CountsOK, machine, history
<1>17. CASE HostAskReset
    BY <1>17, SMT DEF IInv, HostAskReset, TypeOK, CountsOK, machine, history
<1>18. CASE HostCutPower
    BY <1>18, SMT DEF IInv, HostCutPower, TypeOK, CountsOK, machine, history
<1>19. CASE HostShutDown
    BY <1>19, SMT DEF IInv, HostShutDown, TypeOK, CountsOK, machine, history
<1>20. CASE UNCHANGED vars
    BY <1>20, SMT DEF IInv, vars, TypeOK, CountsOK, machine, history
<1>21. QED
    BY <1>1, <1>2, <1>3, <1>4, <1>5, <1>6, <1>7, <1>8, <1>9, <1>10, <1>11, <1>12, <1>13, <1>14, <1>15, <1>16, <1>17, <1>18, <1>19, <1>20 DEF Next, StepLoop, Restart, Host

(* The machine's new values come from the constants, or were pending. *)
LEMMA MachineStep ==
    ASSUME IInv, [Next]_vars PROVE MachineOK'
<1> USE ConstantsAssumption
<1>1. CASE Run
    BY <1>1 DEF IInv, Run, TypeOK, MachineOK, Pairs, machine, history, Bound
<1>2. CASE Look
    BY <1>2 DEF IInv, Look, TypeOK, MachineOK, Pairs, machine, history, Bound
<1>3. CASE Work
    BY <1>3 DEF IInv, Work, TypeOK, MachineOK, Pairs, machine, history, Bound
<1>4. CASE ShutDown
    BY <1>4 DEF IInv, ShutDown, TypeOK, MachineOK, Pairs, machine, history, Bound
<1>5. CASE AskReset
    BY <1>5 DEF IInv, AskReset, TypeOK, MachineOK, Pairs, machine, history, Bound
<1>6. CASE CutPower
    BY <1>6 DEF IInv, CutPower, TypeOK, MachineOK, Pairs, machine, history, Bound
<1>7. ASSUME NEW p \in Programs, NEW a \in Arguments, RequestLoad(p, a) PROVE MachineOK'
    BY <1>7 DEF IInv, RequestLoad, TypeOK, MachineOK, Pairs, machine, history, Bound
<1>8. CASE Exchange
    BY <1>8 DEF IInv, Exchange, TypeOK, MachineOK, Pairs, machine, history, Bound
<1>9. CASE TakePending
    BY <1>9 DEF IInv, TakePending, TypeOK, MachineOK, Pairs, machine, history, Bound
<1>10. CASE Load
    <2>1. MachineOK /\ program' = program /\ arguments' = arguments
          /\ pendingProgram' = pendingProgram /\ pendingArguments' = pendingArguments
          /\ chosen' = chosen /\ pending' = pending /\ devicesFresh' = devicesFresh
        BY <1>10 DEF IInv, TypeOK, Load, history
    <2>2. image' \in [program : Programs, arguments : Arguments, asLoaded : BOOLEAN]
        <3>1. CASE image' = image
            BY <2>1, <3>1 DEF MachineOK
        <3>2. CASE image' = [program |-> program, arguments |-> arguments, asLoaded |-> TRUE]
            BY <2>1, <3>2 DEF MachineOK
        <3>3. QED
            BY <1>10, <3>1, <3>2 DEF Load
    <2>3. vectors \in [Vectors -> Programs \cup {None, Bios}] /\ program \in Programs
        BY <2>1 DEF MachineOK
    <2>4. Bound(program) \in [Vectors -> Programs \cup {None, Bios}]
        BY <2>3 DEF Bound
    <2>5. vectors' \in [Vectors -> Programs \cup {None, Bios}]
        BY <1>10, <2>3, <2>4 DEF Load
    <2>6. QED
        BY <2>1, <2>2, <2>5 DEF MachineOK
<1>11. CASE ClearInterrupts
    BY <1>11 DEF IInv, ClearInterrupts, TypeOK, MachineOK, Pairs, machine, history, Bound
<1>12. CASE ResetDevices
    BY <1>12 DEF IInv, ResetDevices, TypeOK, MachineOK, Pairs, machine, history, Bound
<1>13. CASE PowerOn
    BY <1>13 DEF IInv, PowerOn, TypeOK, MachineOK, Pairs, machine, history, Bound
<1>14. CASE Restarted
    BY <1>14 DEF IInv, Restarted, TypeOK, MachineOK, Pairs, machine, history, Bound
<1>15. CASE PowerOnAsItIs
    BY <1>15 DEF IInv, PowerOnAsItIs, TypeOK, MachineOK, Pairs, machine, history, Bound
<1>16. CASE Return
    BY <1>16 DEF IInv, Return, TypeOK, MachineOK, Pairs, machine, history, Bound
<1>17. CASE HostAskReset
    BY <1>17 DEF IInv, HostAskReset, TypeOK, MachineOK, Pairs, machine, history, Bound
<1>18. CASE HostCutPower
    BY <1>18 DEF IInv, HostCutPower, TypeOK, MachineOK, Pairs, machine, history, Bound
<1>19. CASE HostShutDown
    BY <1>19 DEF IInv, HostShutDown, TypeOK, MachineOK, Pairs, machine, history, Bound
<1>20. CASE UNCHANGED vars
    BY <1>20 DEF IInv, vars, TypeOK, MachineOK, Pairs, machine, history, Bound
<1>21. QED
    BY <1>1, <1>2, <1>3, <1>4, <1>5, <1>6, <1>7, <1>8, <1>9, <1>10, <1>11, <1>12, <1>13, <1>14, <1>15, <1>16, <1>17, <1>18, <1>19, <1>20 DEF Next, StepLoop, Restart, Host

(* Every step keeps the types. *)
LEMMA TypeStep ==
    ASSUME IInv, [Next]_vars PROVE TypeOK'
BY SignalsStep, CountsStep, MachineStep DEF TypeOK

(* A load replaces the pending pair, a restart moves it whole. *)
LEMMA PairsStep ==
    ASSUME IInv, [Next]_vars PROVE Pairs'
<1> USE ConstantsAssumption
<1>1. CASE Run
    BY <1>1, SMT DEF IInv, Run, TypeOK, MachineOK, Pairs, machine, history
<1>2. CASE Look
    BY <1>2, SMT DEF IInv, Look, TypeOK, MachineOK, Pairs, machine, history
<1>3. CASE Work
    BY <1>3, SMT DEF IInv, Work, TypeOK, MachineOK, Pairs, machine, history
<1>4. CASE ShutDown
    BY <1>4, SMT DEF IInv, ShutDown, TypeOK, MachineOK, Pairs, machine, history
<1>5. CASE AskReset
    BY <1>5, SMT DEF IInv, AskReset, TypeOK, MachineOK, Pairs, machine, history
<1>6. CASE CutPower
    BY <1>6, SMT DEF IInv, CutPower, TypeOK, MachineOK, Pairs, machine, history
<1>7. ASSUME NEW p \in Programs, NEW a \in Arguments, RequestLoad(p, a) PROVE Pairs'
    BY <1>7, SMT DEF IInv, RequestLoad, TypeOK, MachineOK, Pairs, machine, history
<1>8. CASE Exchange
    BY <1>8, SMT DEF IInv, Exchange, TypeOK, MachineOK, Pairs, machine, history
<1>9. CASE TakePending
    BY <1>9, SMT DEF IInv, TakePending, TypeOK, MachineOK, Pairs, machine, history
<1>10. CASE Load
    BY <1>10, SMT DEF IInv, Load, TypeOK, MachineOK, Pairs, machine, history
<1>11. CASE ClearInterrupts
    BY <1>11, SMT DEF IInv, ClearInterrupts, TypeOK, MachineOK, Pairs, machine, history
<1>12. CASE ResetDevices
    BY <1>12, SMT DEF IInv, ResetDevices, TypeOK, MachineOK, Pairs, machine, history
<1>13. CASE PowerOn
    BY <1>13, SMT DEF IInv, PowerOn, TypeOK, MachineOK, Pairs, machine, history
<1>14. CASE Restarted
    BY <1>14, SMT DEF IInv, Restarted, TypeOK, MachineOK, Pairs, machine, history
<1>15. CASE PowerOnAsItIs
    BY <1>15, SMT DEF IInv, PowerOnAsItIs, TypeOK, MachineOK, Pairs, machine, history
<1>16. CASE Return
    BY <1>16, SMT DEF IInv, Return, TypeOK, MachineOK, Pairs, machine, history
<1>17. CASE HostAskReset
    BY <1>17, SMT DEF IInv, HostAskReset, TypeOK, MachineOK, Pairs, machine, history
<1>18. CASE HostCutPower
    BY <1>18, SMT DEF IInv, HostCutPower, TypeOK, MachineOK, Pairs, machine, history
<1>19. CASE HostShutDown
    BY <1>19, SMT DEF IInv, HostShutDown, TypeOK, MachineOK, Pairs, machine, history
<1>20. CASE UNCHANGED vars
    BY <1>20, SMT DEF IInv, vars, TypeOK, MachineOK, Pairs, machine, history
<1>21. QED
    BY <1>1, <1>2, <1>3, <1>4, <1>5, <1>6, <1>7, <1>8, <1>9, <1>10, <1>11, <1>12, <1>13, <1>14, <1>15, <1>16, <1>17, <1>18, <1>19, <1>20 DEF Next, StepLoop, Restart, Host

(* Only loadProgram places an image, and it places the machine's pair. *)
LEMMA PlacedStep ==
    ASSUME IInv, [Next]_vars PROVE Placed'
<1> USE ConstantsAssumption
<1>1. CASE Run
    BY <1>1, SMT DEF IInv, Run, TypeOK, SignalsOK, MachineOK, Pairs, Placed, Off, OffPlaces, machine, history
<1>2. CASE Look
    BY <1>2, SMT DEF IInv, Look, TypeOK, SignalsOK, MachineOK, Pairs, Placed, Off, OffPlaces, machine, history
<1>3. CASE Work
    BY <1>3, SMT DEF IInv, Work, TypeOK, SignalsOK, MachineOK, Pairs, Placed, Off, OffPlaces, machine, history
<1>4. CASE ShutDown
    BY <1>4, SMT DEF IInv, ShutDown, TypeOK, SignalsOK, MachineOK, Pairs, Placed, Off, OffPlaces, machine, history
<1>5. CASE AskReset
    BY <1>5, SMT DEF IInv, AskReset, TypeOK, SignalsOK, MachineOK, Pairs, Placed, Off, OffPlaces, machine, history
<1>6. CASE CutPower
    BY <1>6, SMT DEF IInv, CutPower, TypeOK, SignalsOK, MachineOK, Pairs, Placed, Off, OffPlaces, machine, history
<1>7. ASSUME NEW p \in Programs, NEW a \in Arguments, RequestLoad(p, a) PROVE Placed'
    BY <1>7, SMT DEF IInv, RequestLoad, TypeOK, SignalsOK, MachineOK, Pairs, Placed, Off, OffPlaces, machine, history
<1>8. CASE Exchange
    BY <1>8, SMT DEF IInv, Exchange, TypeOK, SignalsOK, MachineOK, Pairs, Placed, Off, OffPlaces, machine, history
<1>9. CASE TakePending
    BY <1>9, SMT DEF IInv, TakePending, TypeOK, SignalsOK, MachineOK, Pairs, Placed, Off, OffPlaces, machine, history
<1>10. CASE Load
    BY <1>10, SMT DEF IInv, Load, TypeOK, SignalsOK, MachineOK, Pairs, Placed, Off, OffPlaces, machine, history
<1>11. CASE ClearInterrupts
    BY <1>11, SMT DEF IInv, ClearInterrupts, TypeOK, SignalsOK, MachineOK, Pairs, Placed, Off, OffPlaces, machine, history
<1>12. CASE ResetDevices
    BY <1>12, SMT DEF IInv, ResetDevices, TypeOK, SignalsOK, MachineOK, Pairs, Placed, Off, OffPlaces, machine, history
<1>13. CASE PowerOn
    BY <1>13, SMT DEF IInv, PowerOn, TypeOK, SignalsOK, MachineOK, Pairs, Placed, Off, OffPlaces, machine, history
<1>14. CASE Restarted
    BY <1>14, SMT DEF IInv, Restarted, TypeOK, SignalsOK, MachineOK, Pairs, Placed, Off, OffPlaces, machine, history
<1>15. CASE PowerOnAsItIs
    BY <1>15, SMT DEF IInv, PowerOnAsItIs, TypeOK, SignalsOK, MachineOK, Pairs, Placed, Off, OffPlaces, machine, history
<1>16. CASE Return
    BY <1>16, SMT DEF IInv, Return, TypeOK, SignalsOK, MachineOK, Pairs, Placed, Off, OffPlaces, machine, history
<1>17. CASE HostAskReset
    BY <1>17, SMT DEF IInv, HostAskReset, TypeOK, SignalsOK, MachineOK, Pairs, Placed, Off, OffPlaces, machine, history
<1>18. CASE HostCutPower
    BY <1>18, SMT DEF IInv, HostCutPower, TypeOK, SignalsOK, MachineOK, Pairs, Placed, Off, OffPlaces, machine, history
<1>19. CASE HostShutDown
    BY <1>19, SMT DEF IInv, HostShutDown, TypeOK, SignalsOK, MachineOK, Pairs, Placed, Off, OffPlaces, machine, history
<1>20. CASE UNCHANGED vars
    BY <1>20, SMT DEF IInv, vars, TypeOK, SignalsOK, MachineOK, Pairs, Placed, Off, OffPlaces, machine, history
<1>21. QED
    BY <1>1, <1>2, <1>3, <1>4, <1>5, <1>6, <1>7, <1>8, <1>9, <1>10, <1>11, <1>12, <1>13, <1>14, <1>15, <1>16, <1>17, <1>18, <1>19, <1>20 DEF Next, StepLoop, Restart, Host

(* Only the step loop's thread switches the machine on, outside OffPlaces. *)
LEMMA OffStep ==
    ASSUME IInv, [Next]_vars PROVE Off'
<1> USE ConstantsAssumption
<1>1. CASE Run
    BY <1>1, SMT DEF IInv, Run, TypeOK, SignalsOK, Off, OffPlaces, machine, history
<1>2. CASE Look
    BY <1>2, SMT DEF IInv, Look, TypeOK, SignalsOK, Off, OffPlaces, machine, history
<1>3. CASE Work
    BY <1>3, SMT DEF IInv, Work, TypeOK, SignalsOK, Off, OffPlaces, machine, history
<1>4. CASE ShutDown
    BY <1>4, SMT DEF IInv, ShutDown, TypeOK, SignalsOK, Off, OffPlaces, machine, history
<1>5. CASE AskReset
    BY <1>5, SMT DEF IInv, AskReset, TypeOK, SignalsOK, Off, OffPlaces, machine, history
<1>6. CASE CutPower
    BY <1>6, SMT DEF IInv, CutPower, TypeOK, SignalsOK, Off, OffPlaces, machine, history
<1>7. ASSUME NEW p \in Programs, NEW a \in Arguments, RequestLoad(p, a) PROVE Off'
    BY <1>7, SMT DEF IInv, RequestLoad, TypeOK, SignalsOK, Off, OffPlaces, machine, history
<1>8. CASE Exchange
    BY <1>8, SMT DEF IInv, Exchange, TypeOK, SignalsOK, Off, OffPlaces, machine, history
<1>9. CASE TakePending
    BY <1>9, SMT DEF IInv, TakePending, TypeOK, SignalsOK, Off, OffPlaces, machine, history
<1>10. CASE Load
    BY <1>10, SMT DEF IInv, Load, TypeOK, SignalsOK, Off, OffPlaces, machine, history
<1>11. CASE ClearInterrupts
    BY <1>11, SMT DEF IInv, ClearInterrupts, TypeOK, SignalsOK, Off, OffPlaces, machine, history
<1>12. CASE ResetDevices
    BY <1>12, SMT DEF IInv, ResetDevices, TypeOK, SignalsOK, Off, OffPlaces, machine, history
<1>13. CASE PowerOn
    BY <1>13, SMT DEF IInv, PowerOn, TypeOK, SignalsOK, Off, OffPlaces, machine, history
<1>14. CASE Restarted
    BY <1>14, SMT DEF IInv, Restarted, TypeOK, SignalsOK, Off, OffPlaces, machine, history
<1>15. CASE PowerOnAsItIs
    BY <1>15, SMT DEF IInv, PowerOnAsItIs, TypeOK, SignalsOK, Off, OffPlaces, machine, history
<1>16. CASE Return
    BY <1>16, SMT DEF IInv, Return, TypeOK, SignalsOK, Off, OffPlaces, machine, history
<1>17. CASE HostAskReset
    BY <1>17, SMT DEF IInv, HostAskReset, TypeOK, SignalsOK, Off, OffPlaces, machine, history
<1>18. CASE HostCutPower
    BY <1>18, SMT DEF IInv, HostCutPower, TypeOK, SignalsOK, Off, OffPlaces, machine, history
<1>19. CASE HostShutDown
    BY <1>19, SMT DEF IInv, HostShutDown, TypeOK, SignalsOK, Off, OffPlaces, machine, history
<1>20. CASE UNCHANGED vars
    BY <1>20, SMT DEF IInv, vars, TypeOK, SignalsOK, Off, OffPlaces, machine, history
<1>21. QED
    BY <1>1, <1>2, <1>3, <1>4, <1>5, <1>6, <1>7, <1>8, <1>9, <1>10, <1>11, <1>12, <1>13, <1>14, <1>15, <1>16, <1>17, <1>18, <1>19, <1>20 DEF Next, StepLoop, Restart, Host

(* The first state: the first program is placed, and the machine is off. *)
LEMMA InitHolds == Init => IInv
<1> SUFFICES ASSUME Init PROVE IInv
    OBVIOUS
<1>1. TypeOK
    <2>1. SignalsOK
        BY DEF Init, SignalsOK, Places
    <2>2. CountsOK
        BY ConstantsAssumption, SMT DEF Init, CountsOK
    <2>3. First \in Programs /\ FirstArguments \in Arguments
        BY ConstantsAssumption
    <2>4. image \in [program : Programs, arguments : Arguments, asLoaded : BOOLEAN]
        BY <2>3 DEF Init
    <2>5. vectors \in [Vectors -> Programs \cup {None, Bios}]
        BY <2>3 DEF Init
    <2>6. pending \in BOOLEAN /\ devicesFresh \in BOOLEAN
        BY DEF Init
    <2>7. MachineOK
        BY <2>3, <2>4, <2>5, <2>6 DEF Init, MachineOK
    <2>8. QED
        BY <2>7, <2>1, <2>2 DEF TypeOK
<1>2. Pairs /\ Placed /\ Off
    BY ConstantsAssumption, SMT DEF Init, Pairs, Placed, Off
<1>3. QED
    BY <1>1, <1>2 DEF IInv

(* The strengthened invariant is inductive, and the machine keeps it. *)
THEOREM InductiveInvariant == Spec => []IInv
<1>1. Init => IInv
    BY InitHolds
<1>2. IInv /\ [Next]_vars => IInv'
    BY TypeStep, PairsStep, PlacedStep, OffStep DEF IInv
<1>3. QED
    BY <1>1, <1>2, PTL DEF Spec

(* Every variable of the machine and its run keeps its type, whatever calls *)
(* of requestReset(), requestLoad() and shutdown() come.                    *)
THEOREM TypeCorrect == Spec => []TypeOK
<1>1. IInv => TypeOK
    BY DEF IInv
<1>2. QED
    BY <1>1, InductiveInvariant, PTL

(* What runs is what was last accepted, its program with its own arguments. *)
THEOREM LoadsArrive == Spec => []AcceptedLoadRuns
<1>1. IInv => AcceptedLoadRuns
    BY DEF IInv, Pairs, Placed, AcceptedLoadRuns
<1>2. QED
    BY <1>1, InductiveInvariant, PTL

-----------------------------------------------------------------------------
(* What a restart has done by each of its steps: loadProgram places the     *)
(* image and the vectors, then the interrupts are cleared, then the devices *)
(* are reset, and nothing runs in between.                                  *)
Cleaned ==
    /\ at \in {"clear", "devices", "powerOn", "restarted"} =>
          /\ image.asLoaded
          /\ \A v \in Vectors : v \in Binds[program] => vectors[v] = program
          /\ \A v \in Vectors : v \in DefaultVectors \ Binds[program] => vectors[v] = Bios
    /\ at \in {"devices", "powerOn", "restarted"} => ~pending
    /\ at \in {"powerOn", "restarted"} => devicesFresh

(* The vectors loadProgram leaves behind. *)
LEMMA BoundVectors ==
    ASSUME NEW p \in Programs, NEW v \in Vectors
    PROVE  /\ v \in Binds[p] => Bound(p)[v] = p
           /\ v \in DefaultVectors \ Binds[p] => Bound(p)[v] = Bios
BY DEF Bound

LEMMA CleanedStep ==
    ASSUME IInv, Cleaned, [Next]_vars PROVE Cleaned'
<1>1. CASE Run \/ Look \/ ShutDown \/ AskReset \/ CutPower \/ Exchange
    BY <1>1 DEF Run, Look, ShutDown, AskReset, CutPower, Exchange, Cleaned
<1>2. CASE Work \/ TakePending \/ Restarted \/ PowerOnAsItIs \/ Return
    BY <1>2 DEF Work, TakePending, Restarted, PowerOnAsItIs, Return, Cleaned
<1>3. ASSUME NEW p \in Programs, NEW a \in Arguments, RequestLoad(p, a) PROVE Cleaned'
    BY <1>3 DEF RequestLoad, Cleaned
<1>4. CASE Load
    <2>1. CASE at' = "refused"
        BY <2>1 DEF Cleaned
    <2>2. CASE at' # "refused"
        <3>1. /\ image' = [program |-> program, arguments |-> arguments, asLoaded |-> TRUE]
              /\ vectors' = Bound(program) /\ program' = program /\ at' = "clear"
            BY <1>4, <2>2 DEF Load
        <3>2. program \in Programs
            BY DEF IInv, TypeOK, MachineOK
        <3>3. /\ \A v \in Vectors : v \in Binds[program] => vectors'[v] = program
              /\ \A v \in Vectors : v \in DefaultVectors \ Binds[program] => vectors'[v] = Bios
            BY <3>1, <3>2, BoundVectors
        <3>4. QED
            BY <3>1, <3>3 DEF Cleaned
    <2>3. QED
        BY <2>1, <2>2
<1>5. CASE ClearInterrupts \/ ResetDevices \/ PowerOn
    BY <1>5 DEF ClearInterrupts, ResetDevices, PowerOn, machine, Cleaned
<1>6. CASE Host
    BY <1>6 DEF Host, HostAskReset, HostCutPower, HostShutDown, machine, Cleaned
<1>7. CASE UNCHANGED vars
    BY <1>7 DEF vars, machine, Cleaned
<1>8. QED
    BY <1>1, <1>2, <1>3, <1>4, <1>5, <1>6, <1>7 DEF Next, StepLoop, Restart

(* Resets that nothing else interferes with.  Before run() has started      *)
(* nobody can ask; with nobody asking the machine runs; and from the request *)
(* on either the request is still there or the machine is on again, and the *)
(* other thread cuts the power only while the step loop is stepping.        *)
Quiet == shutdowns = 0 /\ ~Crossed
Unstarted ==
    ~started => /\ on = FALSE /\ resetRequested = FALSE /\ cutting = FALSE
                /\ asks = 0 /\ hostAsks = 0 /\ shutdowns = 0
                /\ at \in {"start", "exchange", "refused"}
Unasked ==
    /\ hostAsks = 0 => cutting = FALSE
    /\ started /\ asks = 0 /\ hostAsks = 0 /\ shutdowns = 0 => on /\ at \in {"looking", "stepping"}
Asked ==
    started /\ Quiet =>
        /\ at \notin {"start", "refused", "returned"}
        /\ at \in {"looking", "stepping", "restarted"} => on \/ resetRequested
        /\ at \in {"cutting", "exchange"} => resetRequested
        /\ cutting => on /\ resetRequested /\ at \in {"looking", "stepping"}

LEMMA UnstartedStep ==
    ASSUME IInv, Unstarted, [Next]_vars PROVE Unstarted'
<1>1. CASE Run \/ Look \/ Work \/ ShutDown \/ AskReset \/ CutPower
    BY <1>1 DEF Run, Look, Work, ShutDown, AskReset, CutPower, history, Unstarted
<1>2. ASSUME NEW p \in Programs, NEW a \in Arguments, RequestLoad(p, a) PROVE Unstarted'
    BY <1>2 DEF RequestLoad, Unstarted
<1>3. CASE Restart
    BY <1>3 DEF Restart, Exchange, TakePending, Load, ClearInterrupts, ResetDevices, PowerOn, history, Unstarted
<1>4. CASE Restarted \/ PowerOnAsItIs \/ Return
    BY <1>4 DEF Restarted, PowerOnAsItIs, Return, Unstarted
<1>5. CASE Host
    BY <1>5 DEF Host, HostAskReset, HostCutPower, HostShutDown, Unstarted
<1>6. CASE UNCHANGED vars
    BY <1>6 DEF vars, history, Unstarted
<1>7. QED
    BY <1>1, <1>2, <1>3, <1>4, <1>5, <1>6 DEF Next, StepLoop

LEMMA UnaskedStep ==
    ASSUME IInv, Unstarted, Unasked, [Next]_vars PROVE Unasked'
<1>0. asks \in Nat /\ hostAsks \in Nat /\ shutdowns \in Nat
    BY ConstantsAssumption DEF IInv, TypeOK, CountsOK
<1>1. CASE Run \/ Work \/ CutPower
    BY <1>1 DEF Run, Work, CutPower, history, Unasked
<1>9. CASE Look
    BY <1>9 DEF Look, Unasked
<1>2. CASE ShutDown \/ AskReset
    BY <1>0, <1>2 DEF ShutDown, AskReset, Unasked
<1>8. ASSUME NEW p \in Programs, NEW a \in Arguments, RequestLoad(p, a) PROVE Unasked'
    BY <1>0, <1>8 DEF RequestLoad, Unasked
<1>3. CASE Restart
    BY <1>3 DEF Restart, Exchange, TakePending, Load, ClearInterrupts, ResetDevices, PowerOn, history,
                Unstarted, Unasked
<1>4. CASE Restarted \/ PowerOnAsItIs \/ Return
    BY <1>4 DEF Restarted, PowerOnAsItIs, Return, history, Unstarted, Unasked
<1>5. CASE Host
    BY <1>0, <1>5 DEF Host, HostAskReset, HostCutPower, HostShutDown, history, Unasked
<1>6. CASE UNCHANGED vars
    BY <1>6 DEF vars, history, Unasked
<1>7. QED
    BY <1>1, <1>2, <1>3, <1>4, <1>5, <1>6, <1>8, <1>9 DEF Next, StepLoop

(* loadProgram is never refused in the middle of a restart. *)
LEMMA LoadPlaces ==
    ASSUME IInv, Load PROVE at' = "clear"
BY DEF IInv, Pairs, Off, OffPlaces, Load

LEMMA AskedStep ==
    ASSUME IInv, Unstarted, Unasked, Asked, [Next]_vars PROVE Asked'
<1>0. asks \in Nat /\ hostAsks \in Nat /\ shutdowns \in Nat
    BY ConstantsAssumption DEF IInv, TypeOK, CountsOK
<1>1. CASE Run \/ Look \/ Work \/ CutPower
    BY <1>1 DEF Run, Look, Work, CutPower, history, Unstarted, Asked, Quiet, Crossed
<1>2. CASE ShutDown
    BY <1>0, <1>2 DEF ShutDown, Asked, Quiet
<1>3. CASE AskReset
    BY <1>0, <1>3 DEF AskReset, Unasked, Asked, Quiet, Crossed
<1>4. ASSUME NEW p \in Programs, NEW a \in Arguments, RequestLoad(p, a) PROVE Asked'
    BY <1>0, <1>4 DEF RequestLoad, Unasked, Asked, Quiet, Crossed
<1>5. CASE Load
    BY <1>5, LoadPlaces DEF Load, history, Unstarted, Asked, Quiet, Crossed
<1>6. CASE Exchange \/ TakePending \/ ClearInterrupts \/ ResetDevices \/ PowerOn
    BY <1>6 DEF Exchange, TakePending, ClearInterrupts, ResetDevices, PowerOn, history, Unstarted, Asked, Quiet, Crossed
<1>7. CASE Restarted \/ PowerOnAsItIs \/ Return
    BY <1>7 DEF Restarted, PowerOnAsItIs, Return, history, Unstarted, Asked, Quiet, Crossed
<1>8. CASE HostAskReset
    BY <1>0, <1>8 DEF HostAskReset, Unasked, Asked, Quiet, Crossed
<1>9. CASE HostCutPower
    BY <1>9 DEF HostCutPower, history, Asked, Quiet, Crossed
<1>10. CASE HostShutDown
    BY <1>0, <1>10 DEF HostShutDown, Asked, Quiet
<1>11. CASE UNCHANGED vars
    BY <1>11 DEF vars, history, Asked, Quiet, Crossed
<1>12. QED
    BY <1>1, <1>2, <1>3, <1>4, <1>5, <1>6, <1>7, <1>8, <1>9, <1>10, <1>11 DEF Next, StepLoop, Restart, Host

(* The second strengthening is inductive on top of the first. *)
Orderly == Cleaned /\ Unstarted /\ Unasked /\ Asked

LEMMA OrderlyRestarts == Spec => []Orderly
<1>1. Init => Orderly
    BY DEF Init, Orderly, Cleaned, Unstarted, Unasked, Asked
<1>2. IInv /\ Orderly /\ [Next]_vars => Orderly'
    BY CleanedStep, UnstartedStep, UnaskedStep, AskedStep DEF Orderly
<1>3. QED
    BY <1>1, <1>2, InductiveInvariant, PTL DEF Spec

(* Whatever the two threads ask for and in whatever order their accesses of *)
(* the two atomics fall: what was asked for last is what starts, with its   *)
(* own arguments, on a machine with nothing left of the run before it; and  *)
(* run() does not return for a reset that no other reset crosses.           *)
THEOREM RestartsAreSound == Spec => []RestartIsSound
<1>1. IInv => AcceptedLoadRuns
    BY DEF IInv, Pairs, Placed, AcceptedLoadRuns
<1>2. IInv /\ Orderly => RestartIsClean
    <2>1. SUFFICES ASSUME IInv, Orderly, at = "restarted" PROVE RestartIsClean
        BY DEF RestartIsClean
    <2>2. program \in Programs
        BY <2>1 DEF IInv, TypeOK, MachineOK
    <2>3. Binds[program] \subseteq Vectors /\ DefaultVectors \subseteq Vectors
        BY <2>2, ConstantsAssumption
    <2>4. QED
        BY <2>1, <2>3 DEF Orderly, Cleaned, RestartIsClean
<1>3. IInv /\ Orderly => LoneResetKeepsRunning
    <2>1. SUFFICES ASSUME IInv, Orderly, at = "returned", Quiet PROVE FALSE
        <3>1. ASSUME IInv PROVE shutdowns \in Nat
            BY <3>1, ConstantsAssumption DEF IInv, TypeOK, CountsOK
        <3>2. QED
            BY <3>1 DEF LoneResetKeepsRunning, Quiet
    <2>2. CASE started
        BY <2>1, <2>2 DEF Orderly, Asked
    <2>3. CASE ~started
        BY <2>1, <2>3 DEF Orderly, Unstarted
    <2>4. QED
        BY <2>2, <2>3
<1>4. QED
    BY <1>1, <1>2, <1>3, InductiveInvariant, OrderlyRestarts, PTL DEF RestartIsSound

(***************************************************************************)
(* The driver's loop around it: MachineRunner.                             *)
(***************************************************************************)

(* The strengthening.  What the machine holds and is about to hold fits it. *)
Holds ==
    /\ program \in Programs /\ arguments \in Arguments
    /\ pendingProgram \in Programs \cup {None}
    /\ pendingArguments \in Arguments \cup {NoArguments}
    /\ image \in [program : Programs, arguments : Arguments, asLoaded : BOOLEAN]

(* One thread, so that the place in the loop tells whether the power is on  *)
(* and whether a reset is still to be carried out.                          *)
Powered ==
    /\ at \in {"start", "exchange", "take", "load", "clear", "devices", "powerOn", "refused"} => on = FALSE
    /\ at \in {"pump", "stepping", "cutting", "restarted"} => on = TRUE
    /\ at = "cutting" => resetRequested = TRUE
    /\ at \in {"start", "pump", "stepping", "take", "load", "clear", "devices", "powerOn", "restarted", "refused"} =>
          resetRequested = FALSE
    /\ (at \in {"looking", "top"} /\ on = TRUE) => resetRequested = FALSE
    /\ at # "returned"
Waits == pendingProgram # None => resetRequested = TRUE \/ at = "take"

(* Who is said to run is who runs, or is about to.                          *)
KnowsShell == runningShell = TRUE <=> Shell = (IF pendingProgram = None THEN program ELSE pendingProgram)

(* A program that ended, with what it left still in its place; one that     *)
(* asked for a reset or a load, before the loop looks at it; and the        *)
(* restart that follows, with the session it is to give back.               *)
Looked == at \in {"looking", "top"} /\ on = FALSE
HasEnded == (resetRequested = FALSE /\ (Looked \/ at = "exchange")) \/ at = "refused"
HasAsked == (Looked /\ resetRequested = TRUE) \/ at = "cutting"
Taking == (at = "exchange" /\ resetRequested = TRUE) \/ at = "take"
Restarts == at \in {"load", "clear", "devices", "powerOn", "restarted"}

Reported(l) == [l.terminal EXCEPT !.screen = IF l.faulted THEN Fault ELSE l.terminal.screen]

AfterEnd ==
    HasEnded => /\ why = "end"
                /\ last = [program |-> program, env |-> arguments.env, status |-> exitStatus,
                           terminal |-> terminal, faulted |-> faulted]
AfterAsk ==
    HasAsked => /\ why \in {"reset", "load"}
                /\ (why = "load") <=> (pendingProgram # None)
                /\ terminal = last.terminal /\ last.faulted = FALSE
KeepsSession ==
    Taking \/ Restarts =>
        /\ why \in {"reset", "load", "end"}
        /\ session = IF why = "reset" THEN NoSession ELSE Reported(last)
GoesToShell ==
    why = "end" =>
        /\ Taking => /\ pendingProgram = Shell /\ Shell # None /\ last.program # Shell
                     /\ pendingArguments = ArgumentsOf(Shell, last.env, last.status)
        /\ Restarts => /\ program = Shell /\ last.program # Shell
                       /\ arguments = ArgumentsOf(Shell, last.env, last.status)
NotFaulted ==
    faulted = TRUE => /\ why = "end"
                      /\ HasEnded \/ Taking \/ at \in {"load", "ended"}
Wiped == at \in {"powerOn", "restarted"} => terminal = Blank
Fresh == resumed = TRUE => at \in {"pump", "ended"}

RInv ==
    /\ Holds /\ RunnerTypeOK /\ Pairs /\ Placed
    /\ Powered /\ Waits /\ KnowsShell
    /\ AfterEnd /\ AfterAsk /\ KeepsSession /\ GoesToShell
    /\ NotFaulted /\ Wiped /\ Fresh
    /\ ShellIsTold /\ TerminalCarriedOver /\ RunEndsWithShell

(* What a program that ended left, and whether anyone is to come after it. *)
LEMMA Ended ==
    ASSUME RInv, at = "refused"
    PROVE  /\ why = "end" /\ pendingProgram = None
           /\ last.program = program /\ last.env = arguments.env /\ last.status = exitStatus
           /\ last.terminal = terminal /\ last.faulted = faulted
           /\ Over <=> Shell = None \/ Shell = program
<1>1. pendingProgram = None
    BY DEF RInv, Powered, Waits
<1>2. runningShell = TRUE <=> Shell = program
    BY <1>1 DEF RInv, KnowsShell
<1>3. Over <=> Shell = None \/ Shell = program
    BY <1>2 DEF RInv, RunnerTypeOK, Over
<1> QED
    BY <1>1, <1>3 DEF RInv, AfterEnd, HasEnded

(* loadProgram() does not refuse: the machine is off and the pair fits.     *)
LEMMA LoadIsTaken ==
    ASSUME RInv, Load
    PROVE  at' = "clear" /\ image' = [program |-> program, arguments |-> arguments, asLoaded |-> TRUE]
BY DEF RInv, Powered, Pairs, Load

(* The session a program leaves is a terminal's. *)
LEMMA ReportedFields ==
    ASSUME RunnerTypeOK
    PROVE  /\ last.terminal \in Terminals /\ last.faulted \in BOOLEAN
           /\ Reported(last) \in Terminals
           /\ Reported(last).screen = IF last.faulted THEN Fault ELSE last.terminal.screen
           /\ Reported(last).history = last.terminal.history
           /\ Reported(last).plain = last.terminal.plain
<1>1. last.terminal \in Terminals /\ last.faulted \in BOOLEAN
    BY DEF RunnerTypeOK
<1>2. (IF last.faulted THEN Fault ELSE last.terminal.screen) \in Programs \cup {None, Fault}
    BY <1>1 DEF Terminals
<1> QED
    BY <1>1, <1>2 DEF Terminals, Reported

(* Giving a session back keeps the terminal a terminal. *)
LEMMA RestoredFields ==
    ASSUME NEW t \in Terminals, NEW s \in Terminals
    PROVE  /\ Restored(t, s) \in Terminals
           /\ Restored(t, s).plain = t.plain
           /\ Restored(t, s).history = s.history
           /\ Restored(t, s).screen = IF s.plain = t.plain THEN s.screen ELSE t.screen
BY DEF Terminals, Restored

(* Every step keeps what the machine holds and is about to hold in its type. *)
LEMMA HoldsStep ==
    ASSUME RInv, [RunnerNext]_runVars PROVE Holds'
<1>1. CASE Begin \/ Pump \/ Quit
    BY <1>1, ConstantsAssumption, RunnerAssumption DEF RInv, Holds, Begin, Pump, Quit, machine, history, driver
<1>2. CASE Top
    BY <1>2, ConstantsAssumption, RunnerAssumption DEF RInv, Holds, Top, machine, history, driver
<1>3. CASE Resume
    BY <1>3, ConstantsAssumption, RunnerAssumption DEF RInv, Holds, Resume, machine, history, driver
<1>4. CASE EndRun
    BY <1>4, ConstantsAssumption, RunnerAssumption DEF RInv, Holds, EndRun, machine, history, driver
<1>5. CASE GoBack
    BY <1>5, ConstantsAssumption, RunnerAssumption DEF RInv, Holds, GoBack, Over, ShellArguments, machine, history, driver
<1>6. CASE RestartStep /\ Exchange
    BY <1>6, ConstantsAssumption, RunnerAssumption DEF RInv, Holds, RestartStep, Exchange, machine, history, driver
<1>7. CASE RestartStep /\ TakePending
    <2>1. /\ UNCHANGED image
          /\ \/ /\ pendingProgram # None /\ program' = pendingProgram /\ arguments' = pendingArguments
                /\ pendingProgram' = None /\ pendingArguments' = NoArguments
             \/ UNCHANGED <<program, arguments, pendingProgram, pendingArguments>>
        BY <1>7 DEF RestartStep, TakePending
    <2>2. pendingProgram # None => pendingProgram \in Programs /\ pendingArguments \in Arguments
        BY ConstantsAssumption DEF RInv, Holds, Pairs
    <2> QED
        BY <2>1, <2>2 DEF RInv, Holds
<1>8. CASE RestartStep /\ Load
    <2>1. UNCHANGED <<program, arguments, pendingProgram, pendingArguments>>
        BY <1>8 DEF RestartStep, Load
    <2>2. image' = [program |-> program, arguments |-> arguments, asLoaded |-> TRUE]
        BY <1>8, LoadIsTaken
    <2> QED
        BY <2>1, <2>2 DEF RInv, Holds
<1>9. CASE RestartStep /\ (ClearInterrupts \/ ResetDevices \/ PowerOn)
    BY <1>9, ConstantsAssumption, RunnerAssumption DEF RInv, Holds, RestartStep, ClearInterrupts, ResetDevices, PowerOn, machine, history, driver
<1>10. CASE NextStep \/ SliceEnds \/ Cut
    BY <1>10, ConstantsAssumption, RunnerAssumption DEF RInv, Holds, NextStep, SliceEnds, Cut, CutPower, machine, history, driver
<1>11. CASE Reset
    BY <1>11, ConstantsAssumption, RunnerAssumption DEF RInv, Holds, Reset, AskReset, Remember, machine, history, driver
<1>12. CASE Unhandled
    BY <1>12, ConstantsAssumption, RunnerAssumption DEF RInv, Holds, Unhandled, ShutDown, Remember, machine, history, driver
<1>13. ASSUME NEW s \in Statuses, Exit(s) PROVE Holds'
    BY <1>13, ConstantsAssumption, RunnerAssumption DEF RInv, Holds, Exit, ShutDown, Remember, machine, history, driver
<1>14. ASSUME NEW t \in Terminals, Terminal(t) PROVE Holds'
    BY <1>14, ConstantsAssumption, RunnerAssumption DEF RInv, Holds, Terminal, Work, machine, history, driver
<1>15. ASSUME NEW p \in Programs, NEW e \in Environments \cup {Unset}, LoadAndRun(p, e) PROVE Holds'
    BY <1>15, ConstantsAssumption, RunnerAssumption DEF RInv, Holds, LoadAndRun, RequestLoad, Remember, machine, history, driver
<1>16. CASE UNCHANGED runVars
    BY <1>16, ConstantsAssumption, RunnerAssumption DEF RInv, Holds, runVars, vars, machine, history, driver
<1> QED
    BY <1>1, <1>2, <1>3, <1>4, <1>5, <1>6, <1>7, <1>8, <1>9, <1>10, <1>11, <1>12, <1>13, <1>14, <1>15, <1>16 DEF RunnerNext, Loop, Slice, RestartStep, Restart

(* Every step keeps the driver's variables in their types. *)
LEMMA RunnerTypeStep ==
    ASSUME RInv, [RunnerNext]_runVars PROVE RunnerTypeOK'
<1>1. CASE Begin \/ Pump \/ Quit
    BY <1>1, RunnerAssumption DEF RInv, Holds, RunnerTypeOK, RunnerPlaces, Places, Reasons, Begin, Pump, Quit, machine, history, driver
<1>2. CASE Top
    <2>1. session' = (IF on = FALSE /\ pendingProgram # None THEN terminal ELSE NoSession)
        BY <1>2 DEF RInv, RunnerTypeOK, Top
    <2> QED
        BY <1>2, <2>1 DEF RInv, RunnerTypeOK, RunnerPlaces, Places, Top, machine, history
<1>3. CASE Resume
    <2>1. CASE session = NoSession
        BY <1>3, <2>1 DEF RInv, RunnerTypeOK, RunnerPlaces, Resume, machine, history
    <2>2. CASE session # NoSession
        <3>1. terminal \in Terminals /\ session \in Terminals /\ terminal' = Restored(terminal, session)
            BY <1>3, <2>2 DEF RInv, RunnerTypeOK, Resume
        <3>2. terminal' \in Terminals
            BY <3>1, RestoredFields
        <3> QED
            BY <1>3, <3>2 DEF RInv, RunnerTypeOK, RunnerPlaces, Resume, machine, history
    <2> QED
        BY <2>1, <2>2
<1>4. CASE EndRun
    <2>1. terminal' \in Terminals
        BY <1>4 DEF RInv, RunnerTypeOK, EndRun, Terminals
    <2> QED
        BY <1>4, <2>1 DEF RInv, RunnerTypeOK, RunnerPlaces, EndRun, machine, history
<1>5. CASE GoBack
    <2>1. terminal' \in Terminals
        BY <1>5 DEF RInv, RunnerTypeOK, GoBack, Terminals
    <2>2. session' = terminal'
        BY <1>5 DEF GoBack
    <2> QED
        BY <1>5, <2>1, <2>2 DEF RInv, RunnerTypeOK, RunnerPlaces, Places, GoBack
<1>6. CASE RestartStep /\ Exchange
    BY <1>6, RunnerAssumption DEF RInv, Holds, RunnerTypeOK, RunnerPlaces, Places, Reasons, RestartStep, Exchange, machine, history, driver
<1>7. CASE RestartStep /\ TakePending
    <2>1. program' \in Programs /\ arguments' \in Arguments
        BY <1>7, ConstantsAssumption DEF RInv, Holds, Pairs, RestartStep, TakePending
    <2> QED
        BY <1>7, <2>1 DEF RInv, RunnerTypeOK, RunnerPlaces, Places, RestartStep, TakePending
<1>8. CASE RestartStep /\ Load
    BY <1>8, RunnerAssumption DEF RInv, Holds, RunnerTypeOK, RunnerPlaces, Places, Reasons, RestartStep, Load, machine, history, driver
<1>9. CASE RestartStep /\ (ClearInterrupts \/ ResetDevices \/ PowerOn)
    <2>1. terminal' \in Terminals
        BY <1>9 DEF RInv, RunnerTypeOK, RestartStep, Blank, Terminals
    <2>2. faulted' \in BOOLEAN
        BY <1>9 DEF RInv, RunnerTypeOK, RestartStep
    <2>3. /\ on' \in BOOLEAN /\ at' \in RunnerPlaces
          /\ UNCHANGED <<resetRequested, program, arguments, runningShell, session, exitStatus, hostQuit,
                         why, last, resumed>>
        BY <1>9 DEF RInv, RunnerTypeOK, RestartStep, ClearInterrupts, ResetDevices, PowerOn, machine,
                    history, RunnerPlaces, Places
    <2> QED
        BY <2>1, <2>2, <2>3 DEF RInv, RunnerTypeOK
<1>10. CASE NextStep \/ SliceEnds \/ Cut
    BY <1>10, RunnerAssumption DEF RInv, Holds, RunnerTypeOK, RunnerPlaces, Places, Reasons, NextStep, SliceEnds, Cut, CutPower, machine, history, driver
<1>11. CASE Reset
    BY <1>11, RunnerAssumption DEF RInv, Holds, RunnerTypeOK, RunnerPlaces, Places, Reasons, Reset, AskReset, Remember, machine, history, driver
<1>12. CASE Unhandled
    BY <1>12, RunnerAssumption DEF RInv, Holds, RunnerTypeOK, RunnerPlaces, Places, Reasons, Unhandled, ShutDown, Remember, machine, history, driver
<1>13. ASSUME NEW s \in Statuses, Exit(s) PROVE RunnerTypeOK'
    BY <1>13, RunnerAssumption DEF RInv, Holds, RunnerTypeOK, RunnerPlaces, Places, Reasons, Exit, ShutDown, Remember, machine, history, driver
<1>14. ASSUME NEW t \in Terminals, Terminal(t) PROVE RunnerTypeOK'
    BY <1>14, RunnerAssumption DEF RInv, Holds, RunnerTypeOK, RunnerPlaces, Places, Reasons, Terminal, Work, machine, history, driver
<1>15. ASSUME NEW p \in Programs, NEW e \in Environments \cup {Unset}, LoadAndRun(p, e) PROVE RunnerTypeOK'
    <2>1. PICK a \in {[arguments EXCEPT !.argv = p], ArgumentsOf(p, e, Unset)} :
            /\ RequestLoad(p, a)
            /\ IF a \in Fits[p] THEN runningShell' = FALSE /\ Remember("load", Unset)
                               ELSE UNCHANGED <<runningShell, why, last>>
        BY <1>15 DEF LoadAndRun
    <2>2. /\ UNCHANGED <<on, program, arguments, session, terminal, exitStatus, faulted, hostQuit, resumed>>
          /\ resetRequested' \in BOOLEAN /\ at' \in RunnerPlaces
        BY <1>15, <2>1 DEF RInv, RunnerTypeOK, LoadAndRun, RequestLoad, RunnerPlaces, Places
    <2>3. arguments.env \in Environments
        BY RunnerAssumption DEF RInv, RunnerTypeOK
    <2>4. CASE a \in Fits[p]
        <3>1. /\ runningShell' = FALSE /\ why' = "load"
              /\ last' = [program |-> program, env |-> arguments.env, status |-> Unset,
                          terminal |-> terminal, faulted |-> faulted]
            BY <2>1, <2>2, <2>4 DEF Remember
        <3>2. last' \in [program : Programs, env : Environments, status : Statuses \cup {Unset},
                         terminal : Terminals, faulted : BOOLEAN]
            BY <2>3, <3>1 DEF RInv, RunnerTypeOK
        <3> QED
            BY <2>2, <3>1, <3>2 DEF RInv, RunnerTypeOK, Reasons
    <2>5. CASE a \notin Fits[p]
        BY <2>1, <2>2, <2>5 DEF RInv, RunnerTypeOK
    <2> QED
        BY <2>4, <2>5
<1>16. CASE UNCHANGED runVars
    BY <1>16, RunnerAssumption DEF RInv, Holds, RunnerTypeOK, RunnerPlaces, Places, Reasons, runVars, vars, machine, history, driver
<1> QED
    BY <1>1, <1>2, <1>3, <1>4, <1>5, <1>6, <1>7, <1>8, <1>9, <1>10, <1>11, <1>12, <1>13, <1>14, <1>15, <1>16 DEF RunnerNext, Loop, Slice, RestartStep, Restart

(* Every step keeps what was accepted with its own arguments, which fit. *)
LEMMA RunnerPairsStep ==
    ASSUME RInv, [RunnerNext]_runVars PROVE Pairs'
<1>1. CASE Begin \/ Pump \/ Quit
    BY <1>1, ConstantsAssumption, RunnerAssumption DEF RInv, Holds, Pairs, Powered, Waits, Begin, Pump, Quit, machine, history, driver
<1>2. CASE Top
    BY <1>2, ConstantsAssumption, RunnerAssumption DEF RInv, Holds, Pairs, Powered, Waits, Top, machine, history, driver
<1>3. CASE Resume
    BY <1>3, ConstantsAssumption, RunnerAssumption DEF RInv, Holds, Pairs, Powered, Waits, Resume, machine, history, driver
<1>4. CASE EndRun
    BY <1>4, ConstantsAssumption, RunnerAssumption DEF RInv, Holds, Pairs, Powered, Waits, EndRun, machine, history, driver
<1>5. CASE GoBack
    BY <1>5, ConstantsAssumption, RunnerAssumption DEF RInv, Holds, Pairs, Powered, Waits, GoBack, Over, ShellArguments, machine, history, driver
<1>6. CASE RestartStep /\ Exchange
    BY <1>6, ConstantsAssumption, RunnerAssumption DEF RInv, Holds, Pairs, Powered, Waits, RestartStep, Exchange, machine, history, driver
<1>7. CASE RestartStep /\ TakePending
    BY <1>7, ConstantsAssumption, RunnerAssumption DEF RInv, Holds, Pairs, Powered, Waits, RestartStep, TakePending, machine, history, driver
<1>8. CASE RestartStep /\ Load
    BY <1>8, ConstantsAssumption, RunnerAssumption DEF RInv, Holds, Pairs, Powered, Waits, RestartStep, Load, machine, history, driver
<1>9. CASE RestartStep /\ (ClearInterrupts \/ ResetDevices \/ PowerOn)
    BY <1>9, ConstantsAssumption, RunnerAssumption DEF RInv, Holds, Pairs, Powered, Waits, RestartStep, ClearInterrupts, ResetDevices, PowerOn, machine, history, driver
<1>10. CASE NextStep \/ SliceEnds \/ Cut
    BY <1>10, ConstantsAssumption, RunnerAssumption DEF RInv, Holds, Pairs, Powered, Waits, NextStep, SliceEnds, Cut, CutPower, machine, history, driver
<1>11. CASE Reset
    BY <1>11, ConstantsAssumption, RunnerAssumption DEF RInv, Holds, Pairs, Powered, Waits, Reset, AskReset, Remember, machine, history, driver
<1>12. CASE Unhandled
    BY <1>12, ConstantsAssumption, RunnerAssumption DEF RInv, Holds, Pairs, Powered, Waits, Unhandled, ShutDown, Remember, machine, history, driver
<1>13. ASSUME NEW s \in Statuses, Exit(s) PROVE Pairs'
    BY <1>13, ConstantsAssumption, RunnerAssumption DEF RInv, Holds, Pairs, Powered, Waits, Exit, ShutDown, Remember, machine, history, driver
<1>14. ASSUME NEW t \in Terminals, Terminal(t) PROVE Pairs'
    BY <1>14, ConstantsAssumption, RunnerAssumption DEF RInv, Holds, Pairs, Powered, Waits, Terminal, Work, machine, history, driver
<1>15. ASSUME NEW p \in Programs, NEW e \in Environments \cup {Unset}, LoadAndRun(p, e) PROVE Pairs'
    BY <1>15, ConstantsAssumption, RunnerAssumption DEF RInv, Holds, Pairs, Powered, Waits, LoadAndRun, RequestLoad, Remember, machine, history, driver
<1>16. CASE UNCHANGED runVars
    BY <1>16, ConstantsAssumption, RunnerAssumption DEF RInv, Holds, Pairs, Powered, Waits, runVars, vars, machine, history, driver
<1> QED
    BY <1>1, <1>2, <1>3, <1>4, <1>5, <1>6, <1>7, <1>8, <1>9, <1>10, <1>11, <1>12, <1>13, <1>14, <1>15, <1>16 DEF RunnerNext, Loop, Slice, RestartStep, Restart

(* Every step keeps the image the program's, but between the take and the load. *)
LEMMA RunnerPlacedStep ==
    ASSUME RInv, [RunnerNext]_runVars PROVE Placed'
<1>1. CASE Begin \/ Pump \/ Quit
    BY <1>1 DEF RInv, Placed, Begin, Pump, Quit, machine, history, driver
<1>2. CASE Top
    BY <1>2 DEF RInv, Placed, Top, machine, history, driver
<1>3. CASE Resume
    BY <1>3 DEF RInv, Placed, Resume, machine, history, driver
<1>4. CASE EndRun
    BY <1>4 DEF RInv, Placed, EndRun, machine, history, driver
<1>5. CASE GoBack
    BY <1>5 DEF RInv, Placed, GoBack, Over, ShellArguments, machine, history, driver
<1>6. CASE RestartStep /\ Exchange
    BY <1>6 DEF RInv, Placed, RestartStep, Exchange, machine, history, driver
<1>7. CASE RestartStep /\ TakePending
    BY <1>7 DEF RInv, Placed, RestartStep, TakePending, machine, history, driver
<1>8. CASE RestartStep /\ Load
    <2>1. at' = "clear" /\ image' = [program |-> program, arguments |-> arguments, asLoaded |-> TRUE]
        BY <1>8, LoadIsTaken
    <2>2. UNCHANGED <<program, arguments>>
        BY <1>8 DEF RestartStep, Load
    <2> QED
        BY <2>1, <2>2 DEF Placed
<1>9. CASE RestartStep /\ (ClearInterrupts \/ ResetDevices \/ PowerOn)
    BY <1>9 DEF RInv, Placed, RestartStep, ClearInterrupts, ResetDevices, PowerOn, machine, history, driver
<1>10. CASE NextStep \/ SliceEnds \/ Cut
    BY <1>10 DEF RInv, Placed, NextStep, SliceEnds, Cut, CutPower, machine, history, driver
<1>11. CASE Reset
    BY <1>11 DEF RInv, Placed, Reset, AskReset, Remember, machine, history, driver
<1>12. CASE Unhandled
    BY <1>12 DEF RInv, Placed, Unhandled, ShutDown, Remember, machine, history, driver
<1>13. ASSUME NEW s \in Statuses, Exit(s) PROVE Placed'
    BY <1>13 DEF RInv, Placed, Exit, ShutDown, Remember, machine, history, driver
<1>14. ASSUME NEW t \in Terminals, Terminal(t) PROVE Placed'
    BY <1>14 DEF RInv, Placed, Terminal, Work, machine, history, driver
<1>15. ASSUME NEW p \in Programs, NEW e \in Environments \cup {Unset}, LoadAndRun(p, e) PROVE Placed'
    BY <1>15 DEF RInv, Placed, LoadAndRun, RequestLoad, Remember, machine, history, driver
<1>16. CASE UNCHANGED runVars
    BY <1>16 DEF RInv, Placed, runVars, vars, machine, history, driver
<1> QED
    BY <1>1, <1>2, <1>3, <1>4, <1>5, <1>6, <1>7, <1>8, <1>9, <1>10, <1>11, <1>12, <1>13, <1>14, <1>15, <1>16 DEF RunnerNext, Loop, Slice, RestartStep, Restart

(* Every step keeps the power and the request to the place of the thread. *)
LEMMA PoweredStep ==
    ASSUME RInv, [RunnerNext]_runVars PROVE Powered'
<1>1. CASE Begin \/ Pump \/ Quit
    BY <1>1 DEF RInv, Powered, RunnerTypeOK, Begin, Pump, Quit, machine, history, driver
<1>2. CASE Top
    BY <1>2 DEF RInv, Powered, RunnerTypeOK, Top, machine, history, driver
<1>3. CASE Resume
    BY <1>3 DEF RInv, Powered, RunnerTypeOK, Resume, machine, history, driver
<1>4. CASE EndRun
    BY <1>4 DEF RInv, Powered, RunnerTypeOK, EndRun, machine, history, driver
<1>5. CASE GoBack
    BY <1>5 DEF RInv, Powered, RunnerTypeOK, GoBack, Over, ShellArguments, machine, history, driver
<1>6. CASE RestartStep /\ Exchange
    BY <1>6 DEF RInv, Powered, RunnerTypeOK, RestartStep, Exchange, machine, history, driver
<1>7. CASE RestartStep /\ TakePending
    BY <1>7 DEF RInv, Powered, RunnerTypeOK, RestartStep, TakePending, machine, history, driver
<1>8. CASE RestartStep /\ Load
    BY <1>8 DEF RInv, Powered, RunnerTypeOK, RestartStep, Load, machine, history, driver
<1>9. CASE RestartStep /\ (ClearInterrupts \/ ResetDevices \/ PowerOn)
    BY <1>9 DEF RInv, Powered, RunnerTypeOK, RestartStep, ClearInterrupts, ResetDevices, PowerOn, machine, history, driver
<1>10. CASE NextStep \/ SliceEnds \/ Cut
    BY <1>10 DEF RInv, Powered, RunnerTypeOK, NextStep, SliceEnds, Cut, CutPower, machine, history, driver
<1>11. CASE Reset
    BY <1>11 DEF RInv, Powered, RunnerTypeOK, Reset, AskReset, Remember, machine, history, driver
<1>12. CASE Unhandled
    BY <1>12 DEF RInv, Powered, RunnerTypeOK, Unhandled, ShutDown, Remember, machine, history, driver
<1>13. ASSUME NEW s \in Statuses, Exit(s) PROVE Powered'
    BY <1>13 DEF RInv, Powered, RunnerTypeOK, Exit, ShutDown, Remember, machine, history, driver
<1>14. ASSUME NEW t \in Terminals, Terminal(t) PROVE Powered'
    BY <1>14 DEF RInv, Powered, RunnerTypeOK, Terminal, Work, machine, history, driver
<1>15. ASSUME NEW p \in Programs, NEW e \in Environments \cup {Unset}, LoadAndRun(p, e) PROVE Powered'
    BY <1>15 DEF RInv, Powered, RunnerTypeOK, LoadAndRun, RequestLoad, Remember, machine, history, driver
<1>16. CASE UNCHANGED runVars
    BY <1>16 DEF RInv, Powered, RunnerTypeOK, runVars, vars, machine, history, driver
<1> QED
    BY <1>1, <1>2, <1>3, <1>4, <1>5, <1>6, <1>7, <1>8, <1>9, <1>10, <1>11, <1>12, <1>13, <1>14, <1>15, <1>16 DEF RunnerNext, Loop, Slice, RestartStep, Restart

(* Every step keeps a load waiting only for the restart that takes it. *)
LEMMA WaitsStep ==
    ASSUME RInv, [RunnerNext]_runVars PROVE Waits'
<1>1. CASE Begin \/ Pump \/ Quit
    BY <1>1 DEF RInv, Powered, Waits, RunnerTypeOK, Begin, Pump, Quit, machine, history, driver
<1>2. CASE Top
    BY <1>2 DEF RInv, Powered, Waits, RunnerTypeOK, Top, machine, history, driver
<1>3. CASE Resume
    BY <1>3 DEF RInv, Powered, Waits, RunnerTypeOK, Resume, machine, history, driver
<1>4. CASE EndRun
    BY <1>4 DEF RInv, Powered, Waits, RunnerTypeOK, EndRun, machine, history, driver
<1>5. CASE GoBack
    BY <1>5 DEF RInv, Powered, Waits, RunnerTypeOK, GoBack, Over, ShellArguments, machine, history, driver
<1>6. CASE RestartStep /\ Exchange
    BY <1>6 DEF RInv, Powered, Waits, RunnerTypeOK, RestartStep, Exchange, machine, history, driver
<1>7. CASE RestartStep /\ TakePending
    BY <1>7 DEF RInv, Powered, Waits, RunnerTypeOK, RestartStep, TakePending, machine, history, driver
<1>8. CASE RestartStep /\ Load
    BY <1>8 DEF RInv, Powered, Waits, RunnerTypeOK, RestartStep, Load, machine, history, driver
<1>9. CASE RestartStep /\ (ClearInterrupts \/ ResetDevices \/ PowerOn)
    BY <1>9 DEF RInv, Powered, Waits, RunnerTypeOK, RestartStep, ClearInterrupts, ResetDevices, PowerOn, machine, history, driver
<1>10. CASE NextStep \/ SliceEnds \/ Cut
    BY <1>10 DEF RInv, Powered, Waits, RunnerTypeOK, NextStep, SliceEnds, Cut, CutPower, machine, history, driver
<1>11. CASE Reset
    BY <1>11 DEF RInv, Powered, Waits, RunnerTypeOK, Reset, AskReset, Remember, machine, history, driver
<1>12. CASE Unhandled
    BY <1>12 DEF RInv, Powered, Waits, RunnerTypeOK, Unhandled, ShutDown, Remember, machine, history, driver
<1>13. ASSUME NEW s \in Statuses, Exit(s) PROVE Waits'
    BY <1>13 DEF RInv, Powered, Waits, RunnerTypeOK, Exit, ShutDown, Remember, machine, history, driver
<1>14. ASSUME NEW t \in Terminals, Terminal(t) PROVE Waits'
    BY <1>14 DEF RInv, Powered, Waits, RunnerTypeOK, Terminal, Work, machine, history, driver
<1>15. ASSUME NEW p \in Programs, NEW e \in Environments \cup {Unset}, LoadAndRun(p, e) PROVE Waits'
    BY <1>15 DEF RInv, Powered, Waits, RunnerTypeOK, LoadAndRun, RequestLoad, Remember, machine, history, driver
<1>16. CASE UNCHANGED runVars
    BY <1>16 DEF RInv, Powered, Waits, RunnerTypeOK, runVars, vars, machine, history, driver
<1> QED
    BY <1>1, <1>2, <1>3, <1>4, <1>5, <1>6, <1>7, <1>8, <1>9, <1>10, <1>11, <1>12, <1>13, <1>14, <1>15, <1>16 DEF RunnerNext, Loop, Slice, RestartStep, Restart

(* Every step keeps the driver's idea of who runs. *)
LEMMA KnowsShellStep ==
    ASSUME RInv, [RunnerNext]_runVars PROVE KnowsShell'
<1>1. CASE Begin \/ Pump \/ Quit
    BY <1>1, ConstantsAssumption, RunnerAssumption DEF RInv, Holds, Powered, Waits, KnowsShell, Begin, Pump, Quit, machine, history, driver
<1>2. CASE Top
    BY <1>2, ConstantsAssumption, RunnerAssumption DEF RInv, Holds, Powered, Waits, KnowsShell, Top, machine, history, driver
<1>3. CASE Resume
    BY <1>3, ConstantsAssumption, RunnerAssumption DEF RInv, Holds, Powered, Waits, KnowsShell, Resume, machine, history, driver
<1>4. CASE EndRun
    BY <1>4, ConstantsAssumption, RunnerAssumption DEF RInv, Holds, Powered, Waits, KnowsShell, EndRun, machine, history, driver
<1>5. CASE GoBack
    BY <1>5, ConstantsAssumption, RunnerAssumption DEF RInv, Holds, Powered, Waits, KnowsShell, GoBack, Over, ShellArguments, machine, history, driver
<1>6. CASE RestartStep /\ Exchange
    BY <1>6, ConstantsAssumption, RunnerAssumption DEF RInv, Holds, Powered, Waits, KnowsShell, RestartStep, Exchange, machine, history, driver
<1>7. CASE RestartStep /\ TakePending
    BY <1>7, ConstantsAssumption, RunnerAssumption DEF RInv, Holds, Powered, Waits, KnowsShell, RestartStep, TakePending, machine, history, driver
<1>8. CASE RestartStep /\ Load
    BY <1>8, ConstantsAssumption, RunnerAssumption DEF RInv, Holds, Powered, Waits, KnowsShell, RestartStep, Load, machine, history, driver
<1>9. CASE RestartStep /\ (ClearInterrupts \/ ResetDevices \/ PowerOn)
    BY <1>9, ConstantsAssumption, RunnerAssumption DEF RInv, Holds, Powered, Waits, KnowsShell, RestartStep, ClearInterrupts, ResetDevices, PowerOn, machine, history, driver
<1>10. CASE NextStep \/ SliceEnds \/ Cut
    BY <1>10, ConstantsAssumption, RunnerAssumption DEF RInv, Holds, Powered, Waits, KnowsShell, NextStep, SliceEnds, Cut, CutPower, machine, history, driver
<1>11. CASE Reset
    BY <1>11, ConstantsAssumption, RunnerAssumption DEF RInv, Holds, Powered, Waits, KnowsShell, Reset, AskReset, Remember, machine, history, driver
<1>12. CASE Unhandled
    BY <1>12, ConstantsAssumption, RunnerAssumption DEF RInv, Holds, Powered, Waits, KnowsShell, Unhandled, ShutDown, Remember, machine, history, driver
<1>13. ASSUME NEW s \in Statuses, Exit(s) PROVE KnowsShell'
    BY <1>13, ConstantsAssumption, RunnerAssumption DEF RInv, Holds, Powered, Waits, KnowsShell, Exit, ShutDown, Remember, machine, history, driver
<1>14. ASSUME NEW t \in Terminals, Terminal(t) PROVE KnowsShell'
    BY <1>14, ConstantsAssumption, RunnerAssumption DEF RInv, Holds, Powered, Waits, KnowsShell, Terminal, Work, machine, history, driver
<1>15. ASSUME NEW p \in Programs, NEW e \in Environments \cup {Unset}, LoadAndRun(p, e) PROVE KnowsShell'
    BY <1>15, ConstantsAssumption, RunnerAssumption DEF RInv, Holds, Powered, Waits, KnowsShell, LoadAndRun, RequestLoad, Remember, machine, history, driver
<1>16. CASE UNCHANGED runVars
    BY <1>16, ConstantsAssumption, RunnerAssumption DEF RInv, Holds, Powered, Waits, KnowsShell, runVars, vars, machine, history, driver
<1> QED
    BY <1>1, <1>2, <1>3, <1>4, <1>5, <1>6, <1>7, <1>8, <1>9, <1>10, <1>11, <1>12, <1>13, <1>14, <1>15, <1>16 DEF RunnerNext, Loop, Slice, RestartStep, Restart

(* Every step keeps what a program that ended left until the loop has seen it. *)
LEMMA AfterEndStep ==
    ASSUME RInv, [RunnerNext]_runVars PROVE AfterEnd'
<1>1. CASE Begin \/ Pump \/ Quit
    BY <1>1 DEF RInv, Powered, RunnerTypeOK, AfterEnd, HasEnded, Looked, Begin, Pump, Quit, machine, history, driver
<1>2. CASE Top
    BY <1>2 DEF RInv, Powered, RunnerTypeOK, AfterEnd, HasEnded, Looked, Top, machine, history, driver
<1>3. CASE Resume
    BY <1>3 DEF RInv, Powered, RunnerTypeOK, AfterEnd, HasEnded, Looked, Resume, machine, history, driver
<1>4. CASE EndRun
    BY <1>4 DEF RInv, Powered, RunnerTypeOK, AfterEnd, HasEnded, Looked, EndRun, machine, history, driver
<1>5. CASE GoBack
    BY <1>5 DEF RInv, Powered, RunnerTypeOK, AfterEnd, HasEnded, Looked, GoBack, Over, ShellArguments, machine, history, driver
<1>6. CASE RestartStep /\ Exchange
    BY <1>6 DEF RInv, Powered, RunnerTypeOK, AfterEnd, HasEnded, Looked, RestartStep, Exchange, machine, history, driver
<1>7. CASE RestartStep /\ TakePending
    BY <1>7 DEF RInv, Powered, RunnerTypeOK, AfterEnd, HasEnded, Looked, RestartStep, TakePending, machine, history, driver
<1>8. CASE RestartStep /\ Load
    <2>1. at' = "clear"
        BY <1>8, LoadIsTaken
    <2> QED
        BY <2>1 DEF AfterEnd, HasEnded, Looked
<1>9. CASE RestartStep /\ (ClearInterrupts \/ ResetDevices \/ PowerOn)
    BY <1>9 DEF RInv, Powered, RunnerTypeOK, AfterEnd, HasEnded, Looked, RestartStep, ClearInterrupts, ResetDevices, PowerOn, machine, history, driver
<1>10. CASE NextStep \/ SliceEnds \/ Cut
    BY <1>10 DEF RInv, Powered, RunnerTypeOK, AfterEnd, HasEnded, Looked, NextStep, SliceEnds, Cut, CutPower, machine, history, driver
<1>11. CASE Reset
    BY <1>11 DEF RInv, Powered, RunnerTypeOK, AfterEnd, HasEnded, Looked, Reset, AskReset, Remember, machine, history, driver
<1>12. CASE Unhandled
    BY <1>12 DEF RInv, Powered, RunnerTypeOK, AfterEnd, HasEnded, Looked, Unhandled, ShutDown, Remember, machine, history, driver
<1>13. ASSUME NEW s \in Statuses, Exit(s) PROVE AfterEnd'
    BY <1>13 DEF RInv, Powered, RunnerTypeOK, AfterEnd, HasEnded, Looked, Exit, ShutDown, Remember, machine, history, driver
<1>14. ASSUME NEW t \in Terminals, Terminal(t) PROVE AfterEnd'
    BY <1>14 DEF RInv, Powered, RunnerTypeOK, AfterEnd, HasEnded, Looked, Terminal, Work, machine, history, driver
<1>15. ASSUME NEW p \in Programs, NEW e \in Environments \cup {Unset}, LoadAndRun(p, e) PROVE AfterEnd'
    BY <1>15 DEF RInv, Powered, RunnerTypeOK, AfterEnd, HasEnded, Looked, LoadAndRun, RequestLoad, Remember, machine, history, driver
<1>16. CASE UNCHANGED runVars
    BY <1>16 DEF RInv, Powered, RunnerTypeOK, AfterEnd, HasEnded, Looked, runVars, vars, machine, history, driver
<1> QED
    BY <1>1, <1>2, <1>3, <1>4, <1>5, <1>6, <1>7, <1>8, <1>9, <1>10, <1>11, <1>12, <1>13, <1>14, <1>15, <1>16 DEF RunnerNext, Loop, Slice, RestartStep, Restart

(* Every step keeps what a program that asked left until the loop has seen it. *)
LEMMA AfterAskStep ==
    ASSUME RInv, [RunnerNext]_runVars PROVE AfterAsk'
<1>1. CASE Begin \/ Pump \/ Quit
    BY <1>1, ConstantsAssumption DEF RInv, Powered, Waits, RunnerTypeOK, AfterAsk, HasAsked, Looked, NotFaulted, HasEnded, Taking, Begin, Pump, Quit, machine, history, driver
<1>2. CASE Top
    BY <1>2, ConstantsAssumption DEF RInv, Powered, Waits, RunnerTypeOK, AfterAsk, HasAsked, Looked, NotFaulted, HasEnded, Taking, Top, machine, history, driver
<1>3. CASE Resume
    BY <1>3, ConstantsAssumption DEF RInv, Powered, Waits, RunnerTypeOK, AfterAsk, HasAsked, Looked, NotFaulted, HasEnded, Taking, Resume, machine, history, driver
<1>4. CASE EndRun
    BY <1>4, ConstantsAssumption DEF RInv, Powered, Waits, RunnerTypeOK, AfterAsk, HasAsked, Looked, NotFaulted, HasEnded, Taking, EndRun, machine, history, driver
<1>5. CASE GoBack
    BY <1>5, ConstantsAssumption DEF RInv, Powered, Waits, RunnerTypeOK, AfterAsk, HasAsked, Looked, NotFaulted, HasEnded, Taking, GoBack, Over, ShellArguments, machine, history, driver
<1>6. CASE RestartStep /\ Exchange
    BY <1>6, ConstantsAssumption DEF RInv, Powered, Waits, RunnerTypeOK, AfterAsk, HasAsked, Looked, NotFaulted, HasEnded, Taking, RestartStep, Exchange, machine, history, driver
<1>7. CASE RestartStep /\ TakePending
    BY <1>7, ConstantsAssumption DEF RInv, Powered, Waits, RunnerTypeOK, AfterAsk, HasAsked, Looked, NotFaulted, HasEnded, Taking, RestartStep, TakePending, machine, history, driver
<1>8. CASE RestartStep /\ Load
    BY <1>8, ConstantsAssumption DEF RInv, Powered, Waits, RunnerTypeOK, AfterAsk, HasAsked, Looked, NotFaulted, HasEnded, Taking, RestartStep, Load, machine, history, driver
<1>9. CASE RestartStep /\ (ClearInterrupts \/ ResetDevices \/ PowerOn)
    BY <1>9, ConstantsAssumption DEF RInv, Powered, Waits, RunnerTypeOK, AfterAsk, HasAsked, Looked, NotFaulted, HasEnded, Taking, RestartStep, ClearInterrupts, ResetDevices, PowerOn, machine, history, driver
<1>10. CASE NextStep \/ SliceEnds \/ Cut
    BY <1>10, ConstantsAssumption DEF RInv, Powered, Waits, RunnerTypeOK, AfterAsk, HasAsked, Looked, NotFaulted, HasEnded, Taking, NextStep, SliceEnds, Cut, CutPower, machine, history, driver
<1>11. CASE Reset
    BY <1>11, ConstantsAssumption DEF RInv, Powered, Waits, RunnerTypeOK, AfterAsk, HasAsked, Looked, NotFaulted, HasEnded, Taking, Reset, AskReset, Remember, machine, history, driver
<1>12. CASE Unhandled
    BY <1>12, ConstantsAssumption DEF RInv, Powered, Waits, RunnerTypeOK, AfterAsk, HasAsked, Looked, NotFaulted, HasEnded, Taking, Unhandled, ShutDown, Remember, machine, history, driver
<1>13. ASSUME NEW s \in Statuses, Exit(s) PROVE AfterAsk'
    BY <1>13, ConstantsAssumption DEF RInv, Powered, Waits, RunnerTypeOK, AfterAsk, HasAsked, Looked, NotFaulted, HasEnded, Taking, Exit, ShutDown, Remember, machine, history, driver
<1>14. ASSUME NEW t \in Terminals, Terminal(t) PROVE AfterAsk'
    BY <1>14, ConstantsAssumption DEF RInv, Powered, Waits, RunnerTypeOK, AfterAsk, HasAsked, Looked, NotFaulted, HasEnded, Taking, Terminal, Work, machine, history, driver
<1>15. ASSUME NEW p \in Programs, NEW e \in Environments \cup {Unset}, LoadAndRun(p, e) PROVE AfterAsk'
    BY <1>15, ConstantsAssumption DEF RInv, Powered, Waits, RunnerTypeOK, AfterAsk, HasAsked, Looked, NotFaulted, HasEnded, Taking, LoadAndRun, RequestLoad, Remember, machine, history, driver
<1>16. CASE UNCHANGED runVars
    BY <1>16, ConstantsAssumption DEF RInv, Powered, Waits, RunnerTypeOK, AfterAsk, HasAsked, Looked, NotFaulted, HasEnded, Taking, runVars, vars, machine, history, driver
<1> QED
    BY <1>1, <1>2, <1>3, <1>4, <1>5, <1>6, <1>7, <1>8, <1>9, <1>10, <1>11, <1>12, <1>13, <1>14, <1>15, <1>16 DEF RunnerNext, Loop, Slice, RestartStep, Restart

(* Every step keeps the session for the program about to start. *)
LEMMA KeepsSessionStep ==
    ASSUME RInv, [RunnerNext]_runVars PROVE KeepsSession'
<1>1. CASE Begin \/ Pump \/ Quit
    BY <1>1 DEF RInv, Powered, Waits, RunnerTypeOK, KeepsSession, Taking, Restarts, Begin, Pump, Quit, machine, history, driver
<1>2. CASE Top
    <2>1. ~Restarts' /\ UNCHANGED <<why, last, resetRequested>>
        BY <1>2 DEF Top, Restarts
    <2>2. SUFFICES ASSUME Taking' PROVE /\ why \in {"reset", "load"}
                                        /\ session' = IF why = "reset" THEN NoSession ELSE Reported(last)
        BY <2>1 DEF KeepsSession
    <2>3. HasAsked /\ on = FALSE
        BY <1>2, <2>2 DEF RInv, RunnerTypeOK, Top, Taking, HasAsked, Looked
    <2>4. /\ why \in {"reset", "load"}
          /\ why = "load" <=> pendingProgram # None
          /\ terminal = last.terminal /\ last.faulted = FALSE
        BY <2>3 DEF RInv, AfterAsk
    <2>5. session' = IF pendingProgram # None THEN terminal ELSE NoSession
        BY <1>2, <2>3 DEF Top
    <2>6. Reported(last) = [terminal EXCEPT !.screen = terminal.screen]
        BY <2>4 DEF Reported
    <2>7. terminal \in Terminals
        BY DEF RInv, RunnerTypeOK
    <2>8. Reported(last) = terminal
        BY <2>6, <2>7 DEF Terminals
    <2> QED
        BY <2>4, <2>5, <2>8
<1>3. CASE Resume
    BY <1>3 DEF RInv, Powered, Waits, RunnerTypeOK, KeepsSession, Taking, Restarts, Resume, machine, history, driver
<1>4. CASE EndRun
    BY <1>4 DEF RInv, Powered, Waits, RunnerTypeOK, KeepsSession, Taking, Restarts, EndRun, machine, history, driver
<1>5. CASE GoBack
    <2>1. why = "end" /\ last.terminal = terminal /\ last.faulted = faulted
        BY <1>5, Ended DEF GoBack
    <2>2. /\ UNCHANGED <<why, last>>
          /\ session' = [terminal EXCEPT !.screen = IF faulted THEN Fault ELSE terminal.screen]
        BY <1>5 DEF GoBack
    <2> QED
        BY <2>1, <2>2 DEF KeepsSession, Reported
<1>6. CASE RestartStep /\ Exchange
    BY <1>6 DEF RInv, Powered, Waits, RunnerTypeOK, KeepsSession, Taking, Restarts, RestartStep, Exchange, machine, history, driver
<1>7. CASE RestartStep /\ TakePending
    BY <1>7 DEF RInv, Powered, Waits, RunnerTypeOK, KeepsSession, Taking, Restarts, RestartStep, TakePending, machine, history, driver
<1>8. CASE RestartStep /\ Load
    BY <1>8 DEF RInv, Powered, Waits, RunnerTypeOK, KeepsSession, Taking, Restarts, RestartStep, Load, machine, history, driver
<1>9. CASE RestartStep /\ (ClearInterrupts \/ ResetDevices \/ PowerOn)
    BY <1>9 DEF RInv, Powered, Waits, RunnerTypeOK, KeepsSession, Taking, Restarts, RestartStep, ClearInterrupts, ResetDevices, PowerOn, machine, history, driver
<1>10. CASE NextStep \/ SliceEnds \/ Cut
    BY <1>10 DEF RInv, Powered, Waits, RunnerTypeOK, KeepsSession, Taking, Restarts, NextStep, SliceEnds, Cut, CutPower, machine, history, driver
<1>11. CASE Reset
    BY <1>11 DEF RInv, Powered, Waits, RunnerTypeOK, KeepsSession, Taking, Restarts, Reset, AskReset, Remember, machine, history, driver
<1>12. CASE Unhandled
    BY <1>12 DEF RInv, Powered, Waits, RunnerTypeOK, KeepsSession, Taking, Restarts, Unhandled, ShutDown, Remember, machine, history, driver
<1>13. ASSUME NEW s \in Statuses, Exit(s) PROVE KeepsSession'
    BY <1>13 DEF RInv, Powered, Waits, RunnerTypeOK, KeepsSession, Taking, Restarts, Exit, ShutDown, Remember, machine, history, driver
<1>14. ASSUME NEW t \in Terminals, Terminal(t) PROVE KeepsSession'
    BY <1>14 DEF RInv, Powered, Waits, RunnerTypeOK, KeepsSession, Taking, Restarts, Terminal, Work, machine, history, driver
<1>15. ASSUME NEW p \in Programs, NEW e \in Environments \cup {Unset}, LoadAndRun(p, e) PROVE KeepsSession'
    BY <1>15 DEF RInv, Powered, Waits, RunnerTypeOK, KeepsSession, Taking, Restarts, LoadAndRun, RequestLoad, Remember, machine, history, driver
<1>16. CASE UNCHANGED runVars
    BY <1>16 DEF RInv, Powered, Waits, RunnerTypeOK, KeepsSession, Taking, Restarts, runVars, vars, machine, history, driver
<1> QED
    BY <1>1, <1>2, <1>3, <1>4, <1>5, <1>6, <1>7, <1>8, <1>9, <1>10, <1>11, <1>12, <1>13, <1>14, <1>15, <1>16 DEF RunnerNext, Loop, Slice, RestartStep, Restart

(* Every step of a restart after an end goes to the shell. *)
LEMMA GoesToShellStep ==
    ASSUME RInv, [RunnerNext]_runVars PROVE GoesToShell'
<1>1. CASE Begin \/ Pump \/ Quit
    BY <1>1, ConstantsAssumption, RunnerAssumption DEF RInv, Powered, Waits, GoesToShell, Taking, Restarts, Begin, Pump, Quit, machine, history, driver
<1>2. CASE Top
    <2>1. ~Restarts' /\ UNCHANGED <<why, resetRequested>>
        BY <1>2 DEF Top, Restarts
    <2>2. Taking' => HasAsked
        BY <1>2 DEF RInv, RunnerTypeOK, Top, Taking, HasAsked, Looked
    <2>3. HasAsked => why # "end"
        BY DEF RInv, AfterAsk
    <2> QED
        BY <2>1, <2>2, <2>3 DEF GoesToShell
<1>3. CASE Resume
    BY <1>3, ConstantsAssumption, RunnerAssumption DEF RInv, Powered, Waits, GoesToShell, Taking, Restarts, Resume, machine, history, driver
<1>4. CASE EndRun
    BY <1>4, ConstantsAssumption, RunnerAssumption DEF RInv, Powered, Waits, GoesToShell, Taking, Restarts, EndRun, machine, history, driver
<1>5. CASE GoBack
    <2>1. /\ last.program = program /\ last.env = arguments.env /\ last.status = exitStatus
          /\ Over <=> Shell = None \/ Shell = program
        BY <1>5, Ended DEF GoBack
    <2>2. /\ ~Over /\ at' = "exchange" /\ last' = last
          /\ pendingProgram' = Shell /\ pendingArguments' = ShellArguments
        BY <1>5 DEF GoBack
    <2> QED
        BY <2>1, <2>2 DEF GoesToShell, Taking, Restarts, ShellArguments
<1>6. CASE RestartStep /\ Exchange
    BY <1>6, ConstantsAssumption, RunnerAssumption DEF RInv, Powered, Waits, GoesToShell, Taking, Restarts, RestartStep, Exchange, machine, history, driver
<1>7. CASE RestartStep /\ TakePending
    <2>1. why = "end" => /\ pendingProgram = Shell /\ Shell # None /\ last.program # Shell
                         /\ pendingArguments = ArgumentsOf(Shell, last.env, last.status)
        BY <1>7 DEF RInv, GoesToShell, Taking, TakePending
    <2>2. /\ at' = "load" /\ UNCHANGED <<why, last, resetRequested>>
          /\ pendingProgram # None => program' = pendingProgram /\ arguments' = pendingArguments
        BY <1>7 DEF RestartStep, TakePending
    <2> QED
        BY <2>1, <2>2 DEF GoesToShell, Taking, Restarts
<1>8. CASE RestartStep /\ Load
    BY <1>8, ConstantsAssumption, RunnerAssumption DEF RInv, Powered, Waits, GoesToShell, Taking, Restarts, RestartStep, Load, machine, history, driver
<1>9. CASE RestartStep /\ (ClearInterrupts \/ ResetDevices \/ PowerOn)
    BY <1>9, ConstantsAssumption, RunnerAssumption DEF RInv, Powered, Waits, GoesToShell, Taking, Restarts, RestartStep, ClearInterrupts, ResetDevices, PowerOn, machine, history, driver
<1>10. CASE NextStep \/ SliceEnds \/ Cut
    BY <1>10, ConstantsAssumption, RunnerAssumption DEF RInv, Powered, Waits, GoesToShell, Taking, Restarts, NextStep, SliceEnds, Cut, CutPower, machine, history, driver
<1>11. CASE Reset
    BY <1>11, ConstantsAssumption, RunnerAssumption DEF RInv, Powered, Waits, GoesToShell, Taking, Restarts, Reset, AskReset, Remember, machine, history, driver
<1>12. CASE Unhandled
    BY <1>12, ConstantsAssumption, RunnerAssumption DEF RInv, Powered, Waits, GoesToShell, Taking, Restarts, Unhandled, ShutDown, Remember, machine, history, driver
<1>13. ASSUME NEW s \in Statuses, Exit(s) PROVE GoesToShell'
    BY <1>13, ConstantsAssumption, RunnerAssumption DEF RInv, Powered, Waits, GoesToShell, Taking, Restarts, Exit, ShutDown, Remember, machine, history, driver
<1>14. ASSUME NEW t \in Terminals, Terminal(t) PROVE GoesToShell'
    BY <1>14, ConstantsAssumption, RunnerAssumption DEF RInv, Powered, Waits, GoesToShell, Taking, Restarts, Terminal, Work, machine, history, driver
<1>15. ASSUME NEW p \in Programs, NEW e \in Environments \cup {Unset}, LoadAndRun(p, e) PROVE GoesToShell'
    BY <1>15, ConstantsAssumption, RunnerAssumption DEF RInv, Powered, Waits, GoesToShell, Taking, Restarts, LoadAndRun, RequestLoad, Remember, machine, history, driver
<1>16. CASE UNCHANGED runVars
    BY <1>16, ConstantsAssumption, RunnerAssumption DEF RInv, Powered, Waits, GoesToShell, Taking, Restarts, runVars, vars, machine, history, driver
<1> QED
    BY <1>1, <1>2, <1>3, <1>4, <1>5, <1>6, <1>7, <1>8, <1>9, <1>10, <1>11, <1>12, <1>13, <1>14, <1>15, <1>16 DEF RunnerNext, Loop, Slice, RestartStep, Restart

(* Every step keeps a fault with the program it ended. *)
LEMMA NotFaultedStep ==
    ASSUME RInv, [RunnerNext]_runVars PROVE NotFaulted'
<1>1. CASE Begin \/ Pump \/ Quit
    BY <1>1 DEF RInv, Powered, RunnerTypeOK, AfterEnd, NotFaulted, HasEnded, Looked, Taking, Begin, Pump, Quit, machine, history, driver
<1>2. CASE Top
    BY <1>2 DEF RInv, Powered, RunnerTypeOK, AfterEnd, NotFaulted, HasEnded, Looked, Taking, Top, machine, history, driver
<1>3. CASE Resume
    BY <1>3 DEF RInv, Powered, RunnerTypeOK, AfterEnd, NotFaulted, HasEnded, Looked, Taking, Resume, machine, history, driver
<1>4. CASE EndRun
    BY <1>4 DEF RInv, Powered, RunnerTypeOK, AfterEnd, NotFaulted, HasEnded, Looked, Taking, EndRun, machine, history, driver
<1>5. CASE GoBack
    BY <1>5 DEF RInv, Powered, RunnerTypeOK, AfterEnd, NotFaulted, HasEnded, Looked, Taking, GoBack, Over, ShellArguments, machine, history, driver
<1>6. CASE RestartStep /\ Exchange
    BY <1>6 DEF RInv, Powered, RunnerTypeOK, AfterEnd, NotFaulted, HasEnded, Looked, Taking, RestartStep, Exchange, machine, history, driver
<1>7. CASE RestartStep /\ TakePending
    BY <1>7 DEF RInv, Powered, RunnerTypeOK, AfterEnd, NotFaulted, HasEnded, Looked, Taking, RestartStep, TakePending, machine, history, driver
<1>8. CASE RestartStep /\ Load
    BY <1>8 DEF RInv, Powered, RunnerTypeOK, AfterEnd, NotFaulted, HasEnded, Looked, Taking, RestartStep, Load, machine, history, driver
<1>9. CASE RestartStep /\ (ClearInterrupts \/ ResetDevices \/ PowerOn)
    BY <1>9 DEF RInv, Powered, RunnerTypeOK, AfterEnd, NotFaulted, HasEnded, Looked, Taking, RestartStep, ClearInterrupts, ResetDevices, PowerOn, machine, history, driver
<1>10. CASE NextStep \/ SliceEnds \/ Cut
    BY <1>10 DEF RInv, Powered, RunnerTypeOK, AfterEnd, NotFaulted, HasEnded, Looked, Taking, NextStep, SliceEnds, Cut, CutPower, machine, history, driver
<1>11. CASE Reset
    BY <1>11 DEF RInv, Powered, RunnerTypeOK, AfterEnd, NotFaulted, HasEnded, Looked, Taking, Reset, AskReset, Remember, machine, history, driver
<1>12. CASE Unhandled
    BY <1>12 DEF RInv, Powered, RunnerTypeOK, AfterEnd, NotFaulted, HasEnded, Looked, Taking, Unhandled, ShutDown, Remember, machine, history, driver
<1>13. ASSUME NEW s \in Statuses, Exit(s) PROVE NotFaulted'
    BY <1>13 DEF RInv, Powered, RunnerTypeOK, AfterEnd, NotFaulted, HasEnded, Looked, Taking, Exit, ShutDown, Remember, machine, history, driver
<1>14. ASSUME NEW t \in Terminals, Terminal(t) PROVE NotFaulted'
    BY <1>14 DEF RInv, Powered, RunnerTypeOK, AfterEnd, NotFaulted, HasEnded, Looked, Taking, Terminal, Work, machine, history, driver
<1>15. ASSUME NEW p \in Programs, NEW e \in Environments \cup {Unset}, LoadAndRun(p, e) PROVE NotFaulted'
    BY <1>15 DEF RInv, Powered, RunnerTypeOK, AfterEnd, NotFaulted, HasEnded, Looked, Taking, LoadAndRun, RequestLoad, Remember, machine, history, driver
<1>16. CASE UNCHANGED runVars
    BY <1>16 DEF RInv, Powered, RunnerTypeOK, AfterEnd, NotFaulted, HasEnded, Looked, Taking, runVars, vars, machine, history, driver
<1> QED
    BY <1>1, <1>2, <1>3, <1>4, <1>5, <1>6, <1>7, <1>8, <1>9, <1>10, <1>11, <1>12, <1>13, <1>14, <1>15, <1>16 DEF RunnerNext, Loop, Slice, RestartStep, Restart

(* Every step keeps the terminal blank between the reset and the program. *)
LEMMA WipedStep ==
    ASSUME RInv, [RunnerNext]_runVars PROVE Wiped'
<1>1. CASE Begin \/ Pump \/ Quit
    BY <1>1 DEF RInv, Wiped, Begin, Pump, Quit, machine, history, driver
<1>2. CASE Top
    BY <1>2 DEF RInv, Wiped, Top, machine, history, driver
<1>3. CASE Resume
    BY <1>3 DEF RInv, Wiped, Resume, machine, history, driver
<1>4. CASE EndRun
    BY <1>4 DEF RInv, Wiped, EndRun, machine, history, driver
<1>5. CASE GoBack
    BY <1>5 DEF RInv, Wiped, GoBack, Over, ShellArguments, machine, history, driver
<1>6. CASE RestartStep /\ Exchange
    BY <1>6 DEF RInv, Wiped, RestartStep, Exchange, machine, history, driver
<1>7. CASE RestartStep /\ TakePending
    BY <1>7 DEF RInv, Wiped, RestartStep, TakePending, machine, history, driver
<1>8. CASE RestartStep /\ Load
    BY <1>8 DEF RInv, Wiped, RestartStep, Load, machine, history, driver
<1>9. CASE RestartStep /\ (ClearInterrupts \/ ResetDevices \/ PowerOn)
    BY <1>9 DEF RInv, Wiped, RestartStep, ClearInterrupts, ResetDevices, PowerOn, machine, history, driver
<1>10. CASE NextStep \/ SliceEnds \/ Cut
    BY <1>10 DEF RInv, Wiped, NextStep, SliceEnds, Cut, CutPower, machine, history, driver
<1>11. CASE Reset
    BY <1>11 DEF RInv, Wiped, Reset, AskReset, Remember, machine, history, driver
<1>12. CASE Unhandled
    BY <1>12 DEF RInv, Wiped, Unhandled, ShutDown, Remember, machine, history, driver
<1>13. ASSUME NEW s \in Statuses, Exit(s) PROVE Wiped'
    BY <1>13 DEF RInv, Wiped, Exit, ShutDown, Remember, machine, history, driver
<1>14. ASSUME NEW t \in Terminals, Terminal(t) PROVE Wiped'
    BY <1>14 DEF RInv, Wiped, Terminal, Work, machine, history, driver
<1>15. ASSUME NEW p \in Programs, NEW e \in Environments \cup {Unset}, LoadAndRun(p, e) PROVE Wiped'
    BY <1>15 DEF RInv, Wiped, LoadAndRun, RequestLoad, Remember, machine, history, driver
<1>16. CASE UNCHANGED runVars
    BY <1>16 DEF RInv, Wiped, runVars, vars, machine, history, driver
<1> QED
    BY <1>1, <1>2, <1>3, <1>4, <1>5, <1>6, <1>7, <1>8, <1>9, <1>10, <1>11, <1>12, <1>13, <1>14, <1>15, <1>16 DEF RunnerNext, Loop, Slice, RestartStep, Restart

(* Only the start of a slice comes between a restart and the program. *)
LEMMA FreshStep ==
    ASSUME RInv, [RunnerNext]_runVars PROVE Fresh'
<1>1. CASE Begin \/ Pump \/ Quit
    BY <1>1 DEF RInv, Fresh, Begin, Pump, Quit, machine, history, driver
<1>2. CASE Top
    BY <1>2 DEF RInv, Fresh, Top, machine, history, driver
<1>3. CASE Resume
    BY <1>3 DEF RInv, Fresh, Resume, machine, history, driver
<1>4. CASE EndRun
    BY <1>4 DEF RInv, Fresh, EndRun, machine, history, driver
<1>5. CASE GoBack
    BY <1>5 DEF RInv, Fresh, GoBack, Over, ShellArguments, machine, history, driver
<1>6. CASE RestartStep /\ Exchange
    BY <1>6 DEF RInv, Fresh, RestartStep, Exchange, machine, history, driver
<1>7. CASE RestartStep /\ TakePending
    BY <1>7 DEF RInv, Fresh, RestartStep, TakePending, machine, history, driver
<1>8. CASE RestartStep /\ Load
    BY <1>8 DEF RInv, Fresh, RestartStep, Load, machine, history, driver
<1>9. CASE RestartStep /\ (ClearInterrupts \/ ResetDevices \/ PowerOn)
    BY <1>9 DEF RInv, Fresh, RestartStep, ClearInterrupts, ResetDevices, PowerOn, machine, history, driver
<1>10. CASE NextStep \/ SliceEnds \/ Cut
    BY <1>10 DEF RInv, Fresh, NextStep, SliceEnds, Cut, CutPower, machine, history, driver
<1>11. CASE Reset
    BY <1>11 DEF RInv, Fresh, Reset, AskReset, Remember, machine, history, driver
<1>12. CASE Unhandled
    BY <1>12 DEF RInv, Fresh, Unhandled, ShutDown, Remember, machine, history, driver
<1>13. ASSUME NEW s \in Statuses, Exit(s) PROVE Fresh'
    BY <1>13 DEF RInv, Fresh, Exit, ShutDown, Remember, machine, history, driver
<1>14. ASSUME NEW t \in Terminals, Terminal(t) PROVE Fresh'
    BY <1>14 DEF RInv, Fresh, Terminal, Work, machine, history, driver
<1>15. ASSUME NEW p \in Programs, NEW e \in Environments \cup {Unset}, LoadAndRun(p, e) PROVE Fresh'
    BY <1>15 DEF RInv, Fresh, LoadAndRun, RequestLoad, Remember, machine, history, driver
<1>16. CASE UNCHANGED runVars
    BY <1>16 DEF RInv, Fresh, runVars, vars, machine, history, driver
<1> QED
    BY <1>1, <1>2, <1>3, <1>4, <1>5, <1>6, <1>7, <1>8, <1>9, <1>10, <1>11, <1>12, <1>13, <1>14, <1>15, <1>16 DEF RunnerNext, Loop, Slice, RestartStep, Restart

(* Every step keeps what the shell is told. *)
LEMMA ShellIsToldStep ==
    ASSUME RInv, [RunnerNext]_runVars PROVE ShellIsTold'
<1>1. CASE Begin \/ Pump \/ Quit
    BY <1>1 DEF RInv, ShellIsTold, Fresh, Powered, Begin, Pump, Quit, machine, history, driver
<1>2. CASE Top
    BY <1>2 DEF RInv, ShellIsTold, Fresh, Powered, Top, machine, history, driver
<1>3. CASE Resume
    <2>1. UNCHANGED <<program, image, why, last>>
        BY <1>3 DEF Resume, machine
    <2>2. image.arguments = arguments
        BY <1>3 DEF RInv, Placed, Resume
    <2>3. why = "end" => /\ program = Shell /\ last.program # Shell
                         /\ arguments = ArgumentsOf(Shell, last.env, last.status)
        BY <1>3 DEF RInv, GoesToShell, Restarts, Resume
    <2> QED
        BY <2>1, <2>2, <2>3 DEF ShellIsTold
<1>4. CASE EndRun
    BY <1>4 DEF RInv, ShellIsTold, Fresh, Powered, EndRun, machine, history, driver
<1>5. CASE GoBack
    BY <1>5 DEF RInv, ShellIsTold, Fresh, Powered, GoBack, Over, ShellArguments, machine, history, driver
<1>6. CASE RestartStep /\ Exchange
    BY <1>6 DEF RInv, ShellIsTold, Fresh, Powered, RestartStep, Exchange, machine, history, driver
<1>7. CASE RestartStep /\ TakePending
    BY <1>7 DEF RInv, ShellIsTold, Fresh, Powered, RestartStep, TakePending, machine, history, driver
<1>8. CASE RestartStep /\ Load
    BY <1>8 DEF RInv, ShellIsTold, Fresh, Powered, RestartStep, Load, machine, history, driver
<1>9. CASE RestartStep /\ (ClearInterrupts \/ ResetDevices \/ PowerOn)
    BY <1>9 DEF RInv, ShellIsTold, Fresh, Powered, RestartStep, ClearInterrupts, ResetDevices, PowerOn, machine, history, driver
<1>10. CASE NextStep \/ SliceEnds \/ Cut
    BY <1>10 DEF RInv, ShellIsTold, Fresh, Powered, NextStep, SliceEnds, Cut, CutPower, machine, history, driver
<1>11. CASE Reset
    BY <1>11 DEF RInv, ShellIsTold, Fresh, Powered, Reset, AskReset, Remember, machine, history, driver
<1>12. CASE Unhandled
    BY <1>12 DEF RInv, ShellIsTold, Fresh, Powered, Unhandled, ShutDown, Remember, machine, history, driver
<1>13. ASSUME NEW s \in Statuses, Exit(s) PROVE ShellIsTold'
    BY <1>13 DEF RInv, ShellIsTold, Fresh, Powered, Exit, ShutDown, Remember, machine, history, driver
<1>14. ASSUME NEW t \in Terminals, Terminal(t) PROVE ShellIsTold'
    BY <1>14 DEF RInv, ShellIsTold, Fresh, Powered, Terminal, Work, machine, history, driver
<1>15. ASSUME NEW p \in Programs, NEW e \in Environments \cup {Unset}, LoadAndRun(p, e) PROVE ShellIsTold'
    BY <1>15 DEF RInv, ShellIsTold, Fresh, Powered, LoadAndRun, RequestLoad, Remember, machine, history, driver
<1>16. CASE UNCHANGED runVars
    BY <1>16 DEF RInv, ShellIsTold, Fresh, Powered, runVars, vars, machine, history, driver
<1> QED
    BY <1>1, <1>2, <1>3, <1>4, <1>5, <1>6, <1>7, <1>8, <1>9, <1>10, <1>11, <1>12, <1>13, <1>14, <1>15, <1>16 DEF RunnerNext, Loop, Slice, RestartStep, Restart

(* Every step keeps the terminal the next program finds. *)
LEMMA TerminalCarriedOverStep ==
    ASSUME RInv, [RunnerNext]_runVars PROVE TerminalCarriedOver'
<1>1. CASE Begin \/ Pump \/ Quit
    BY <1>1 DEF RInv, TerminalCarriedOver, Fresh, Powered, Begin, Pump, Quit, machine, history, driver
<1>2. CASE Top
    BY <1>2 DEF RInv, TerminalCarriedOver, Fresh, Powered, Top, machine, history, driver
<1>3. CASE Resume
    <2>1. /\ why \in {"reset", "load", "end"} /\ terminal = Blank
          /\ session = IF why = "reset" THEN NoSession ELSE Reported(last)
        BY <1>3 DEF RInv, Resume, KeepsSession, Restarts, Wiped
    <2>2. /\ UNCHANGED <<why, last>>
          /\ terminal' = IF session = NoSession THEN terminal ELSE Restored(terminal, session)
        BY <1>3 DEF Resume
    <2>3. RunnerTypeOK
        BY DEF RInv
    <2>4. CASE why = "reset"
        BY <2>1, <2>2, <2>4 DEF TerminalCarriedOver
    <2>5. CASE why # "reset"
        <3>1. Reported(last) \in Terminals
            BY <2>3, ReportedFields
        <3>2. session = Reported(last) /\ session # NoSession
            BY <2>1, <2>5, <3>1, SessionAssumption
        <3>3. Blank \in Terminals /\ Blank.plain = TRUE /\ Blank.screen = None
            BY DEF Blank, Terminals
        <3>4. terminal' = Restored(Blank, Reported(last))
            BY <2>1, <2>2, <3>2
        <3>5. /\ terminal'.plain = TRUE
              /\ terminal'.history = Reported(last).history
              /\ terminal'.screen = IF Reported(last).plain = TRUE THEN Reported(last).screen ELSE None
            BY <3>1, <3>3, <3>4, RestoredFields
        <3>6. last.terminal.plain \in BOOLEAN
            BY <2>3, ReportedFields DEF Terminals
        <3> QED
            BY <2>2, <2>3, <2>5, <3>5, <3>6, ReportedFields DEF TerminalCarriedOver
    <2> QED
        BY <2>4, <2>5
<1>4. CASE EndRun
    BY <1>4 DEF RInv, TerminalCarriedOver, Fresh, Powered, EndRun, machine, history, driver
<1>5. CASE GoBack
    BY <1>5 DEF RInv, TerminalCarriedOver, Fresh, Powered, GoBack, Over, ShellArguments, machine, history, driver
<1>6. CASE RestartStep /\ Exchange
    BY <1>6 DEF RInv, TerminalCarriedOver, Fresh, Powered, RestartStep, Exchange, machine, history, driver
<1>7. CASE RestartStep /\ TakePending
    BY <1>7 DEF RInv, TerminalCarriedOver, Fresh, Powered, RestartStep, TakePending, machine, history, driver
<1>8. CASE RestartStep /\ Load
    BY <1>8 DEF RInv, TerminalCarriedOver, Fresh, Powered, RestartStep, Load, machine, history, driver
<1>9. CASE RestartStep /\ (ClearInterrupts \/ ResetDevices \/ PowerOn)
    BY <1>9 DEF RInv, TerminalCarriedOver, Fresh, Powered, RestartStep, ClearInterrupts, ResetDevices, PowerOn, machine, history, driver
<1>10. CASE NextStep \/ SliceEnds \/ Cut
    BY <1>10 DEF RInv, TerminalCarriedOver, Fresh, Powered, NextStep, SliceEnds, Cut, CutPower, machine, history, driver
<1>11. CASE Reset
    BY <1>11 DEF RInv, TerminalCarriedOver, Fresh, Powered, Reset, AskReset, Remember, machine, history, driver
<1>12. CASE Unhandled
    BY <1>12 DEF RInv, TerminalCarriedOver, Fresh, Powered, Unhandled, ShutDown, Remember, machine, history, driver
<1>13. ASSUME NEW s \in Statuses, Exit(s) PROVE TerminalCarriedOver'
    BY <1>13 DEF RInv, TerminalCarriedOver, Fresh, Powered, Exit, ShutDown, Remember, machine, history, driver
<1>14. ASSUME NEW t \in Terminals, Terminal(t) PROVE TerminalCarriedOver'
    BY <1>14 DEF RInv, TerminalCarriedOver, Fresh, Powered, Terminal, Work, machine, history, driver
<1>15. ASSUME NEW p \in Programs, NEW e \in Environments \cup {Unset}, LoadAndRun(p, e) PROVE TerminalCarriedOver'
    BY <1>15 DEF RInv, TerminalCarriedOver, Fresh, Powered, LoadAndRun, RequestLoad, Remember, machine, history, driver
<1>16. CASE UNCHANGED runVars
    BY <1>16 DEF RInv, TerminalCarriedOver, Fresh, Powered, runVars, vars, machine, history, driver
<1> QED
    BY <1>1, <1>2, <1>3, <1>4, <1>5, <1>6, <1>7, <1>8, <1>9, <1>10, <1>11, <1>12, <1>13, <1>14, <1>15, <1>16 DEF RunnerNext, Loop, Slice, RestartStep, Restart

(* Every step that ends the run ends it with the shell. *)
LEMMA RunEndsWithShellStep ==
    ASSUME RInv, [RunnerNext]_runVars PROVE RunEndsWithShell'
<1>1. CASE Begin \/ Pump \/ Quit
    BY <1>1 DEF RInv, RunEndsWithShell, Begin, Pump, Quit, machine, history, driver
<1>2. CASE Top
    BY <1>2 DEF RInv, RunEndsWithShell, Top, machine, history, driver
<1>3. CASE Resume
    BY <1>3 DEF RInv, RunEndsWithShell, Resume, machine, history, driver
<1>4. CASE EndRun
    <2>1. /\ why = "end" /\ last.program = program
          /\ last.env = arguments.env /\ last.status = exitStatus
          /\ Over <=> Shell = None \/ Shell = program
        BY <1>4, Ended DEF EndRun
    <2>2. at' = "ended" /\ UNCHANGED <<program, hostQuit, why, last>>
        BY <1>4 DEF EndRun, machine
    <2>3. Over \/ ArgumentsOf(Shell, last.env, last.status) \notin Fits[Shell]
        BY <1>4, <2>1 DEF EndRun, ShellArguments
    <2> QED
        BY <2>1, <2>2, <2>3 DEF RunEndsWithShell
<1>5. CASE GoBack
    BY <1>5 DEF RInv, RunEndsWithShell, GoBack, Over, ShellArguments, machine, history, driver
<1>6. CASE RestartStep /\ Exchange
    BY <1>6 DEF RInv, RunEndsWithShell, RestartStep, Exchange, machine, history, driver
<1>7. CASE RestartStep /\ TakePending
    BY <1>7 DEF RInv, RunEndsWithShell, RestartStep, TakePending, machine, history, driver
<1>8. CASE RestartStep /\ Load
    BY <1>8 DEF RInv, RunEndsWithShell, RestartStep, Load, machine, history, driver
<1>9. CASE RestartStep /\ (ClearInterrupts \/ ResetDevices \/ PowerOn)
    BY <1>9 DEF RInv, RunEndsWithShell, RestartStep, ClearInterrupts, ResetDevices, PowerOn, machine, history, driver
<1>10. CASE NextStep \/ SliceEnds \/ Cut
    BY <1>10 DEF RInv, RunEndsWithShell, NextStep, SliceEnds, Cut, CutPower, machine, history, driver
<1>11. CASE Reset
    BY <1>11 DEF RInv, RunEndsWithShell, Reset, AskReset, Remember, machine, history, driver
<1>12. CASE Unhandled
    BY <1>12 DEF RInv, RunEndsWithShell, Unhandled, ShutDown, Remember, machine, history, driver
<1>13. ASSUME NEW s \in Statuses, Exit(s) PROVE RunEndsWithShell'
    BY <1>13 DEF RInv, RunEndsWithShell, Exit, ShutDown, Remember, machine, history, driver
<1>14. ASSUME NEW t \in Terminals, Terminal(t) PROVE RunEndsWithShell'
    BY <1>14 DEF RInv, RunEndsWithShell, Terminal, Work, machine, history, driver
<1>15. ASSUME NEW p \in Programs, NEW e \in Environments \cup {Unset}, LoadAndRun(p, e) PROVE RunEndsWithShell'
    BY <1>15 DEF RInv, RunEndsWithShell, LoadAndRun, RequestLoad, Remember, machine, history, driver
<1>16. CASE UNCHANGED runVars
    BY <1>16 DEF RInv, RunEndsWithShell, runVars, vars, machine, history, driver
<1> QED
    BY <1>1, <1>2, <1>3, <1>4, <1>5, <1>6, <1>7, <1>8, <1>9, <1>10, <1>11, <1>12, <1>13, <1>14, <1>15, <1>16 DEF RunnerNext, Loop, Slice, RestartStep, Restart

(* The loop begins with everything the strengthening asks. *)
LEMMA RunnerInitHolds == RunnerInit => RInv
<1> SUFFICES ASSUME RunnerInit PROVE RInv
    OBVIOUS
<1>1. FirstArguments \in Arguments /\ First \in Programs /\ FirstArguments.env \in Environments
    BY ConstantsAssumption, RunnerAssumption
<1>2. Blank \in Terminals
    BY DEF Blank, Terminals
<1>3. Holds
    BY <1>1 DEF RunnerInit, Init, Holds
<1>4. RunnerTypeOK
    BY <1>1, <1>2 DEF RunnerInit, Init, RunnerTypeOK, RunnerPlaces, Places, Reasons
<1>5. Pairs /\ Placed
    BY ConstantsAssumption DEF RunnerInit, Init, Pairs, Placed
<1>6. Powered /\ Waits /\ KnowsShell
    BY DEF RunnerInit, Init, Powered, Waits, KnowsShell
<1>7. AfterEnd /\ AfterAsk /\ KeepsSession /\ GoesToShell
    BY DEF RunnerInit, Init, AfterEnd, AfterAsk, KeepsSession, GoesToShell, HasEnded, HasAsked,
           Looked, Taking, Restarts
<1>8. NotFaulted /\ Wiped /\ Fresh
    BY DEF RunnerInit, Init, NotFaulted, Wiped, Fresh
<1>9. ShellIsTold /\ TerminalCarriedOver /\ RunEndsWithShell
    BY DEF RunnerInit, Init, ShellIsTold, TerminalCarriedOver, RunEndsWithShell
<1> QED
    BY <1>3, <1>4, <1>5, <1>6, <1>7, <1>8, <1>9 DEF RInv

(* The strengthening holds in every state of the loop (the trunk of the     *)
(* proofs below, of machine_runner.cpp around restartIfRequested()).        *)
THEOREM RunnerInductive == RunnerSpec => []RInv
<1>1. RunnerInit => RInv
    BY RunnerInitHolds
<1>2. RInv /\ [RunnerNext]_runVars => RInv'
    BY HoldsStep, RunnerTypeStep, RunnerPairsStep, RunnerPlacedStep, PoweredStep, WaitsStep,
       KnowsShellStep, AfterEndStep, AfterAskStep, KeepsSessionStep, GoesToShellStep, NotFaultedStep,
       WipedStep, FreshStep, ShellIsToldStep, TerminalCarriedOverStep, RunEndsWithShellStep DEF RInv
<1> QED
    BY <1>1, <1>2, PTL DEF RunnerSpec

(* The shell comes back as if it had called the program: with the status    *)
(* and the environment of the program that ended, and the terminal it left. *)
THEOREM ShellComesBack == RunnerSpec => []ShellResumes
<1>1. RInv => ShellResumes
    BY DEF RInv, ShellResumes
<1> QED
    BY <1>1, RunnerInductive, PTL

(* Only the shell's own end, or a shell that does not fit, ends a run the   *)
(* host did not end.                                                        *)
THEOREM RunEndsRight == RunnerSpec => []RunEndsWithShell
<1>1. RInv => RunEndsWithShell
    BY DEF RInv
<1> QED
    BY <1>1, RunnerInductive, PTL
=============================================================================
