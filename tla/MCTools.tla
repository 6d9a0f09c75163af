------------------------------- MODULE MCTools -------------------------------
(* The programmer's side of the system: the tools that make a program and the *)
(* debugger that runs one.  A behaviour is of one of the two.                 *)
EXTENDS MCToolchain, MCDebugServer

VARIABLE debugging   \* the behaviour is the debugger's

ToolsVars == <<debugging, ToolVars, debugVars>>
ToolsIdle == AssemblerIdle /\ EncodingIdle /\ ObjectIdle /\ FormatsIdle /\ TablesIdle
ToolsInit ==
  /\ DebugInit
  /\ \/ debugging = TRUE /\ ToolsIdle
     \/ debugging = FALSE /\ ToolInit
ToolsNext ==
  /\ UNCHANGED debugging
  /\ \/ debugging /\ DebugNext /\ UNCHANGED ToolVars
     \/ ~debugging /\ ToolNext /\ UNCHANGED debugVars
ToolsSpec == ToolsInit /\ [][ToolsNext]_ToolsVars
=============================================================================
