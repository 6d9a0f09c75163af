----------------------------- MODULE MCCeresVM -----------------------------
(***************************************************************************)
(* CeresVM on a small machine: two programs, two sets of arguments (one    *)
(* does not fit the larger program), a vector with a default handler and   *)
(* one without, which only the first program binds.                        *)
(***************************************************************************)
EXTENDS CeresVM

MCPrograms == {"app", "shell"}
MCArguments == {"few", "many"}
MCFits == [p \in MCPrograms |-> IF p = "app" THEN MCArguments ELSE {"few"}]
MCVectors == {"Trap", "User5"}
MCDefaultVectors == {"Trap"}
MCBinds == [p \in MCPrograms |-> IF p = "app" THEN MCVectors ELSE {}]

=============================================================================
