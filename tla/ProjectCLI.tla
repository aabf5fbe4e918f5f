----------------------------- MODULE ProjectCLI -----------------------------
(***************************************************************************)
(* A project's life under the gortexa command: `create` makes it, and      *)
(* `gen` and `regen` are run in what create reported as created.           *)
(***************************************************************************)
EXTENDS ProjectCreate, ProjectGen

cliVars == <<createVars, genVars>>

Init == CreateInit /\ GenInit

\* When the user runs gen.  gen itself asks for no more than a go.mod; here it is run
\* in what a create has reported as created, with no create under way.
InProject ==
  /\ \A c \in Creators : at[c] = Over
  /\ \E c \in Creators : outcome[c] = "created"

Next ==
  \/ (UserMakes \/ UserFills \/ \E c \in Creators : CreateStep(c)) /\ UNCHANGED genVars
  \/ InProject /\ GenStep /\ UNCHANGED createVars

Spec == Init /\ [][Next]_cliVars

TypeOK == CreateTypeOK /\ GenTypeOK
=============================================================================
