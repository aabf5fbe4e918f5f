---------------------------- MODULE ProjectCreate ----------------------------
(***************************************************************************)
(* `gortexa create` (cmd/gortexa/internal/cli/create.go): clone the layout *)
(* into a directory that must not exist, turn the clone into a project     *)
(* step by step, and remove it again when a step fails.  Several commands  *)
(* may be given the same directory, and each may be killed at any point.   *)
(* git, go and gofmt are modelled from how create uses them.               *)
(***************************************************************************)
EXTENDS Integers, Sequences

CONSTANTS Creators, User, Absent

VARIABLES
  tree,     \* the directory: Absent, or [by, has, made]: whose it is, what is in it,
            \* what create has done to it
  at,       \* each command: Stat, AtClone, the number of its next step, or Over
  outcome,  \* "none", "created", "refused", "killed", "failed", or "leftover": failed,
            \* and the directory could not be removed
  filled    \* history: the user has put files into a directory of their own

createVars == <<tree, at, outcome, filled>>

\* The parts of the layout; the sources are what a project keeps of it.
Layout == {"git_history", "framework_files", "gen", "api", "sources"}

\* What createProject does to the clone, in this order.
Steps == <<"drop_git", "prune_framework", "tidy", "prune_generated", "rewrite_module",
           "namespace_sample", "gofmt", "manifest", "drop_replace", "readme", "git_init">>

Stat == -1
AtClone == 0
Over == Len(Steps) + 1

\* Steps whose failure only prints a warning.
Optional == {"tidy", "gofmt", "git_init"}

Required == {Steps[i] : i \in 1..Len(Steps)} \ Optional

\* What a directory can be, other than Absent.
Trees ==
  [by : Creators \cup {User}, has : SUBSET (Layout \cup {"user_files"}),
   made : SUBSET ({Steps[i] : i \in 1..Len(Steps)} \cup {"spoilt"})]

ASSUME CreateAssumption == Absent \notin Trees /\ User \notin Creators

CreateInit ==
  /\ tree = Absent
  /\ at = [c \in Creators |-> Stat]
  /\ outcome = [c \in Creators |-> "none"]
  /\ filled = FALSE

Goto(c, place) == at' = [at EXCEPT ![c] = place]
Finish(c, result) == Goto(c, Over) /\ outcome' = [outcome EXCEPT ![c] = result]

\* Somebody else makes the directory ...
UserMakes ==
  /\ tree = Absent
  /\ tree' = [by |-> User, has |-> {}, made |-> {}]
  /\ UNCHANGED <<at, outcome, filled>>

\* ... and puts something into it, unless it is by then a clone.
UserFills ==
  /\ tree # Absent /\ tree.by = User
  /\ tree' = [tree EXCEPT !.has = {"user_files"}]
  /\ filled' = TRUE
  /\ UNCHANGED <<at, outcome>>

\* The arguments are valid; the destination must not exist.
StatDest(c) ==
  /\ at[c] = Stat
  /\ IF tree = Absent THEN Goto(c, AtClone) /\ UNCHANGED outcome ELSE Finish(c, "refused")
  /\ UNCHANGED <<tree, filled>>

\* git clone makes the directory, or takes an empty one that has been made since ...
Clone(c) ==
  /\ at[c] = AtClone
  /\ tree # Absent => tree.has = {}
  /\ tree' = [by |-> c, has |-> Layout, made |-> {}]
  /\ Goto(c, 1)
  /\ UNCHANGED <<outcome, filled>>

\* Faulty variant: the cleanup covers the clone too.
CloneFails_Cleanup(c) ==
  /\ at[c] = AtClone
  /\ tree' = Absent
  /\ Finish(c, "failed")
  /\ UNCHANGED filled

\* ... and fails on one that is not empty, or for reasons of its own, and then leaves
\* what it found.
CloneFails(c) ==
  /\ at[c] = AtClone
  /\ Finish(c, "failed")
  /\ UNCHANGED <<tree, filled>>

Pruned(step) ==
  CASE step = "drop_git" -> {"git_history"}
    [] step = "prune_framework" -> {"framework_files"}
    [] step = "prune_generated" -> {"gen", "api"}
    [] OTHER -> {}

\* Rewriting text inside generated descriptors or the framework's own files
\* corrupts them.
Spoils(step, t) ==
  step \in {"rewrite_module", "namespace_sample"} /\ t.has \cap {"framework_files", "gen"} # {}

Apply(step, t) ==
  [t EXCEPT !.has = @ \ Pruned(step),
            !.made = @ \cup ({step} \ Optional) \cup (IF Spoils(step, t) THEN {"spoilt"} ELSE {})]

AtStep(c) == at[c] \in 1..Len(Steps)
Onwards(c) ==
  IF at[c] = Len(Steps) THEN Finish(c, "created")
  ELSE Goto(c, at[c] + 1) /\ UNCHANGED outcome

Step(c) ==
  /\ AtStep(c) /\ tree # Absent
  /\ tree' = Apply(Steps[at[c]], tree)
  /\ Onwards(c)
  /\ UNCHANGED filled

StepWarns(c) ==
  /\ AtStep(c) /\ Steps[at[c]] \in Optional
  /\ Onwards(c)
  /\ UNCHANGED <<tree, filled>>

\* cleanup: os.RemoveAll, so that a retry finds no directory.  Its error is dropped:
\* anything may then be left.
StepFails(c) ==
  /\ AtStep(c) /\ Steps[at[c]] \notin Optional /\ tree # Absent
  /\ \/ tree' = Absent /\ Finish(c, "failed")
     \/ \E left \in SUBSET tree.has :
          tree' = [tree EXCEPT !.has = left] /\ Finish(c, "leftover")
  /\ UNCHANGED filled

\* The process is killed; nothing cleans up after it.
Kill(c) ==
  /\ at[c] # Over
  /\ Finish(c, "killed")
  /\ UNCHANGED <<tree, filled>>

CreateStep(c) ==
  StatDest(c) \/ Clone(c) \/ CloneFails(c) \/ Step(c) \/ StepWarns(c) \/ StepFails(c) \/ Kill(c)

-----------------------------------------------------------------------------
CreateTypeOK ==
  /\ tree = Absent \/ tree \in Trees
  /\ at \in [Creators -> Stat..Over]
  /\ outcome \in [Creators -> {"none", "created", "failed", "leftover", "refused", "killed"}]
  /\ filled \in BOOLEAN

\* create is all or nothing, also when another one or the user gets in between its
\* look at the destination and its clone: success means a whole project that
\* nobody else has touched, failure that nothing of its own blocks a retry (unless it
\* could not be removed), and files that the user put there first are still there.
CreateWhole ==
  /\ \A c \in Creators :
       /\ outcome[c] = "created" =>
            /\ tree # Absent /\ tree.by = c /\ tree.has = {"sources"}
            /\ Required \subseteq tree.made /\ "spoilt" \notin tree.made
       /\ outcome[c] = "failed" => tree = Absent \/ tree.by # c
  /\ filled => tree # Absent /\ tree.has = {"user_files"}
=============================================================================
