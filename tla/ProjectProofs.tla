---------------------------- MODULE ProjectProofs ----------------------------
(***************************************************************************)
(* Proofs about the gortexa command, for any number of concurrent creates  *)
(* and any services, packages and entities, and about the paged listing of *)
(* the sample service, for any ids, owners, page sizes and walkers.        *)
(***************************************************************************)
EXTENDS ProjectCLI, ResourceService, FiniteSetTheorems, WellFoundedInduction, TLAPS

\* A leaf that names no prover is tried with Zenon, then with SMT.
USE ZenonT(3), SMTT(30), ZenonT(20)

\* What the first k - 1 steps of create have done to the clone.
Progress(t, k) ==
  /\ t.has \subseteq Layout /\ "sources" \in t.has
  /\ k > 1 => "git_history" \notin t.has
  /\ k > 2 => "framework_files" \notin t.has
  /\ k > 4 => "gen" \notin t.has /\ "api" \notin t.has
  /\ \A i \in 1..Len(Steps) : i < k /\ Steps[i] \notin Optional => Steps[i] \in t.made
  /\ "spoilt" \notin t.made

\* A command past its clone has the directory to itself, and one before it has
\* nothing in it.
CreateOK(c) ==
  /\ AtStep(c) => tree # Absent /\ tree.by = c /\ Progress(tree, at[c])
  /\ outcome[c] = "created" => tree # Absent /\ tree.by = c /\ Progress(tree, Over)
  /\ tree # Absent /\ tree.by = c => at[c] \in 1..Over
  /\ outcome[c] = "failed" => tree = Absent \/ tree.by # c
  /\ outcome[c] # "none" => at[c] = Over

\* The types of create's state.
TreeTyped ==
  /\ tree = Absent \/ tree \in Trees
  /\ at \in [Creators -> Int]
  /\ outcome \in [Creators -> {"none", "created", "failed", "leftover", "refused", "killed"}]

\* A directory with files of the user's is nobody else's.
UsersOwn == filled => tree # Absent /\ tree.by = User /\ tree.has = {"user_files"}

CreateInv == TreeTyped /\ UsersOwn /\ \A c \in Creators : CreateOK(c)

\* ls registers only services whose files are their own.
Backed(ls) ==
  \A s \in Services : ls[Line(s, "register")] > 0 /\ Entity[s] \notin forced =>
    proto[s] = s /\ logic[Entity[s]] = s

\* The stages of a command, and those in which it writes its two files.
Stage == {"idle", "proto", "proto_text", "logic", "logic_text", "wire", "wire_text", "regen", "ready"}
Writing == {"proto", "proto_text", "logic", "logic_text"}

\* The types of gen's state.
GenTyped ==
  /\ proto \in [Services -> Services \cup {None, Torn}]
  /\ logic \in [Entities -> Services \cup {None, Torn}]
  /\ marker \subseteq Markers /\ lines \in [AllLines -> Nat]
  /\ src.lines \in [AllLines -> Nat] /\ src.marker \subseteq Markers
  /\ opt \in Flags /\ stage \in Stage
  /\ stage # "idle" => cur \in Services

\* How far the running command is, and what it has left to do.
Command ==
  /\ opt.force /\ stage # "idle" => Entity[cur] \in forced
  /\ stage = "proto" /\ ~opt.force => proto[cur] = None
  /\ stage \in {"proto", "proto_text", "logic"} /\ ~opt.force => logic[Entity[cur]] = None
  /\ stage \in Stage \ {"idle", "proto", "proto_text"} => proto[cur] = cur
  /\ stage \in {"wire", "wire_text", "regen", "ready"} => logic[Entity[cur]] = cur
  /\ stage \in Writing /\ Entity[cur] \notin forced =>
       \A s \in Services : Entity[s] = Entity[cur] => lines[Line(s, "register")] = 0

\* main.go, and its new text while it is being written.
MainGo ==
  /\ stage \in Writing \cup {"wire"} /\ ~opt.noWire => Insertable(cur)
  /\ stage \in {"wire", "wire_text"} => ~opt.noWire
  /\ \A l \in AllLines : lines[l] <= 1 /\ src.lines[l] <= 1
  /\ stage # "wire_text" => src = NoSrc
  /\ stage = "wire_text" => \A m \in Markers : src.lines[Line(cur, m)] = 1
  /\ stage \in {"regen", "ready"} => opt.noWire \/ \A m \in Markers : lines[Line(cur, m)] = 1
  /\ stage = "ready" => opt.skipGen \/ gen
  /\ Backed(lines) /\ Backed(src.lines)

GenInv == GenTyped /\ Command /\ MainGo

CLIInv == CreateInv /\ GenInv
-----------------------------------------------------------------------------
\* create.

\* The steps by number.
LEMMA StepNames ==
  /\ Len(Steps) = 11 /\ Over = 12 /\ AtClone = 0
  /\ Steps[1] = "drop_git" /\ Steps[2] = "prune_framework" /\ Steps[3] = "tidy"
  /\ Steps[4] = "prune_generated" /\ Steps[5] = "rewrite_module"
  /\ Steps[6] = "namespace_sample" /\ Steps[7] = "gofmt" /\ Steps[8] = "manifest"
  /\ Steps[9] = "drop_replace" /\ Steps[10] = "readme" /\ Steps[11] = "git_init"
BY DEF Steps, Over, AtClone

\* Nothing is created yet.
LEMMA InitCreate == CreateInit => CreateInv
BY StepNames DEF Stat, CreateInit, CreateInv, TreeTyped, UsersOwn, CreateOK, AtStep

\* A step does its part and spoils nothing: pruning comes before rewriting.
LEMMA ApplyProgress ==
  ASSUME NEW k \in 1..11, NEW t \in Trees,
         Progress(t, k)
  PROVE  /\ Apply(Steps[k], t) \in Trees
         /\ Apply(Steps[k], t).by = t.by
         /\ Progress(Apply(Steps[k], t), k + 1)
<1> DEFINE u == Apply(Steps[k], t)
<1>1. ~Spoils(Steps[k], t)
  BY StepNames DEF Spoils, Progress
<1>2. /\ u.by = t.by /\ u.has = t.has \ Pruned(Steps[k])
      /\ u.made = t.made \cup ({Steps[k]} \ Optional)
      /\ u \in Trees
  BY <1>1, StepNames, ZenonT(20) DEF Apply, Trees
<1>3. /\ u.has \subseteq Layout /\ "sources" \in u.has /\ "spoilt" \notin u.made
  BY <1>2, StepNames DEF Progress, Pruned
<1>4. \A i \in 1..Len(Steps) : i < k + 1 /\ Steps[i] \notin Optional => Steps[i] \in u.made
  <2> SUFFICES ASSUME NEW i \in 1..Len(Steps), i < k + 1, Steps[i] \notin Optional
               PROVE  Steps[i] \in u.made
    OBVIOUS
  <2>1. i = k \/ i < k
    BY StepNames
  <2> QED BY <1>2, <2>1 DEF Progress
<1>5. /\ k + 1 > 1 => "git_history" \notin u.has
      /\ k + 1 > 2 => "framework_files" \notin u.has
      /\ k + 1 > 4 => "gen" \notin u.has /\ "api" \notin u.has
  BY <1>2, StepNames DEF Pruned, Progress
<1> QED BY <1>2, <1>3, <1>4, <1>5 DEF Progress

\* A step whose failure only prints a warning may be left out.
LEMMA SkipProgress ==
  ASSUME NEW k \in 1..11, NEW t, Progress(t, k), Steps[k] \in Optional
  PROVE  Progress(t, k + 1)
<1>1. k \in {3, 7, 11}
  BY StepNames DEF Optional
<1>2. \A i \in 1..Len(Steps) : i < k + 1 /\ Steps[i] \notin Optional => i < k
  BY StepNames
<1> QED BY <1>1, <1>2 DEF Progress

\* The directory stays whose it is and as it is; so do those who work in it.
LEMMA OnwardsInv ==
  ASSUME CreateInv, NEW c \in Creators, AtStep(c), Onwards(c),
         tree' # Absent, tree'.by = c, Progress(tree', at[c] + 1),
         tree' \in Trees, filled' = filled
  PROVE  CreateInv'
<1> USE StepNames
<1>1. /\ TreeTyped /\ \A d \in Creators : CreateOK(d)
      /\ at[c] \in 1..11 /\ tree # Absent /\ tree.by = c /\ ~filled
  BY CreateAssumption DEF CreateInv, CreateOK, AtStep, UsersOwn
<1>2. /\ at' = [at EXCEPT ![c] = at[c] + 1]
      /\ outcome' = IF at[c] = 11 THEN [outcome EXCEPT ![c] = "created"] ELSE outcome
  BY <1>1 DEF Onwards, Finish, Goto
<1>3. TreeTyped'
  BY <1>1, <1>2 DEF TreeTyped
<1>4. ASSUME NEW d \in Creators \ {c} PROVE CreateOK(d)'
  <2>1. /\ at'[d] = at[d] /\ outcome'[d] = outcome[d] /\ CreateOK(d)
    BY <1>1, <1>2 DEF TreeTyped
  <2> QED BY <1>1, <2>1 DEF CreateOK, AtStep
<1>5. CreateOK(c)'
  <2>1. at'[c] = at[c] + 1 /\ (outcome'[c] = "created" => at'[c] = Over)
        /\ outcome[c] = "none" /\ outcome'[c] \in {"none", "created"}
    BY <1>1, <1>2 DEF TreeTyped, CreateOK
  <2> QED BY <1>1, <1>2, <2>1 DEF CreateOK, AtStep, TreeTyped
<1>6. UsersOwn'
  BY <1>1 DEF UsersOwn
<1> QED BY <1>3, <1>4, <1>5, <1>6 DEF CreateInv

\* A command that ends without a project leaves the directory alone, or removes
\* the one it had to itself, or as much of it as it can.
LEMMA FinishInv ==
  ASSUME CreateInv, NEW c \in Creators, NEW result \in {"failed", "leftover", "refused", "killed"},
         Finish(c, result), at[c] # Over, filled' = filled,
         \/ tree' = tree /\ (result = "failed" => ~AtStep(c))
         \/ tree' = Absent /\ AtStep(c)
         \/ tree' \in Trees /\ tree'.by = c /\ AtStep(c) /\ result = "leftover"
  PROVE  CreateInv'
<1> USE StepNames
<1>1. TreeTyped /\ UsersOwn /\ \A d \in Creators : CreateOK(d)
  BY DEF CreateInv
<1>2. /\ at' = [at EXCEPT ![c] = 12]
      /\ outcome' = [outcome EXCEPT ![c] = result]
  BY DEF Finish, Goto
<1>3. TreeTyped'
  BY <1>1, <1>2 DEF TreeTyped
<1>4. ASSUME NEW d \in Creators \ {c} PROVE CreateOK(d)'
  <2>1. at'[d] = at[d] /\ outcome'[d] = outcome[d] /\ CreateOK(d)
    BY <1>1, <1>2 DEF TreeTyped
  <2>2. CASE tree' = tree
    BY <2>1, <2>2 DEF CreateOK, AtStep
  <2>3. CASE AtStep(c) /\ (tree' = Absent \/ tree'.by = c)
    <3>1. tree.by = c /\ tree # Absent
      BY <1>1, <2>3 DEF CreateOK
    <3> QED BY <2>1, <2>3, <3>1 DEF CreateOK, AtStep
  <2> QED BY <2>2, <2>3
<1>5. CreateOK(c)'
  <2>1. at'[c] = 12 /\ outcome'[c] = result
    BY <1>1, <1>2 DEF TreeTyped
  <2>2. result = "failed" => tree' = Absent \/ tree'.by # c
    BY <1>1 DEF CreateOK, AtStep
  <2> QED BY <2>1, <2>2 DEF CreateOK, AtStep
<1>6. UsersOwn'
  <2>1. AtStep(c) => ~filled
    BY <1>1, CreateAssumption DEF CreateOK, UsersOwn
  <2> QED BY <1>1, <2>1 DEF UsersOwn
<1> QED BY <1>3, <1>4, <1>5, <1>6 DEF CreateInv

\* The look at the destination.
LEMMA StatInv ==
  ASSUME CreateInv, NEW c \in Creators, StatDest(c)
  PROVE  CreateInv'
<1> USE StepNames DEF Stat
<1>1. CASE tree = Absent
  <2>1. at' = [at EXCEPT ![c] = 0] /\ UNCHANGED <<outcome, tree, filled>> /\ at[c] = -1
    BY <1>1 DEF StatDest, Goto
  <2>2. TreeTyped'
    BY <2>1 DEF CreateInv, TreeTyped
  <2>3. ASSUME NEW d \in Creators PROVE CreateOK(d)'
    <3>1. CreateOK(d) /\ (d # c => at'[d] = at[d]) /\ at'[c] = 0
      BY <2>1 DEF CreateInv, TreeTyped
    <3> QED BY <1>1, <2>1, <3>1 DEF CreateOK, AtStep
  <2>4. UsersOwn'
    BY <2>1 DEF CreateInv, UsersOwn
  <2> QED BY <2>2, <2>3, <2>4 DEF CreateInv
<1>2. CASE tree # Absent
  BY <1>2, FinishInv DEF StatDest
<1> QED BY <1>1, <1>2

\* The directory appears: by git clone, or by the user's hand, which may fill it.
LEMMA AppearInv ==
  ASSUME CreateInv, UserMakes \/ UserFills \/ \E c \in Creators : Clone(c)
  PROVE  CreateInv'
<1> USE StepNames, CreateAssumption
<1>1. TreeTyped /\ UsersOwn /\ \A d \in Creators : CreateOK(d)
  BY DEF CreateInv
<1>2. CASE UserMakes \/ UserFills
  <2>1. /\ tree = Absent \/ tree.by = User
        /\ tree' # Absent /\ tree'.by = User /\ UNCHANGED <<at, outcome>> /\ tree' \in Trees
    BY <1>1, <1>2 DEF UserMakes, UserFills, Trees, TreeTyped
  <2>2. UsersOwn'
    <3>1. CASE UserMakes
      BY <1>1, <3>1 DEF UserMakes, UsersOwn
    <3>2. CASE UserFills
      <4>1. tree'.has = {"user_files"}
        BY <1>1, <3>2 DEF UserFills, TreeTyped, Trees
      <4> QED BY <2>1, <4>1 DEF UsersOwn
    <3> QED BY <1>2, <3>1, <3>2
  <2> QED BY <1>1, <2>1, <2>2 DEF CreateInv, TreeTyped, CreateOK, AtStep
<1>3. ASSUME NEW c \in Creators, Clone(c) PROVE CreateInv'
  <2>1. /\ tree' # Absent /\ tree'.by = c /\ tree'.has = Layout /\ tree'.made = {}
        /\ tree' \in Trees /\ at[c] = 0 /\ at' = [at EXCEPT ![c] = 1] /\ outcome' = outcome
    BY <1>3 DEF Clone, Goto, Trees
  <2>5. /\ tree # Absent => tree.has = {}
        /\ \A k : tree # Absent => ~Progress(tree, k)
        /\ UsersOwn'
    BY <1>1, <1>3 DEF Clone, Progress, UsersOwn
  <2>2. TreeTyped'
    BY <1>1, <2>1 DEF TreeTyped
  <2>3. Progress(tree', 1)
    BY <2>1 DEF Progress, Layout
  <2>4. ASSUME NEW d \in Creators PROVE CreateOK(d)'
    <3>1. CreateOK(d) /\ (d # c => at'[d] = at[d]) /\ at'[c] = 1
      BY <1>1, <2>1 DEF TreeTyped
    <3> QED BY <2>1, <2>3, <2>5, <3>1 DEF CreateOK, AtStep
  <2> QED BY <2>2, <2>4, <2>5 DEF CreateInv
<1> QED BY <1>2, <1>3

\* A step that succeeds, or that may fail with a warning.
LEMMA StepInv ==
  ASSUME CreateInv, NEW c \in Creators, Step(c) \/ StepWarns(c)
  PROVE  CreateInv'
<1>1. /\ TreeTyped /\ CreateOK(c) /\ AtStep(c) /\ Onwards(c) /\ filled' = filled
      /\ tree # Absent /\ tree.by = c /\ Progress(tree, at[c]) /\ tree \in Trees
  BY DEF CreateInv, Step, StepWarns, CreateOK, TreeTyped
<1>2. PICK k \in 1..11 : k = at[c]
  BY <1>1, StepNames DEF AtStep
<1>3. CASE Step(c)
  <2>1. PICK t \in Trees : t = tree
    BY <1>1
  <2>2. tree' = Apply(Steps[k], t)
    BY <1>2, <1>3, <2>1 DEF Step
  <2>3. tree' \in Trees /\ tree'.by = c /\ Progress(tree', k + 1)
    BY <1>1, <1>2, <2>1, <2>2, ApplyProgress
  <2>4. tree' # Absent
    BY <1>1, <2>3, CreateAssumption
  <2> QED BY <1>1, <1>2, <2>3, <2>4, OnwardsInv
<1>4. CASE StepWarns(c)
  <2>1. tree' = tree /\ Steps[k] \in Optional
    BY <1>2, <1>4 DEF StepWarns
  <2>2. Progress(tree', k + 1)
    BY <1>1, <1>2, <2>1, SkipProgress
  <2> QED BY <1>1, <1>2, <2>1, <2>2, OnwardsInv
<1> QED BY <1>3, <1>4

\* Every step of create.
LEMMA CreateStepInv ==
  ASSUME CreateInv, UserMakes \/ UserFills \/ \E c \in Creators : CreateStep(c)
  PROVE  CreateInv'
<1>1. ASSUME NEW c \in Creators, CreateStep(c) PROVE CreateInv'
  <2>1. CASE StatDest(c)
    BY <2>1, StatInv
  <2>2. CASE Clone(c)
    BY <2>2, AppearInv
  <2>3. CASE CloneFails(c)
    BY <2>3, FinishInv, StepNames DEF CloneFails, AtStep
  <2>4. CASE Step(c) \/ StepWarns(c)
    BY <2>4, StepInv
  <2>5. CASE StepFails(c)
    <3>1. /\ AtStep(c) /\ at[c] # Over /\ filled' = filled
          /\ tree \in Trees /\ tree.by = c
      BY <2>5, StepNames DEF StepFails, AtStep, CreateInv, TreeTyped, CreateOK
    <3>2. CASE tree' = Absent /\ Finish(c, "failed")
      BY <3>1, <3>2, FinishInv
    <3>3. ASSUME NEW left \in SUBSET tree.has,
                 tree' = [tree EXCEPT !.has = left], Finish(c, "leftover")
          PROVE  CreateInv'
      <4>1. tree' \in Trees /\ tree'.by = c
        BY <3>1, <3>3 DEF Trees
      <4> QED BY <3>1, <3>3, <4>1, FinishInv
    <3> QED BY <2>5, <3>2, <3>3 DEF StepFails
  <2>6. CASE Kill(c)
    BY <2>6, FinishInv DEF Kill
  <2> QED BY <1>1, <2>1, <2>2, <2>3, <2>4, <2>5, <2>6 DEF CreateStep
<1> QED BY <1>1, AppearInv

-----------------------------------------------------------------------------
\* gen.

\* A registration belongs to one service, and is none of its other lines.
LEMMA LineFacts ==
  ASSUME NEW s \in Services, NEW u \in Services, NEW m \in Markers
  PROVE  /\ Line(s, m) \in AllLines
         /\ Line(s, "register") \in AllLines
         /\ Line(s, "register") = Line(u, m) => m = "register" /\ s = u
<1>1. "register" \in Markers
  BY DEF Markers
<1>2. Line(s, m) \in AllLines /\ Line(s, "register") \in AllLines
  BY <1>1 DEF AllLines
<1>3. Line(s, "register") = <<"register", s>>
  BY DEF Line
<1>4. Line(u, m) = IF m = "import" THEN <<"import", Package[u]>> ELSE <<m, u>>
  BY DEF Line
<1>5. Line(s, "register") = Line(u, m) => m = "register" /\ s = u
  BY <1>3, <1>4
<1> QED BY <1>2, <1>5

\* Entities.
LEMMA EntityFacts ==
  ASSUME NEW s \in Services
  PROVE  Entity[s] \in Entities
BY DEF Entities

\* The empty main.go.
LEMMA NoSrcFacts ==
  /\ NoSrc.lines \in [AllLines -> Nat] /\ NoSrc.marker \subseteq Markers
  /\ \A l \in AllLines : NoSrc.lines[l] = 0
  /\ \A s \in Services : Line(s, "register") \in AllLines
  /\ NoFlags \in Flags
<1>1. NoSrc.lines = [l \in AllLines |-> 0] /\ NoSrc.marker = {}
  BY DEF NoSrc
<1>2. \A s \in Services : Line(s, "register") \in AllLines
  BY LineFacts DEF Markers
<1>3. NoFlags \in Flags
  BY DEF NoFlags, Flags
<1> QED BY <1>1, <1>2, <1>3

\* A new project has no service.
LEMMA InitGen == GenInit => GenInv
<1> SUFFICES ASSUME GenInit PROVE GenInv
  OBVIOUS
<1> USE NoSrcFacts
<1>1. GenTyped
  BY DEF GenInit, GenTyped, Stage
<1>2. Command
  BY DEF GenInit, Command, Writing, NoFlags
<1>3. MainGo
  BY DEF GenInit, MainGo, Writing, Backed
<1> QED BY <1>1, <1>2, <1>3 DEF GenInv

\* The checks before the first write.
LEMMA PreflightInv ==
  ASSUME GenInv, NEW s \in Services, NEW flags \in Flags, Preflight(s, flags)
  PROVE  GenInv'
<1>1. /\ GenTyped /\ Command /\ MainGo
      /\ stage = "idle" /\ stage' = "proto" /\ cur' = s /\ opt' = flags
      /\ UNCHANGED <<proto, logic, marker, lines, gen, src>>
      /\ forced \subseteq forced'
      /\ flags.force => Entity[s] \in forced'
      /\ ~flags.force => proto[s] = None /\ logic[Entity[s]] = None /\ forced' = forced
      /\ flags.noWire \/ ValidateWireable(s)
  BY DEF GenInv, Preflight, EnsureWritable, Become, files
<1>2. GenTyped'
  BY <1>1 DEF GenTyped, Stage
<1>3. Command'
  <2>1. ASSUME Entity[s] \notin forced', NEW u \in Services, Entity[u] = Entity[s]
        PROVE  lines[Line(u, "register")] = 0
    <3>1. logic[Entity[u]] = None /\ Entity[u] \notin forced
      BY <1>1, <2>1
    <3>2. ~(lines[Line(u, "register")] > 0)
      BY <1>1, <2>1, <3>1, GenAssumption DEF MainGo, Backed
    <3>3. lines[Line(u, "register")] \in Nat
      BY <1>1, LineFacts DEF GenTyped, Markers
    <3> QED BY <3>2, <3>3
  <2> QED BY <1>1, <2>1 DEF Command, Stage
<1>4. MainGo'
  <2>1. ~flags.noWire => Insertable(s)'
    <3>1. ASSUME ValidateWireable(s), NEW m \in Markers, lines[Line(s, m)] = 0 PROVE m \in marker
      BY <3>1 DEF ValidateWireable
    <3> QED BY <1>1, <3>1 DEF Insertable
  <2>2. Backed(lines)' /\ Backed(src.lines)'
    BY <1>1 DEF MainGo, Backed
  <2> QED BY <1>1, <2>1, <2>2 DEF MainGo
<1> QED BY <1>2, <1>3, <1>4 DEF GenInv

\* The proto file: the service is not registered yet, or was forced.
LEMMA WriteProtoInv ==
  ASSUME GenInv, WriteProto
  PROVE  GenInv'
<1>1. PICK v \in {Torn, cur} :
      /\ GenTyped /\ Command /\ MainGo /\ cur \in Services
      /\ stage \in {"proto", "proto_text"}
      /\ proto' = [proto EXCEPT ![cur] = v]
      /\ \/ stage = "proto" /\ v = Torn /\ stage' = "proto_text"
         \/ stage = "proto_text" /\ v = cur /\ stage' = "logic"
      /\ UNCHANGED <<logic, marker, lines, src, cur, opt, forced>>
  BY DEF GenInv, GenTyped, WriteProto, Become, Running
<1>2. proto'[cur] = v /\ \A s \in Services : s # cur => proto'[s] = proto[s]
  BY <1>1 DEF GenTyped
<1>3. GenTyped'
  BY <1>1 DEF GenTyped, Stage
<1>4. Command'
  BY <1>1, <1>2 DEF Command, Stage, Writing
<1>5. MainGo'
  <2>1. ASSUME NEW s \in Services, lines[Line(s, "register")] > 0, Entity[s] \notin forced
        PROVE  proto'[s] = s /\ logic[Entity[s]] = s
    <3>1. proto[s] = s /\ logic[Entity[s]] = s
      BY <1>1, <2>1 DEF MainGo, Backed
    <3>2. s # cur
      BY <1>1, <2>1 DEF Command, Writing
    <3> QED BY <1>2, <3>1, <3>2
  <2>2. Backed(lines)'
    BY <1>1, <2>1 DEF Backed
  <2>3. Backed(src.lines)'
    BY <1>1, NoSrcFacts DEF MainGo, Backed
  <2>4. Insertable(cur)' = Insertable(cur)
    BY <1>1 DEF Insertable
  <2> QED BY <1>1, <2>2, <2>3, <2>4 DEF MainGo, Writing
<1> QED BY <1>3, <1>4, <1>5 DEF GenInv

\* The logic file: no service of the entity is registered yet, or it was forced.
LEMMA WriteLogicInv ==
  ASSUME GenInv, WriteLogic
  PROVE  GenInv'
<1>1. PICK v \in {Torn, cur} :
      /\ GenTyped /\ Command /\ MainGo /\ cur \in Services
      /\ stage \in {"logic", "logic_text"}
      /\ logic' = [logic EXCEPT ![Entity[cur]] = v]
      /\ \/ stage = "logic" /\ v = Torn /\ stage' = "logic_text"
         \/ stage = "logic_text" /\ v = cur /\ stage' = AfterLogic
      /\ UNCHANGED <<proto, marker, lines, gen, src, cur, opt, forced>>
  BY DEF GenInv, GenTyped, WriteLogic, Become, Running
<1>2. logic'[Entity[cur]] = v /\ \A e \in Entities : e # Entity[cur] => logic'[e] = logic[e]
  BY <1>1, EntityFacts DEF GenTyped
<1>3. /\ AfterLogic \in {"wire", "regen", "ready"}
      /\ AfterLogic = "wire" => ~opt.noWire
      /\ AfterLogic # "wire" => opt.noWire
      /\ AfterLogic = "ready" => opt.skipGen
  BY DEF AfterLogic
<1>4. GenTyped'
  BY <1>1, <1>3, EntityFacts DEF GenTyped, Stage
<1>5. Command'
  BY <1>1, <1>2, <1>3 DEF Command, Stage, Writing
<1>6. MainGo'
  <2>1. ASSUME NEW s \in Services, lines[Line(s, "register")] > 0, Entity[s] \notin forced
        PROVE  proto[s] = s /\ logic'[Entity[s]] = s
    <3>1. proto[s] = s /\ logic[Entity[s]] = s
      BY <1>1, <2>1 DEF MainGo, Backed
    <3>2. Entity[s] # Entity[cur]
      BY <1>1, <2>1 DEF Command, Writing
    <3> QED BY <1>2, <3>1, <3>2, EntityFacts
  <2>2. Backed(lines)'
    BY <1>1, <2>1 DEF Backed
  <2>3. Backed(src.lines)'
    BY <1>1, NoSrcFacts DEF MainGo, Backed
  <2>4. Insertable(cur)' = Insertable(cur)
    BY <1>1 DEF Insertable
  <2> QED BY <1>1, <1>3, <2>2, <2>3, <2>4 DEF MainGo, Writing
<1> QED BY <1>4, <1>5, <1>6 DEF GenInv

\* main.go is truncated: what was in it, and the new lines, are still to be written.
LEMMA TruncateMainInv ==
  ASSUME GenInv, TruncateMain
  PROVE  GenInv'
<1>1. /\ GenTyped /\ Command /\ MainGo /\ cur \in Services
      /\ stage = "wire" /\ stage' = "wire_text"
      /\ src'.lines = Inserted(cur) /\ src'.marker = marker
      /\ marker' = {} /\ lines' = [l \in AllLines |-> 0]
      /\ UNCHANGED <<proto, logic, gen, cur, opt, forced>>
  BY DEF GenInv, GenTyped, TruncateMain, Become, Running
<1>2. /\ lines' \in [AllLines -> Nat] /\ \A l \in AllLines : lines'[l] = 0
      /\ src'.lines \in [AllLines -> Nat]
      /\ \A l \in AllLines : src'.lines[l] = lines[l] \/ src'.lines[l] = 1
      /\ \A l \in AllLines : lines[l] = 0 /\ (\E m \in Markers : l = Line(cur, m)) => src'.lines[l] = 1
      /\ \A l \in AllLines : src'.lines[l] # lines[l] => \E m \in Markers : l = Line(cur, m)
  BY <1>1 DEF Inserted, GenTyped
<1>3. GenTyped'
  BY <1>1, <1>2 DEF GenTyped, Stage
<1>4. Command'
  BY <1>1 DEF Command, Stage, Writing
<1>5. \A l \in AllLines : lines'[l] <= 1 /\ src'.lines[l] <= 1
  BY <1>1, <1>2 DEF MainGo
<1>6. ASSUME NEW m \in Markers PROVE src'.lines[Line(cur, m)] = 1
  <2>1. Line(cur, m) \in AllLines
    BY <1>1, LineFacts
  <2>2. lines[Line(cur, m)] \in Nat /\ lines[Line(cur, m)] <= 1
    BY <1>1, <2>1 DEF GenTyped, MainGo
  <2> QED BY <1>2, <2>1, <2>2
<1>7. Backed(lines)'
  BY <1>2, NoSrcFacts DEF Backed
<1>8. ASSUME NEW s \in Services, src'.lines[Line(s, "register")] > 0, Entity[s] \notin forced
      PROVE  proto[s] = s /\ logic[Entity[s]] = s
  <2>1. Line(s, "register") \in AllLines
    BY NoSrcFacts
  <2>2. CASE s = cur
    BY <1>1, <2>2 DEF Command, Stage
  <2>3. CASE s # cur
    <3>1. \A m \in Markers : Line(s, "register") # Line(cur, m)
      BY <1>1, <2>3, LineFacts
    <3>2. lines[Line(s, "register")] > 0
      BY <1>2, <1>8, <2>1, <3>1
    <3> QED BY <1>1, <1>8, <3>2 DEF MainGo, Backed
  <2> QED BY <2>2, <2>3
<1>9. Backed(src.lines)'
  BY <1>1, <1>8 DEF Backed
<1>10. MainGo'
  BY <1>1, <1>5, <1>6, <1>7, <1>9 DEF MainGo, Writing
<1> QED BY <1>3, <1>4, <1>10 DEF GenInv

\* main.go gets its new text.
LEMMA WriteMainInv ==
  ASSUME GenInv, WriteMain
  PROVE  GenInv'
<1>1. /\ GenTyped /\ Command /\ MainGo /\ cur \in Services
      /\ stage = "wire_text" /\ stage' = IF opt.skipGen THEN "ready" ELSE "regen"
      /\ lines' = src.lines /\ marker' = src.marker /\ src' = NoSrc
      /\ UNCHANGED <<proto, logic, gen, cur, opt, forced>>
  BY DEF GenInv, GenTyped, WriteMain, Become, Running
<1>2. GenTyped'
  BY <1>1, NoSrcFacts DEF GenTyped, Stage
<1>3. Command'
  BY <1>1 DEF Command, Stage, Writing
<1>4. Backed(lines)'
  BY <1>1 DEF MainGo, Backed
<1>5. Backed(src.lines)'
  BY <1>1, NoSrcFacts DEF Backed
<1>6. \A l \in AllLines : lines'[l] <= 1 /\ src'.lines[l] <= 1
  BY <1>1, NoSrcFacts DEF MainGo
<1>7. MainGo'
  BY <1>1, <1>4, <1>5, <1>6 DEF MainGo, Writing
<1> QED BY <1>2, <1>3, <1>7 DEF GenInv

\* buf, the end of a command, the command regen, and the user's edit leave the files
\* and the lines alone.
LEMMA QuietInv ==
  ASSUME GenInv,
         RegenStep \/ Ready \/ Die \/ RegenCmd \/ \E m \in Markers : DropMarker(m)
  PROVE  GenInv'
<1>1. /\ GenTyped /\ Command /\ MainGo
      /\ UNCHANGED <<proto, logic, lines, forced>>
  BY DEF GenInv, RegenStep, Ready, Die, RegenCmd, DropMarker, Ended, files, Running
<1>2. CASE RegenStep
  <2>1. /\ stage = "regen" /\ stage' = "ready" /\ gen' = TRUE
        /\ UNCHANGED <<marker, src, cur, opt>>
    BY <1>2 DEF RegenStep, BufGenerate, Become, Running
  <2>2. GenTyped'
    BY <1>1, <2>1 DEF GenTyped, Stage
  <2>3. Command'
    BY <1>1, <2>1 DEF Command, Stage, Writing
  <2>4. MainGo'
    BY <1>1, <2>1 DEF MainGo, Writing, Backed
  <2> QED BY <2>2, <2>3, <2>4 DEF GenInv
<1>3. CASE Ready \/ Die
  <2>1. stage' = "idle" /\ opt' = NoFlags /\ src' = NoSrc /\ marker' = marker
    BY <1>3 DEF Ready, Die, Ended, Become, files
  <2>2. GenTyped'
    BY <1>1, <2>1, NoSrcFacts DEF GenTyped, Stage
  <2>3. Command'
    BY <2>1 DEF Command, Stage, Writing, NoFlags
  <2>4. Backed(lines)' /\ Backed(src.lines)'
    BY <1>1, <2>1, NoSrcFacts DEF MainGo, Backed
  <2>5. \A l \in AllLines : lines'[l] <= 1 /\ src'.lines[l] <= 1
    BY <1>1, <2>1, NoSrcFacts DEF MainGo
  <2>6. MainGo'
    BY <1>1, <2>1, <2>4, <2>5 DEF MainGo, Writing
  <2> QED BY <2>2, <2>3, <2>6 DEF GenInv
<1>4. CASE RegenCmd \/ \E m \in Markers : DropMarker(m)
  <2>1. /\ stage = "idle" /\ marker' \subseteq marker
        /\ UNCHANGED <<stage, src, cur, opt>>
    BY <1>4 DEF RegenCmd, DropMarker, Running
  <2>2. GenTyped'
    BY <1>1, <2>1 DEF GenTyped
  <2>3. Command'
    BY <1>1, <2>1 DEF Command, Stage, Writing
  <2>4. MainGo'
    BY <1>1, <2>1 DEF MainGo, Writing, Backed
  <2> QED BY <2>2, <2>3, <2>4 DEF GenInv
<1> QED BY <1>2, <1>3, <1>4

\* Every step of gen.
LEMMA GenStepInv ==
  ASSUME GenInv, GenStep
  PROVE  GenInv'
BY PreflightInv, WriteProtoInv, WriteLogicInv, TruncateMainInv, WriteMainInv, QuietInv DEF GenStep

-----------------------------------------------------------------------------
\* Both parts keep their invariants, and leave each other's state alone.
LEMMA NextCLI == CLIInv /\ [Next]_cliVars => CLIInv'
<1> SUFFICES ASSUME CLIInv, [Next]_cliVars PROVE CLIInv'
  OBVIOUS
<1>1. ASSUME UNCHANGED createVars PROVE CreateInv'
  BY <1>1 DEF CLIInv, createVars, CreateInv, TreeTyped, UsersOwn, CreateOK, AtStep
<1>2. ASSUME UNCHANGED genVars PROVE GenInv'
  <2>1. GenTyped' /\ Command'
    BY <1>2 DEF CLIInv, genVars, files, GenInv, GenTyped, Command
  <2>2. MainGo'
    BY <1>2 DEF CLIInv, genVars, files, GenInv, MainGo, Insertable, Backed
  <2> QED BY <2>1, <2>2 DEF GenInv
<1>3. CASE (UserMakes \/ UserFills \/ \E c \in Creators : CreateStep(c)) /\ UNCHANGED genVars
  BY <1>2, <1>3, CreateStepInv DEF CLIInv
<1>4. CASE GenStep /\ UNCHANGED createVars
  BY <1>1, <1>4, GenStepInv DEF CLIInv
<1>5. CASE UNCHANGED cliVars
  BY <1>1, <1>2, <1>5 DEF CLIInv, cliVars
<1> QED BY <1>3, <1>4, <1>5 DEF Next

\* The inductive invariant holds in every reachable state of the gortexa command.
THEOREM CLIInvariance == Spec => []CLIInv
<1>1. Init => CLIInv
  BY InitCreate, InitGen DEF Init, CLIInv
<1> QED BY <1>1, NextCLI, PTL DEF Spec

\* create is all or nothing for any number of concurrent creates of one directory:
\* createProject returns nil only over a whole project, cleans up after an error, and
\* leaves a directory alone into which the user has put something.
THEOREM CreateAllOrNothing == Spec => []CreateWhole
<1>1. CLIInv => CreateWhole
  <2> SUFFICES ASSUME CLIInv, NEW c \in Creators
               PROVE  /\ outcome[c] = "created" =>
                           /\ tree # Absent /\ tree.by = c /\ tree.has = {"sources"}
                           /\ Required \subseteq tree.made /\ "spoilt" \notin tree.made
                      /\ outcome[c] = "failed" => tree = Absent \/ tree.by # c
    BY DEF CreateWhole, CLIInv, CreateInv, UsersOwn
  <2>1. CreateOK(c)
    BY DEF CLIInv, CreateInv
  <2>2. ASSUME Progress(tree, Over)
        PROVE  tree.has = {"sources"} /\ Required \subseteq tree.made /\ "spoilt" \notin tree.made
    BY <2>2, StepNames DEF Progress, Required, Layout
  <2> QED BY <2>1, <2>2 DEF CreateOK
<1> QED BY <1>1, CLIInvariance, PTL

\* main.go registers only services with their own contract and logic, wherever
\* generateAPI failed or was killed, for any services, packages and entities.
THEOREM RegisteredIsBacked == Spec => []WiredBacked
<1>1. CLIInv => WiredBacked
  BY DEF CLIInv, GenInv, MainGo, Backed, WiredBacked
<1> QED BY <1>1, CLIInvariance, PTL

\* "ready" means done, no line is inserted twice, and no wiring error comes after
\* the first write of generateAPI.
THEOREM ReadyIsComplete == Spec => []GenComplete
<1>1. CLIInv => GenComplete
  BY DEF CLIInv, GenInv, Command, MainGo, Stage, Writing, GenComplete
<1> QED BY <1>1, CLIInvariance, PTL

\* generateAPI writes the two files of its target and no other, and without --force
\* (ensureWritable) none that was there.
THEOREM NothingClobbered == Spec => NotClobbered
<1>1. CLIInv /\ [Next]_cliVars => [KeepsFiles]_genVars
  <2> SUFFICES ASSUME CLIInv, [Next]_cliVars, ~UNCHANGED genVars
               PROVE  /\ \A s \in Services : proto'[s] # proto[s] =>
                           s = cur /\ (opt.force \/ proto[s] = None \/ stage = "proto_text")
                      /\ \A e \in Entities : logic'[e] # logic[e] =>
                           e = Entity[cur] /\ (opt.force \/ logic[e] = None \/ stage = "logic_text")
    BY DEF KeepsFiles
  <2>1. GenTyped /\ Command
    BY DEF CLIInv, GenInv
  <2>2. GenStep
    BY DEF Next, cliVars
  <2>3. CASE WriteProto
    BY <2>1, <2>3 DEF WriteProto, Running, GenTyped, Command
  <2>4. CASE WriteLogic
    BY <2>1, <2>4 DEF WriteLogic, Running, GenTyped, Command
  <2>5. CASE ~WriteProto /\ ~WriteLogic
    <3>1. proto' = proto /\ logic' = logic
      BY <2>2, <2>5 DEF GenStep, Preflight, TruncateMain, WriteMain, RegenStep, Ready, Die, Ended,
                        RegenCmd, DropMarker, files
    <3> QED BY <3>1
  <2> QED BY <2>3, <2>4, <2>5
<1> QED BY <1>1, CLIInvariance, PTL DEF Spec, NotClobbered

-----------------------------------------------------------------------------
\* The sample service: a walk over the pages of a list.

\* The types of the store and of the walks.
WalkTyped ==
  /\ DOMAIN store \subseteq Ids
  /\ walk \in [Walkers -> {"idle", "walking", "done"}] /\ filter \in [Walkers -> Owners]
  /\ size \in [Walkers -> Nat] /\ token \in [Walkers -> 0..MaxId]
  /\ listed \in [Walkers -> SUBSET Ids] /\ again \in [Walkers -> SUBSET Ids]
  /\ held \in [Walkers -> SUBSET Ids]

\* A walk is divided by its token: it has listed nothing past it, and all that was held
\* up to it.
WalkOK(w) ==
  /\ again[w] = {}
  /\ held[w] \subseteq Passing(store, filter[w])
  /\ walk[w] = "walking" =>
       /\ \A id \in listed[w] : id <= token[w]
       /\ \A id \in held[w] : id <= token[w] => id \in listed[w]
  /\ walk[w] = "done" => held[w] \subseteq listed[w]

WalkInv == WalkTyped /\ \A w \in Walkers : WalkOK(w)

\* A set of numbers that is not empty has a smallest one ...
LEMMA Smallest ==
  ASSUME NEW T \in SUBSET Nat, T # {}
  PROVE  \E x \in T : \A y \in T : x <= y
<1>1. PICK x \in T : \A y \in T : ~(<<y, x>> \in OpToRel(<, Nat))
  BY WFMin, NatLessThanWellFounded
<1>2. ASSUME NEW y \in T PROVE x <= y
  <2>1. ~(<<y, x>> \in OpToRel(<, Nat))
    BY <1>1
  <2>2. ~(y < x)
    BY <2>1 DEF OpToRel
  <2> QED BY <2>2
<1> QED BY <1>2

\* ... and one of ids a largest.
LEMMA Largest ==
  ASSUME NEW T \in SUBSET Ids, T # {}
  PROVE  Max(T) \in T /\ \A y \in T : y <= Max(T)
<1> USE ResourceAssumption DEF Ids
<1> DEFINE Mirror == {MaxId - y : y \in T}
<1>1. Mirror \in SUBSET Nat /\ Mirror # {}
  <2>1. \A y \in T : y \in Int /\ 1 <= y /\ y <= MaxId
    OBVIOUS
  <2>2. \A y \in T : MaxId - y \in Nat
    BY <2>1
  <2> QED BY <2>2
<1>2. PICK m \in Mirror : \A n \in Mirror : m <= n
  BY <1>1, Smallest
<1>3. PICK x \in T : m = MaxId - x
  BY <1>2
<1>4. ASSUME NEW y \in T PROVE x >= y
  <2>1. m <= MaxId - y
    BY <1>2
  <2> QED BY <1>3, <2>1
<1>5. Max(T) \in T /\ \A y \in T : Max(T) >= y
  BY <1>4, Zenon DEF Max
<1> QED BY <1>5

\* A page is a first part of what is left, and not empty unless nothing is.
LEMMA PageFacts ==
  ASSUME NEW rest \in SUBSET Ids, NEW n \in Nat
  PROVE  /\ Page(rest, n) \subseteq rest
         /\ \A i \in Page(rest, n), j \in rest : j <= i => j \in Page(rest, n)
         /\ rest # {} => Page(rest, n) # {}
<1> USE ResourceAssumption
<1> DEFINE Upto(i) == {j \in rest : j <= i}
<1>0. \A i \in rest : i \in Int
  BY DEF Ids
<1>1. PageSize(n) \in Nat /\ PageSize(n) >= 1
  BY DEF PageSize
<1>2. ASSUME NEW i \in rest PROVE IsFiniteSet(Upto(i)) /\ Cardinality(Upto(i)) \in Nat
  <2>1. Upto(i) \subseteq 1..MaxId
    BY DEF Ids
  <2>2. IsFiniteSet(1..MaxId)
    BY FS_Interval
  <2> QED BY <2>1, <2>2, FS_Subset, FS_CardinalityType
<1>3. ASSUME NEW i \in rest, NEW j \in rest, j <= i PROVE Cardinality(Upto(j)) <= Cardinality(Upto(i))
  <2>1. Upto(j) \subseteq Upto(i)
    BY <1>0, <1>3
  <2> QED BY <1>2, <2>1, FS_Subset
<1>4. \A i \in Page(rest, n), j \in rest : j <= i => j \in Page(rest, n)
  <2> SUFFICES ASSUME NEW i \in Page(rest, n), NEW j \in rest, j <= i PROVE j \in Page(rest, n)
    OBVIOUS
  <2>1. i \in rest /\ Cardinality(Upto(i)) <= PageSize(n)
    BY DEF Page
  <2>2. Cardinality(Upto(i)) \in Nat /\ Cardinality(Upto(j)) \in Nat
    BY <1>2, <2>1
  <2>3. Cardinality(Upto(j)) <= Cardinality(Upto(i))
    BY <1>3, <2>1
  <2> HIDE DEF Upto
  <2>4. Cardinality(Upto(j)) <= PageSize(n)
    BY <1>1, <2>1, <2>2, <2>3
  <2> QED BY <2>4 DEF Page, Upto
<1>5. ASSUME rest # {} PROVE Page(rest, n) # {}
  <2>1. PICK x \in rest : \A y \in rest : x <= y
    BY <1>5, Smallest DEF Ids
  <2>2. Upto(x) = {x}
    <3>1. \A y \in rest : y <= x => y = x
      BY <1>0, <2>1
    <3>2. x <= x
      BY <1>0
    <3> QED BY <3>1, <3>2
  <2>3. Cardinality(Upto(x)) <= PageSize(n)
    BY <1>1, <2>2, FS_Singleton
  <2> QED BY <2>3 DEF Page
<1> QED BY <1>4, <1>5 DEF Page
\* Nothing is stored and nobody walks.
LEMMA InitWalk == ResourceInit => WalkInv
BY ResourceAssumption DEF ResourceInit, WalkInv, WalkTyped, WalkOK, Passing

\* The store changes: the walks stand, with a history that is cut down to what still passes.
LEMMA StoreWalk ==
  ASSUME WalkInv, Recheck(store'), UNCHANGED walkVars, DOMAIN store' \subseteq Ids
  PROVE  WalkInv'
<1>1. /\ WalkTyped /\ UNCHANGED <<walk, filter, size, token, listed, again>>
      /\ held' = [w \in Walkers |-> held[w] \cap Passing(store', filter[w])]
  BY DEF WalkInv, Recheck, walkVars
<1>2. WalkTyped'
  BY <1>1 DEF WalkTyped
<1>3. ASSUME NEW w \in Walkers PROVE WalkOK(w)'
  <2>1. WalkOK(w) /\ held'[w] \subseteq held[w] /\ held'[w] \subseteq Passing(store', filter[w])
    BY <1>1 DEF WalkInv
  <2> QED BY <1>1, <2>1 DEF WalkOK
<1> QED BY <1>2, <1>3 DEF WalkInv

\* A walk begins before everything that passes.
LEMMA BeginWalk ==
  ASSUME WalkInv, NEW w \in Walkers, NEW owner \in Owners, NEW n \in Sizes, Begin(w, owner, n)
  PROVE  WalkInv'
<1>1. WalkTyped /\ \A v \in Walkers : WalkOK(v)
  BY DEF WalkInv
<1>2. Passing(store, owner) \subseteq Ids /\ \A id \in Passing(store, owner) : ~(id <= 0)
  BY <1>1, ResourceAssumption DEF WalkTyped, Passing, Ids
<1>3. WalkTyped'
  BY <1>1, <1>2, ResourceAssumption DEF WalkTyped, Begin
<1>4. WalkOK(w)'
  BY <1>1, <1>2 DEF WalkTyped, WalkOK, Begin
<1>5. ASSUME NEW v \in Walkers \ {w} PROVE WalkOK(v)'
  BY <1>1 DEF WalkTyped, WalkOK, Begin
<1> QED BY <1>3, <1>4, <1>5 DEF WalkInv

\* A page: everything past the token and up to the next one.
LEMMA ListWalk ==
  ASSUME WalkInv, NEW w \in Walkers, ListResources(w)
  PROVE  WalkInv'
<1> USE ResourceAssumption
<1>1. WalkTyped /\ \A v \in Walkers : WalkOK(v)
  BY DEF WalkInv
<1>2. PICK all \in SUBSET Ids : all = Passing(store, filter[w])
  BY <1>1 DEF WalkTyped, Passing
<1>3. PICK tok \in 0..MaxId : tok = token[w]
  BY <1>1 DEF WalkTyped
<1>4. PICK n \in Nat : n = size[w]
  BY <1>1 DEF WalkTyped
<1>5. PICK rest \in SUBSET Ids : rest = After(all, tok)
  BY DEF After
<1>6. PICK page \in SUBSET Ids : page = Page(rest, n)
  BY DEF Page
<1>7. PICK next : next = NextPageToken(rest, page)
  OBVIOUS
<1>8. /\ walk[w] = "walking"
      /\ listed' = [listed EXCEPT ![w] = listed[w] \cup page]
      /\ again' = [again EXCEPT ![w] = again[w] \cup (page \cap listed[w])]
      /\ token' = [token EXCEPT ![w] = next]
      /\ walk' = [walk EXCEPT ![w] = IF next = 0 THEN "done" ELSE walk[w]]
      /\ UNCHANGED <<store, used, filter, size, held>>
  BY <1>2, <1>3, <1>4, <1>5, <1>6, <1>7 DEF ListResources
<1>9. /\ page \subseteq rest
      /\ \A i \in page, j \in rest : j <= i => j \in page
      /\ rest # {} => page # {}
  BY <1>6, PageFacts
<1>10. \/ next = 0 /\ page = rest
       \/ next \in page /\ \A i \in page : i <= next
  <2>1. CASE page = rest
    BY <1>7, <2>1 DEF NextPageToken
  <2>2. CASE page # rest
    <3>1. page # {}
      BY <1>9, <2>2
    <3>2. next = Max(page)
      BY <1>7, <2>2, <3>1 DEF NextPageToken
    <3> QED BY <3>1, <3>2, Largest
  <2> QED BY <2>1, <2>2
<1>11. next \in 0..MaxId /\ (next \in page => next # 0)
  <2>1. next \in page => next \in 1..MaxId
    BY DEF Ids
  <2> QED BY <1>10, <2>1
<1>12. WalkTyped'
  BY <1>1, <1>8, <1>11 DEF WalkTyped
<1>13. ASSUME NEW v \in Walkers \ {w} PROVE WalkOK(v)'
  BY <1>1, <1>8 DEF WalkTyped, WalkOK
<1>14. WalkOK(w)'
  <2>1. /\ again[w] = {} /\ held[w] \subseteq all
        /\ \A id \in listed[w] : id <= tok
        /\ \A id \in held[w] : id <= tok => id \in listed[w]
    BY <1>1, <1>2, <1>3, <1>8 DEF WalkOK
  <2>2. /\ listed'[w] = listed[w] \cup page /\ again'[w] = again[w] \cup (page \cap listed[w])
        /\ token'[w] = next /\ walk'[w] = IF next = 0 THEN "done" ELSE "walking"
    BY <1>1, <1>8 DEF WalkTyped
  <2>3. \A id \in rest : id \in all /\ tok < id
    BY <1>3, <1>5 DEF After, Ids
  <2>4. \A id \in Ids : id \in Int
    BY DEF Ids
  <2>5. \A id \in page : id \notin listed[w]
    BY <1>9, <2>1, <2>3, <2>4
  <2>6. \A id \in held[w] : id \in listed[w] \/ id \in rest
    BY <1>3, <1>5, <2>1, <2>4 DEF After
  <2>7. CASE next = 0
    <3>1. walk'[w] = "done" /\ again'[w] = {} /\ page = rest
      BY <1>10, <1>11, <1>1, <2>1, <2>2, <2>5, <2>7
    <3>2. \A id \in held'[w] : id \in listed'[w]
      BY <1>8, <1>1, <2>2, <2>6, <3>1
    <3> QED BY <1>8, <1>1, <2>1, <2>7, <2>2, <3>1, <3>2 DEF WalkOK
  <2>8. CASE next # 0
    <3>1. next \in page /\ \A i \in page : i <= next
      BY <1>10, <2>8
    <3>2. \A id \in listed'[w] : id <= next
      <4>1. tok < next /\ next \in Int /\ tok \in Int
        BY <1>9, <2>3, <2>4, <3>1
      <4>2. \A id \in listed[w] : id \in Int
        BY <1>1, <2>4 DEF WalkTyped
      <4>3. \A id \in listed[w] : id <= next
        BY <2>1, <4>1, <4>2
      <4> QED BY <2>2, <3>1, <4>3
    <3>3. \A id \in held[w] : id <= next => id \in listed'[w]
      BY <1>9, <2>2, <2>6, <3>1
    <3> QED BY <1>8, <1>1, <2>1, <2>2, <2>5, <2>8, <3>2, <3>3 DEF WalkOK
  <2> QED BY <2>7, <2>8
<1> QED BY <1>12, <1>13, <1>14 DEF WalkInv

\* The inductive invariant of the walks holds in every reachable state.
THEOREM WalkInvariance == ResourceSpec => []WalkInv
<1>1. ASSUME WalkInv, [ResourceNext]_resourceVars PROVE WalkInv'
  <2>1. CASE UNCHANGED resourceVars
    BY <1>1, <2>1 DEF resourceVars, WalkInv, WalkTyped, WalkOK, Passing
  <2>2. ASSUME NEW id \in Ids, DeleteResource(id) PROVE WalkInv'
    BY <1>1, <2>2, StoreWalk DEF DeleteResource, WalkInv, WalkTyped
  <2>3. ASSUME NEW id \in Ids, NEW owner \in Owners, CreateResource(id, owner) PROVE WalkInv'
    <3>1. DOMAIN store' = DOMAIN store \cup {id}
      BY <2>3 DEF CreateResource
    <3> QED BY <1>1, <2>3, <3>1, StoreWalk DEF CreateResource, WalkInv, WalkTyped
  <2>4. ASSUME NEW id \in Ids, NEW owner \in Owners \cup {Unset}, UpdateResource(id, owner) PROVE WalkInv'
    <3>1. DOMAIN store' = DOMAIN store
      BY <2>4 DEF UpdateResource
    <3> QED BY <1>1, <2>4, <3>1, StoreWalk DEF UpdateResource, WalkInv, WalkTyped
  <2> QED BY <1>1, <2>1, <2>2, <2>3, <2>4, BeginWalk, ListWalk DEF ResourceNext
<1> QED BY <1>1, InitWalk, PTL DEF ResourceSpec

\* Paging through ListResources lists nothing twice and misses nothing that passed the filter
\* throughout, for any ids, owners, page sizes and number of walks.
THEOREM PagingExact == ResourceSpec => []WalkExact
<1>1. WalkInv => WalkExact
  BY DEF WalkInv, WalkOK, WalkExact
<1> QED BY <1>1, WalkInvariance, PTL
=============================================================================
