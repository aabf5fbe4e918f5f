----------------------------- MODULE ProjectGen -----------------------------
(***************************************************************************)
(* `gortexa gen` and `gortexa regen` (gen.go, wire.go, regen.go): write a  *)
(* proto file and a logic stub, insert four lines into cmd/server/main.go, *)
(* run buf.  One command runs at a time; it may fail or be killed between  *)
(* any two steps, and os.WriteFile truncates before it writes, so a file   *)
(* may be left torn.  buf and gofmt are modelled from how the code uses    *)
(* them.                                                                   *)
(***************************************************************************)
EXTENDS Integers, FiniteSets

CONSTANTS
  Services,         \* targets of gen
  Package, Entity,  \* of each: the generated Go package, and the entity that names
                    \* the logic file
  None, Torn        \* of a file: not there; truncated and not written

ASSUME GenAssumption == None \notin Services /\ Torn \notin Services \cup {None}

Packages == {Package[s] : s \in Services}
Entities == {Entity[s] : s \in Services}

Markers == {"import", "register", "gateway", "mcp"}

\* wireInsertions: the import is shared by the services of a package.
Line(s, m) == IF m = "import" THEN <<m, Package[s]>> ELSE <<m, s>>
AllLines == {Line(s, m) : s \in Services, m \in Markers}

VARIABLES
  proto,    \* each service's proto file: None, Torn, or the service
  logic,    \* each entity's logic file: None, Torn, or the service it is a stub of
  marker,   \* markers that are in main.go
  lines,    \* how often each line is in main.go
  gen,      \* whether the generated code is that of the proto files
  stage,    \* of the running command
  cur, opt, \* its target and flags
  src,      \* main.go with the lines inserted, while it is being written
  forced    \* history: entities whose files were overwritten with --force

files == <<proto, logic, marker, lines, gen>>
genVars == <<files, stage, cur, opt, src, forced>>

Flags == [noWire : BOOLEAN, skipGen : BOOLEAN, force : BOOLEAN]

NoFlags == [noWire |-> FALSE, skipGen |-> FALSE, force |-> FALSE]
NoSrc == [lines |-> [l \in AllLines |-> 0], marker |-> {}]

GenInit ==
  /\ proto = [s \in Services |-> None]
  /\ logic = [e \in Entities |-> None]
  /\ marker = Markers
  /\ lines = [l \in AllLines |-> 0]
  /\ gen = TRUE
  /\ stage = "idle" /\ cur = None /\ opt = NoFlags /\ src = NoSrc
  /\ forced = {}

Become(place) == stage' = place
Running == <<cur, opt, forced>>

-----------------------------------------------------------------------------
\* Each line is there, or the marker it goes above.
ValidateWireable(s) == \A m \in Markers : lines[Line(s, m)] > 0 \/ m \in marker

\* Faulty variants: only one of the two files is looked at.
EnsureWritable_Proto(s, force) == force \/ proto[s] = None
EnsureWritable_Logic(s, force) == force \/ logic[Entity[s]] = None

EnsureWritable(s, force) == force \/ (proto[s] = None /\ logic[Entity[s]] = None)

\* generateAPI up to its first write; a command that is refused changes nothing.
Preflight(s, flags) ==
  /\ stage = "idle"
  /\ flags.noWire \/ ValidateWireable(s)
  /\ EnsureWritable(s, flags.force)
  /\ cur' = s /\ opt' = flags
  /\ forced' = IF flags.force THEN forced \cup {Entity[s]} ELSE forced
  /\ Become("proto")
  /\ UNCHANGED <<files, src>>

\* os.WriteFile of the proto file, and then of the logic stub.
WriteProto ==
  /\ \/ stage = "proto" /\ proto' = [proto EXCEPT ![cur] = Torn] /\ Become("proto_text")
     \/ stage = "proto_text" /\ proto' = [proto EXCEPT ![cur] = cur] /\ Become("logic")
  /\ gen' = FALSE
  /\ UNCHANGED <<logic, marker, lines, src, Running>>

AfterLogic == IF ~opt.noWire THEN "wire" ELSE IF ~opt.skipGen THEN "regen" ELSE "ready"

WriteLogic ==
  /\ \/ stage = "logic" /\ logic' = [logic EXCEPT ![Entity[cur]] = Torn] /\ Become("logic_text")
     \/ stage = "logic_text" /\ logic' = [logic EXCEPT ![Entity[cur]] = cur] /\ Become(AfterLogic)
  /\ UNCHANGED <<proto, marker, lines, gen, src, Running>>

\* Faulty variant: a line that is there already is inserted again.
Inserted_Always(s) ==
  [l \in AllLines |-> lines[l] + Cardinality({m \in Markers : l = Line(s, m)})]

\* insertBeforeMarker for the four lines.
Inserted(s) ==
  [l \in AllLines |-> IF lines[l] = 0 /\ \E m \in Markers : l = Line(s, m) THEN 1 ELSE lines[l]]

\* insertBeforeMarker returns no error for any of the four.
Insertable(s) == \A m \in Markers : lines[Line(s, m)] = 0 => m \in marker

\* wireServer: main.go is read, and truncated ...
TruncateMain ==
  /\ stage = "wire" /\ Insertable(cur)
  /\ src' = [lines |-> Inserted(cur), marker |-> marker]
  /\ marker' = {} /\ lines' = [l \in AllLines |-> 0]
  /\ Become("wire_text")
  /\ UNCHANGED <<proto, logic, gen, Running>>

\* ... and written with the lines inserted.
WriteMain ==
  /\ stage = "wire_text"
  /\ lines' = src.lines /\ marker' = src.marker /\ src' = NoSrc
  /\ Become(IF opt.skipGen THEN "ready" ELSE "regen")
  /\ UNCHANGED <<proto, logic, gen, Running>>

\* regen: buf lint, breaking and generate over every proto of the project.
BufGenerate ==
  /\ \A s \in Services : proto[s] # Torn
  /\ gen' = TRUE

RegenStep ==
  /\ stage = "regen"
  /\ BufGenerate
  /\ Become("ready")
  /\ UNCHANGED <<proto, logic, marker, lines, src, Running>>

Ended ==
  /\ Become("idle") /\ cur' = None /\ opt' = NoFlags /\ src' = NoSrc
  /\ UNCHANGED <<files, forced>>

\* The command has printed that the service is ready, and ends.
Ready ==
  /\ stage = "ready"
  /\ Ended

\* An I/O error, a failing tool or a kill ends the command where it is.
Die ==
  /\ stage # "idle"
  /\ Ended

\* The command `gortexa regen`.
RegenCmd ==
  /\ stage = "idle"
  /\ BufGenerate
  /\ UNCHANGED <<proto, logic, marker, lines, stage, src, Running>>

\* The user takes a marker out of main.go between two commands (one marker: a bound).
DropMarker(m) ==
  /\ stage = "idle" /\ marker = Markers
  /\ marker' = marker \ {m}
  /\ UNCHANGED <<proto, logic, lines, gen, stage, src, Running>>

GenStep ==
  \/ \E s \in Services, flags \in Flags : Preflight(s, flags)
  \/ WriteProto \/ WriteLogic \/ TruncateMain \/ WriteMain \/ RegenStep \/ Ready \/ Die
  \/ RegenCmd \/ \E m \in Markers : DropMarker(m)

-----------------------------------------------------------------------------
GenTypeOK ==
  /\ proto \in [Services -> Services \cup {None, Torn}]
  /\ logic \in [Entities -> Services \cup {None, Torn}]
  /\ marker \subseteq Markers /\ lines \in [AllLines -> Nat]
  /\ gen \in BOOLEAN /\ forced \subseteq Entities
  /\ cur \in Services \cup {None} /\ opt \in Flags

\* What a step may do to the files.
KeepsFiles ==
  /\ \A s \in Services : proto'[s] # proto[s] =>
       s = cur /\ (opt.force \/ proto[s] = None \/ stage = "proto_text")
  /\ \A e \in Entities : logic'[e] # logic[e] =>
       e = Entity[cur] /\ (opt.force \/ logic[e] = None \/ stage = "logic_text")

\* Only the two files of the command's own target are ever written, with --force too;
\* and without it no file that was there before the command, the stub of another
\* domain's service with the same entity name included.
NotClobbered == [][KeepsFiles]_genVars

\* However commands fail or are killed, main.go registers no service whose contract
\* or logic is missing, torn or another service's, unless --force overwrote it.
WiredBacked ==
  \A s \in Services : lines[Line(s, "register")] > 0 /\ Entity[s] \notin forced =>
    proto[s] = s /\ logic[Entity[s]] = s

\* A command that says "ready" has done all that its flags ask for, whatever earlier
\* ones left behind; main.go never has a line twice; and, "fail before writing any
\* artifact" (generateAPI), a command that has written a file is not turned away by it.
GenComplete ==
  /\ stage \in {"proto_text", "logic", "logic_text", "wire"} /\ ~opt.noWire => Insertable(cur)
  /\ \A l \in AllLines : lines[l] <= 1
  /\ stage = "ready" =>
       /\ proto[cur] = cur /\ logic[Entity[cur]] = cur
       /\ opt.noWire \/ \A m \in Markers : lines[Line(cur, m)] = 1
       /\ opt.skipGen \/ gen
=============================================================================
