--------------------------- MODULE EvidenceOutput ---------------------------
(***************************************************************************)
(* The files compile, integration and conformance leave in an output       *)
(* directory: WriteOutputs of internal/scheduler/output.go and the writes  *)
(* of cmd/.../main.go.  An invocation may fail or be killed anywhere, also *)
(* inside os.WriteFile, and the directory may hold what earlier ones left. *)
(*                                                                         *)
(* Each owner has one directory ("caller-owned") and runs one command at a *)
(* time in it.  Bytes are abstract: the files with wall times differ from  *)
(* one invocation to the next, the others are those of a version, which    *)
(* stands for the inputs and for what timing made of the evidence.         *)
(***************************************************************************)
EXTENDS Integers, Sequences

CONSTANTS
  Owners,    \* the callers, each with a directory
  Versions,  \* inputs that differ in every file
  Limit      \* how many invocations of an owner are considered

ASSUME OutputAssumption == Versions # {} /\ Limit \in Nat

Artifacts ==
  <<"schedule.json", "per-lock-evidence.ndjson", "replay-receipt.json",
    "exact-pair-comparison.json", "generated-worker.go",
    "canonical-cases.json", "human-report.md">>

Report == "conformance-report.json"

Timed ==
  {"schedule.json", "exact-pair-comparison.json", "human-report.md", Report,
   "integration.json"}

Files ==
  {Artifacts[k] : k \in 1..7} \cup {Report, "semantic-ir.json", "integration.json"}

\* Fault: the report is written before the artifacts it sums up are complete.
FaultyWrites(command) ==
  CASE command = "compile"     -> <<"semantic-ir.json", "generated-worker.go">>
    [] command = "integration" -> <<"integration.json">>
    [] command = "conformance" -> <<Report>> \o Artifacts

\* The files a command writes, in its order.
Writes(command) ==
  CASE command = "compile"     -> <<"semantic-ir.json", "generated-worker.go">>
    [] command = "integration" -> <<"integration.json">>
    [] command = "conformance" -> Append(Artifacts, Report)

Invocation ==
  [command : {"compile", "integration", "conformance"}, version : Versions,
   closed : BOOLEAN]

VARIABLES
  dir,     \* dir[o][f]: what owner o has under the name f
  now,     \* the last invocation of each owner
  number,  \* how many invocations each owner has started
  step,    \* the file of Writes the invocation is at
  opened,  \* os.WriteFile has truncated that file and not filled it yet
  exit     \* "none", "running", "ok" or "failed"

output == <<dir, now, number, step, opened, exit>>

\* A file: the invocation that opened it last, its bytes, the digests it lists
\* and the decision it states.
Missing == [by |-> 0, bytes |-> <<"missing">>, digests |-> <<>>, closed |-> FALSE]

\* Fault: os.WriteFile removes the file before it writes.
FaultyTorn(n) == [by |-> n, bytes |-> <<"missing">>, digests |-> <<>>, closed |-> FALSE]

Torn(n) == [by |-> n, bytes |-> <<"torn">>, digests |-> <<>>, closed |-> FALSE]

Whole(file) == file.bytes \notin {<<"missing">>, <<"torn">>}

\* What invocation n of version v writes under the name f.
Bytes(f, v, n) == <<v, IF f \in Timed THEN n ELSE 0>>

File(o) == Writes(now[o].command)[step[o]]
Last(o) == Len(Writes(now[o].command))

\* Fault: what can be generated again is not digested.
FaultyDigested(f) == IF f \in {"human-report.md", Report} THEN 4 ELSE 0

\* How many artifacts digestOutputs has read back for f.
Digested(f) ==
  CASE f = "human-report.md" -> 6
    [] f = Report            -> 7
    [] OTHER                 -> 0

Digests(o, f) == [k \in 1..Digested(f) |-> dir[o][Artifacts[k]].bytes]

-----------------------------------------------------------------------------

OutputInit ==
  /\ dir = [o \in Owners |-> [f \in Files |-> Missing]]
  /\ now = [o \in Owners |-> CHOOSE i \in Invocation : TRUE]
  /\ number = [o \in Owners |-> 0] /\ step = [o \in Owners |-> 1]
  /\ opened = [o \in Owners |-> FALSE] /\ exit = [o \in Owners |-> "none"]

\* A command has its results and the directory exists.
Invoke(o, i) ==
  /\ exit[o] # "running"
  /\ number[o] < Limit
  /\ now' = [now EXCEPT ![o] = i]
  /\ number' = [number EXCEPT ![o] = @ + 1]
  /\ step' = [step EXCEPT ![o] = 1]
  /\ exit' = [exit EXCEPT ![o] = "running"]
  /\ UNCHANGED <<dir, opened>>

\* os.WriteFile creates or truncates the file ...
Open(o) ==
  /\ exit[o] = "running"
  /\ step[o] <= Last(o) /\ ~opened[o]
  /\ dir' = [dir EXCEPT ![o][File(o)] = Torn(number[o])]
  /\ opened' = [opened EXCEPT ![o] = TRUE]
  /\ UNCHANGED <<now, number, step, exit>>

\* ... and fills it.
Fill(o) ==
  /\ exit[o] = "running"
  /\ opened[o]
  /\ dir' = [dir EXCEPT ![o][File(o)] =
       [by |-> number[o], bytes |-> Bytes(File(o), now[o].version, number[o]),
        digests |-> Digests(o, File(o)), closed |-> now[o].closed]]
  /\ opened' = [opened EXCEPT ![o] = FALSE]
  /\ step' = [step EXCEPT ![o] = @ + 1]
  /\ UNCHANGED <<now, number, exit>>

\* An error, or a kill, at any step; what was written stays.
Stop(o) ==
  /\ exit[o] = "running"
  /\ exit' = [exit EXCEPT ![o] = "failed"]
  /\ opened' = [opened EXCEPT ![o] = FALSE]
  /\ UNCHANGED <<dir, now, number, step>>

\* The result is printed.
Finish(o) ==
  /\ exit[o] = "running"
  /\ step[o] > Last(o)
  /\ exit' = [exit EXCEPT ![o] = "ok"]
  /\ UNCHANGED <<dir, now, number, step, opened>>

OutputStep(o) == Open(o) \/ Fill(o) \/ Stop(o) \/ Finish(o)

OutputNext ==
  \E o \in Owners : (\E i \in Invocation : Invoke(o, i)) \/ OutputStep(o)

OutputSpec == OutputInit /\ [][OutputNext]_output

-----------------------------------------------------------------------------
(* Properties *)

Cell ==
  [by : Nat, closed : BOOLEAN,
   bytes : {<<"missing">>, <<"torn">>} \cup (Versions \X Nat),
   digests : Seq({<<"missing">>, <<"torn">>} \cup (Versions \X Nat))]

\* The type of every variable; only a file nobody opened is missing.
OutputTypeOK ==
  /\ \A o \in Owners, f \in Files :
       dir[o][f].bytes = <<"missing">> <=> dir[o][f].by = 0
  /\ dir \in [Owners -> [Files -> Cell]]
  /\ now \in [Owners -> Invocation]
  /\ number \in [Owners -> 0..Limit] /\ step \in [Owners -> 1..9]
  /\ opened \in [Owners -> BOOLEAN]
  /\ exit \in [Owners -> {"none", "running", "ok", "failed"}]

\* A complete report stands beside artifacts that its invocation completed or a
\* later one reopened, never beside older or missing ones; and a conformance
\* that exits with success leaves its own.
ReportLast ==
  \A o \in Owners :
    LET report == dir[o][Report]
    IN  /\ Whole(report) =>
             \A k \in 1..7 : LET file == dir[o][Artifacts[k]]
                             IN  /\ file.by >= report.by
                                 /\ file.by = report.by => Whole(file)
        /\ exit[o] = "ok" /\ now[o].command = "conformance" =>
             Whole(report) /\ report.by = number[o]

\* The digests of a report, compared with the files.
Verified(files) ==
  /\ Whole(files[Report])
  /\ \A k \in DOMAIN files[Report].digests :
       files[Report].digests[k] = files[Artifacts[k]].bytes

\* The artifacts are what the invocation that wrote the report wrote.
OfOneInvocation(files) ==
  LET id == files[Report].bytes
  IN  \A k \in 1..7 : files[Artifacts[k]].bytes = Bytes(Artifacts[k], id[1], id[2])

\* Whatever later commands left half done in the directory of an earlier report,
\* a set of files that agrees with the digests of its report is what the
\* report's invocation wrote, byte for byte: no mixture of two runs goes
\* unnoticed.
MixtureNoticed == \A o \in Owners : Verified(dir[o]) => OfOneInvocation(dir[o])

=============================================================================
