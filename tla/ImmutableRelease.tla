-------------------------- MODULE ImmutableRelease --------------------------
(***************************************************************************)
(* The job of .github/workflows/immutable-release.yml, composed with       *)
(* EvidenceOutput, whose conformance it runs in a fresh directory.  Pushing *)
(* the tag starts a job; a failed one may be run again; nothing keeps two  *)
(* jobs apart.  A job may die anywhere.  A caller at a shell, "shell", runs *)
(* the commands in a directory of its own.                                 *)
(*                                                                         *)
(* The releases and the gh command are external, modelled as the job uses  *)
(* them.  One tag is considered.  A lookup that fails reads like "no       *)
(* release".  A tag may have several drafts but one published release,     *)
(* which keeps its tag and its assets for ever if the repository has       *)
(* immutable releases.  Where a tag has several releases, gh edits any.    *)
(***************************************************************************)
EXTENDS EvidenceOutput

CONSTANTS
  Jobs,   \* the jobs that may be started
  Calls   \* the invocations of the shell considered

ASSUME JobAssumption ==
  /\ Owners = Jobs \cup {"shell"} /\ "shell" \notin Jobs
  /\ "none" \notin Versions
  /\ Calls \subseteq Invocation

VARIABLES
  caller,     \* "shell" or "workflow": who is considered in this behavior
  protected,  \* the repository has immutable releases
  tag,        \* where the tag points and whether it is annotated
  releases,   \* the releases of the tag
  at,         \* the step of each job
  sha,        \* GITHUB_SHA of each job
  moved,      \* history: the tag has moved since the job checked it
  alone       \* history: the job was the only one, and its lookup was answered

server == <<tag, releases>>
jobs   == <<at, sha, moved, alone>>
vars   == <<output, caller, protected, server, jobs>>

NoTag == [version |-> "none", annotated |-> FALSE]

\* assets: what the tar holds, the files of the job's directory; nothing when
\* the upload failed.
Draft(j, assets) ==
  [job |-> j, version |-> sha[j], assets |-> assets, draft |-> TRUE]

Published == {r \in releases : ~r.draft}

\* A job that might still add a release.
Pending == {j \in Jobs : at[j] \notin {"unborn", "publish", "verify", "done", "failed"}}

-----------------------------------------------------------------------------

Init ==
  /\ OutputInit
  /\ caller \in {"shell", "workflow"} /\ protected \in BOOLEAN
  /\ tag = NoTag /\ releases = {}
  /\ at = [j \in Jobs |-> "unborn"] /\ sha = [j \in Jobs |-> "none"]
  /\ moved = [j \in Jobs |-> FALSE] /\ alone = [j \in Jobs |-> TRUE]

Shell ==
  /\ caller = "shell"
  /\ (\E i \in Calls : Invoke("shell", i)) \/ OutputStep("shell")
  /\ UNCHANGED <<caller, protected, server, jobs>>

Begin(j, v) ==
  /\ at[j] = "unborn"
  /\ at' = [at EXCEPT ![j] = "look"]
  /\ sha' = [sha EXCEPT ![j] = v]

\* on.push.tags: the tag is pushed, or moved while GitHub lets it.
PushTag(v, annotated, j) ==
  /\ caller = "workflow"
  /\ ~protected \/ Published = {}
  /\ tag' = [version |-> v, annotated |-> annotated]
  /\ moved' = [k \in Jobs |-> moved[k] \/ at[k] \notin {"unborn", "look", "tag"}]
  /\ Begin(j, v)
  /\ UNCHANGED <<output, caller, protected, releases, alone>>

\* A failed job is run again, for the commit it was started for.
Rerun(k, j) ==
  /\ at[k] = "failed"
  /\ Begin(j, sha[k])
  /\ UNCHANGED <<output, caller, protected, server, moved, alone>>

Goto(j, place) == at' = [at EXCEPT ![j] = place]

\* An exit 1, or the end of the runner.
Fail(j) ==
  /\ at[j] \notin {"unborn", "conformance", "done", "failed"}
  /\ Goto(j, "failed")
  /\ UNCHANGED <<output, caller, protected, server, sha, moved, alone>>

\* Fault: the lookup is one by tag, which finds no drafts.
FaultyFound == Published # {}

\* gh release view finds drafts too.
Found == releases # {}

\* The view fails as well when it gets no answer.
Look(j, answered) ==
  /\ at[j] = "look"
  /\ Goto(j, IF answered /\ Found THEN "failed" ELSE "tag")
  /\ alone' = [alone EXCEPT ![j] = answered /\ Pending = {j}]
  /\ UNCHANGED <<output, caller, protected, server, sha, moved>>

\* Fault: any annotated tag will do.
FaultyTagChecked(j) == tag.annotated

\* The tag is annotated and points to the commit of the job.
TagChecked(j) == tag.annotated /\ tag.version = sha[j]

CheckTag(j) ==
  /\ at[j] = "tag"
  /\ Goto(j, IF TagChecked(j) THEN "gates" ELSE "failed")
  /\ UNCHANGED <<output, caller, protected, server, sha, moved, alone>>

\* Build, test, vet, gofmt and audit have passed; the conformance starts.
Conform(j, closed) ==
  /\ at[j] = "gates"
  /\ Goto(j, "conformance")
  /\ Invoke(j, [command |-> "conformance", version |-> sha[j], closed |-> closed])
  /\ UNCHANGED <<caller, protected, server, sha, moved, alone>>

Conformance(j) ==
  /\ at[j] = "conformance"
  /\ OutputStep(j)
  /\ UNCHANGED <<caller, protected, server, jobs>>

\* Fault: a conformance that exits with success is taken for a closed one.
FaultyClosed(j) == exit[j] = "ok"

\* set -e, then jq on the report.
Closed(j) ==
  exit[j] = "ok" /\ Whole(dir[j][Report]) /\ dir[j][Report].closed

Decide(j) ==
  /\ at[j] = "conformance"
  /\ exit[j] # "running"
  /\ Goto(j, IF Closed(j) THEN "create" ELSE "failed")
  /\ UNCHANGED <<output, caller, protected, server, sha, moved, alone>>

\* gh release create --draft --verify-tag with the tar of the directory.
Create(j) ==
  /\ at[j] = "create"
  /\ tag # NoTag
  /\ \/ releases' = releases \cup {Draft(j, dir[j])} /\ Goto(j, "publish")
     \/ releases' = releases \cup {Draft(j, <<>>)} /\ Goto(j, "failed")
  /\ UNCHANGED <<output, caller, protected, tag, sha, moved, alone>>

\* gh release edit --draft=false: GitHub refuses a second published release of
\* a tag, and has nothing to do for a published one.
Publish(j, r) ==
  /\ at[j] = "publish"
  /\ r \in releases
  /\ IF r.draft /\ Published # {}
       THEN Goto(j, "failed") /\ UNCHANGED releases
       ELSE /\ Goto(j, "verify")
            /\ releases' = (releases \ {r}) \cup {[r EXCEPT !.draft = FALSE]}
  /\ UNCHANGED <<output, caller, protected, tag, sha, moved, alone>>

\* Fault: that the release is immutable is not tested.
FaultyForGood == Published # {}

\* The release of the tag is no draft and immutable; the test of its commit
\* ends in "|| true".
ForGood == Published # {} /\ protected

Verify(j) ==
  /\ at[j] = "verify"
  /\ Goto(j, IF ForGood THEN "done" ELSE "failed")
  /\ UNCHANGED <<output, caller, protected, server, sha, moved, alone>>

Job(j) ==
  \/ Fail(j) \/ (\E answered \in BOOLEAN : Look(j, answered)) \/ CheckTag(j)
  \/ (\E closed \in BOOLEAN : Conform(j, closed)) \/ Conformance(j) \/ Decide(j)
  \/ Create(j) \/ (\E r \in releases : Publish(j, r)) \/ Verify(j)

\* The shell has made its calls; no job is under way.
Over ==
  /\ IF caller = "shell" THEN exit["shell"] # "running" /\ number["shell"] = Limit
                         ELSE \A j \in Jobs : at[j] \in {"unborn", "done", "failed"}
  /\ UNCHANGED vars

Next ==
  \/ Shell \/ Over
  \/ \E j \in Jobs :
       \/ \E v \in Versions, annotated \in BOOLEAN : PushTag(v, annotated, j)
       \/ \E k \in Jobs : Rerun(k, j)
       \/ Job(j)

Spec == Init /\ [][Next]_vars
-----------------------------------------------------------------------------
(* Properties *)

\* The type of every variable, of EvidenceOutput too.
TypeOK ==
  /\ OutputTypeOK
  /\ caller \in {"shell", "workflow"} /\ protected \in BOOLEAN
  /\ tag \in [version : Versions \cup {"none"}, annotated : BOOLEAN]
  /\ \A r \in releases :
       r.job \in Jobs /\ r.version \in Versions /\ r.draft \in BOOLEAN
  /\ at \in [Jobs -> {"unborn", "look", "tag", "gates", "conformance", "create",
                      "publish", "verify", "done", "failed"}]
  /\ sha \in [Jobs -> Versions \cup {"none"}]
  /\ moved \in [Jobs -> BOOLEAN] /\ alone \in [Jobs -> BOOLEAN]

Complete(r) ==
  /\ r.assets # <<>>
  /\ Verified(r.assets) /\ OfOneInvocation(r.assets)
  /\ r.assets[Report].closed
  /\ r.assets[Report].bytes[1] = r.version

\* README.md:64: what is published is the whole output of a closed conformance
\* of the commit its job was started for.  It can be empty, of a job whose upload
\* failed, only beside a complete draft that gh could have published; the output
\* of an open conformance, a part of one or a mixture of two it never is.
PublishedIsClosed ==
  \A r \in Published :
    \/ Complete(r)
    \/ r.assets = <<>> /\ \E s \in releases : Complete(s)

\* "release already exists; refusing to replace": of two releases of the tag, one
\* is of a job that shared the tag with another under way or got no answer to
\* its lookup, whatever died between draft and publication and was run again.
OneRelease ==
  \A r, s \in releases : alone[r.job] /\ alone[s.job] => r = s

\* The published commit is the tag's, unless the tag was moved after the check.
PublishedCommitTagged ==
  \A r \in Published : ~moved[r.job] => r.version = tag.version

\* README.md:65, "publishes it once, and checks the immutable release response":
\* once a job has succeeded, no other job, rerun or push changes what is
\* published or moves its tag, though rivals of the tag may still be under way.
SuccessIsFinal ==
  [][(\E j \in Jobs : at[j] = "done") => UNCHANGED <<tag, Published>>]_vars

=============================================================================
