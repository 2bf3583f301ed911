---------------------------- MODULE Verification ----------------------------
(***************************************************************************)
(* CI verification of one name@version (src/src/api/publish.rs, the tasks  *)
(* publish spawns and run_verification_pipeline): one Tokio task per CI    *)
(* image, a counter of the tasks left, a flag set by a rejecting task, and *)
(* the versions row they settle through db.set_version_status.             *)
(*                                                                         *)
(* The version may be published in several channels, and again after an    *)
(* admin deleted the package; each publish starts a job of its own.        *)
(***************************************************************************)
EXTENDS Integers, FiniteSets

CONSTANTS
    Jobs,              \* the publishes of this version
    Channels,
    Platforms,         \* platforms an image may be configured for
    Default,           \* the platform called "default"
    Images,            \* the platforms verify_images has an image for
    VerifyImage,       \* whether the single-image verify_image is set
    RuntimeFound,      \* whether docker or podman may be found: TRUE, FALSE or both
    MaxDeletes, MaxRestarts, MaxDbErrors,   \* bounds
    NULL

ASSUME ConfigAssumption ==
    /\ Default \in Platforms
    /\ Images \subseteq Platforms
    /\ IsFiniteSet(Platforms)
    /\ VerifyImage \in BOOLEAN
    /\ RuntimeFound \subseteq BOOLEAN
    /\ NULL \notin Jobs \cup Channels
    /\ MaxDeletes \in Nat /\ MaxRestarts \in Nat /\ MaxDbErrors \in Nat

VARIABLES
    status,      \* versions.status per channel, "none" without a row
    insertedBy,  \* the publish that inserted that row (the audit log has it)
    channel,     \* per job: the channel it published to
    pipelines,   \* per job: pipeline_images
    remaining,   \* per job: AtomicUsize, tasks that have not finished
    rejected,    \* per job: AtomicBool, some task rejected
    task,        \* per job and platform: the task's next call
    outcome,     \* per job and platform: what run_verification_pipeline saw
    tested,      \* per job and platform: whose tarball the container was given
    temp,        \* per platform: whose tarball the temp file holds
    deletes, restarts, dbErrors

rowVars  == <<status, insertedBy>>
jobVars  == <<channel, pipelines>>
voteVars == <<remaining, rejected>>
runVars  == <<outcome, tested, temp>>
bounds   == <<deletes, restarts, dbErrors>>
vars     == <<rowVars, jobVars, voteVars, task, runVars, bounds>>

-----------------------------------------------------------------------------
(* Values. *)

\* verify_images wins over verify_image; "default" applies to every package.
PipelineImages(supports) ==
    IF Images # {}
      THEN {p \in Images : p = Default \/ supports = {} \/ p \in supports}
      ELSE IF VerifyImage THEN {Default} ELSE {}

Statuses == {"none", "pending", "published", "rejected"}

\* "crash" stands for a failed launch and for output that is not JSON.
Outcomes == {"none", "json_pass", "json_fail", "crash", "temp_error", "no_runtime"}

\* Without a container runtime the pipeline counts as passed.
Passing == {"json_pass", "no_runtime"}
Failing == Outcomes \ (Passing \cup {"none"})

BeforeVote == {"write_temp", "run", "remove_temp", "set_rejected", "store_flag",
               "countdown"}
AfterVote  == {"check_flag", "set_published"}
Tasks      == BeforeVote \cup AfterVote \cup {"none", "done", "lost"}

Started(j) == channel[j] # NULL

TaskGoto(j, p, label) == task' = [task EXCEPT ![j][p] = label]

\* set_version_status by name, version and channel, expecting no status, its
\* error ignored.
SetVersionStatus(c, new) ==
    \/ /\ status' = [status EXCEPT ![c] = IF @ = "none" THEN "none" ELSE new]
       /\ UNCHANGED dbErrors
    \/ /\ dbErrors < MaxDbErrors
       /\ dbErrors' = dbErrors + 1
       /\ UNCHANGED status

-----------------------------------------------------------------------------
(* Publishing and deleting. *)

\* Mutant: the counter starts too high.
TotalPlusOne(images) == Cardinality(images) + 1

Total(images) == Cardinality(images)

\* The end of the publish handler: insert the row, spawn a task per image.
PublishVersion(j, c, supports) ==
    LET images == PipelineImages(supports) IN
    /\ ~Started(j)
    /\ status[c] = "none"
    /\ status' = [status EXCEPT ![c] = IF images = {} THEN "published" ELSE "pending"]
    /\ insertedBy' = [insertedBy EXCEPT ![c] = j]
    /\ channel' = [channel EXCEPT ![j] = c]
    /\ pipelines' = [pipelines EXCEPT ![j] = images]
    /\ remaining' = [remaining EXCEPT ![j] = Total(images)]
    /\ task' = [task EXCEPT ![j] =
                  [p \in Platforms |-> IF p \in images THEN "write_temp" ELSE "none"]]
    /\ UNCHANGED <<rejected, runVars, bounds>>

\* DELETE /admin/packages/:name cascades to the row; running tasks go on.
DeletePackage(c) ==
    /\ deletes < MaxDeletes
    /\ status[c] # "none"
    /\ status' = [status EXCEPT ![c] = "none"]
    /\ insertedBy' = [insertedBy EXCEPT ![c] = NULL]
    /\ deletes' = deletes + 1
    /\ UNCHANGED <<jobVars, voteVars, task, runVars, restarts, dbErrors>>

-----------------------------------------------------------------------------
(* One pipeline. *)

\* The temp file is named after name, version and platform only.
WriteTemp(j, p) ==
    /\ task[j][p] = "write_temp"
    /\ \/ /\ temp' = [temp EXCEPT ![p] = j]
          /\ \/ /\ TRUE \in RuntimeFound
                /\ TaskGoto(j, p, "run")
                /\ UNCHANGED outcome
             \/ /\ FALSE \in RuntimeFound
                /\ TaskGoto(j, p, "remove_temp")
                /\ outcome' = [outcome EXCEPT ![j][p] = "no_runtime"]
       \/ /\ TaskGoto(j, p, "set_rejected")
          /\ outcome' = [outcome EXCEPT ![j][p] = "temp_error"]
          /\ UNCHANGED temp
    /\ UNCHANGED <<rowVars, jobVars, voteVars, tested, bounds>>

\* The container sees whatever file carries that name by now; without one it
\* has nothing to build.
RunContainer(j, p) ==
    /\ task[j][p] = "run"
    /\ \E o \in {"json_pass", "json_fail", "crash"} :
          /\ o = "json_pass" => temp[p] # NULL
          /\ outcome' = [outcome EXCEPT ![j][p] = o]
    /\ tested' = [tested EXCEPT ![j][p] = temp[p]]
    /\ TaskGoto(j, p, "remove_temp")
    /\ UNCHANGED <<rowVars, jobVars, voteVars, temp, bounds>>

RemoveTemp(j, p) ==
    /\ task[j][p] = "remove_temp"
    /\ temp' = [temp EXCEPT ![p] = NULL]
    /\ TaskGoto(j, p, IF outcome[j][p] \in Passing THEN "countdown"
                                                   ELSE "set_rejected")
    /\ UNCHANGED <<rowVars, jobVars, voteVars, outcome, tested, bounds>>

\* Mutant: the flag is forgotten.
SetRejectedUnflagged(j, p) ==
    /\ task[j][p] = "set_rejected"
    /\ SetVersionStatus(channel[j], "rejected")
    /\ TaskGoto(j, p, "countdown")
    /\ UNCHANGED <<insertedBy, jobVars, voteVars, runVars, deletes, restarts>>

SetRejected(j, p) ==
    /\ task[j][p] = "set_rejected"
    /\ SetVersionStatus(channel[j], "rejected")
    /\ TaskGoto(j, p, "store_flag")
    /\ UNCHANGED <<insertedBy, jobVars, voteVars, runVars, deletes, restarts>>

StoreFlag(j, p) ==
    /\ task[j][p] = "store_flag"
    /\ rejected' = [rejected EXCEPT ![j] = TRUE]
    /\ TaskGoto(j, p, "countdown")
    /\ UNCHANGED <<rowVars, jobVars, remaining, runVars, bounds>>

\* Mutant: as if fetch_sub returned the new value.
CountdownByNewValue(j, p) ==
    /\ task[j][p] = "countdown"
    /\ remaining' = [remaining EXCEPT ![j] = @ - 1]
    /\ TaskGoto(j, p, IF remaining[j] - 1 = 1 THEN "check_flag" ELSE "done")
    /\ UNCHANGED <<rowVars, jobVars, rejected, runVars, bounds>>

\* fetch_sub returns the value before: 1 makes this task the last.
Countdown(j, p) ==
    /\ task[j][p] = "countdown"
    /\ remaining' = [remaining EXCEPT ![j] = @ - 1]
    /\ TaskGoto(j, p, IF remaining[j] = 1 THEN "check_flag" ELSE "done")
    /\ UNCHANGED <<rowVars, jobVars, rejected, runVars, bounds>>

CheckFlag(j, p) ==
    /\ task[j][p] = "check_flag"
    /\ TaskGoto(j, p, IF rejected[j] THEN "done" ELSE "set_published")
    /\ UNCHANGED <<rowVars, jobVars, voteVars, runVars, bounds>>

SetPublished(j, p) ==
    /\ task[j][p] = "set_published"
    /\ SetVersionStatus(channel[j], "published")
    /\ TaskGoto(j, p, "done")
    /\ UNCHANGED <<insertedBy, jobVars, voteVars, runVars, deletes, restarts>>

TaskStep(j, p) ==
    \/ WriteTemp(j, p) \/ RunContainer(j, p) \/ RemoveTemp(j, p)
    \/ SetRejected(j, p) \/ StoreFlag(j, p)
    \/ Countdown(j, p) \/ CheckFlag(j, p) \/ SetPublished(j, p)

\* The process ends: every task that has not finished is lost, nothing resumes it.
Restart ==
    /\ restarts < MaxRestarts
    /\ \E j \in Jobs, p \in Platforms : task[j][p] \notin {"none", "done", "lost"}
    /\ task' = [j \in Jobs |-> [p \in Platforms |->
                  IF task[j][p] \in {"none", "done"} THEN task[j][p] ELSE "lost"]]
    /\ restarts' = restarts + 1
    /\ UNCHANGED <<rowVars, jobVars, voteVars, runVars, deletes, dbErrors>>

-----------------------------------------------------------------------------

Init ==
    /\ status     = [c \in Channels |-> "none"]
    /\ insertedBy = [c \in Channels |-> NULL]
    /\ channel    = [j \in Jobs |-> NULL]
    /\ pipelines  = [j \in Jobs |-> {}]
    /\ remaining  = [j \in Jobs |-> 0]
    /\ rejected   = [j \in Jobs |-> FALSE]
    /\ task       = [j \in Jobs |-> [p \in Platforms |-> "none"]]
    /\ outcome    = [j \in Jobs |-> [p \in Platforms |-> "none"]]
    /\ tested     = [j \in Jobs |-> [p \in Platforms |-> NULL]]
    /\ temp       = [p \in Platforms |-> NULL]
    /\ deletes    = 0
    /\ restarts   = 0
    /\ dbErrors   = 0

Next ==
    \/ \E j \in Jobs, c \in Channels, supports \in SUBSET (Platforms \ {Default}) :
          PublishVersion(j, c, supports)
    \/ \E j \in Jobs, p \in Platforms : TaskStep(j, p)
    \/ \E c \in Channels : DeletePackage(c)
    \/ Restart

Spec == Init /\ [][Next]_vars

\* Tokio keeps polling a spawned task, and containers end (the code sets no limit).
Fairness == \A j \in Jobs, p \in Platforms : WF_vars(TaskStep(j, p))

FairSpec == Spec /\ Fairness

-----------------------------------------------------------------------------
(* Types. *)

\* Every row, counter, flag and task keeps its type.
TypeOK ==
    /\ status \in [Channels -> Statuses]
    /\ insertedBy \in [Channels -> Jobs \cup {NULL}]
    /\ channel \in [Jobs -> Channels \cup {NULL}]
    /\ pipelines \in [Jobs -> SUBSET Platforms]
    /\ remaining \in [Jobs -> Nat]
    /\ rejected \in [Jobs -> BOOLEAN]
    /\ task \in [Jobs -> [Platforms -> Tasks]]
    /\ outcome \in [Jobs -> [Platforms -> Outcomes]]
    /\ tested \in [Jobs -> [Platforms -> Jobs \cup {NULL}]]
    /\ temp \in [Platforms -> Jobs \cup {NULL}]
    /\ deletes \in 0..MaxDeletes
    /\ restarts \in 0..MaxRestarts
    /\ dbErrors \in 0..MaxDbErrors

-----------------------------------------------------------------------------
(* Safety, as long as no deleted version is published again: the tasks of *)
(* the first publish would then settle the row of the second.              *)

\* publish.rs: "All tasks vote: the version is published only when every task
\* passes."  Tasks run and write in any order, a write may fail and the process
\* may restart; a version is public only if the pipelines of the publish that
\* inserted it all passed.
PublicMeansUnanimous ==
    \A c \in Channels :
        status[c] = "published" =>
            \A p \in pipelines[insertedBy[c]] : outcome[insertedBy[c]][p] \in Passing

\* A rejected version stays rejected as long as it is listed, whichever task
\* writes last.
RejectedIsFinal ==
    [][\A c \in Channels :
          status[c] = "rejected" => status'[c] \in {"rejected", "none"}]_vars

\* Deletions or not, one task per job at most takes itself for the last one, and
\* it goes on to publish only when all the pipelines of its own job passed.
OneLastTask ==
    \A j \in Jobs, p \in Platforms :
        task[j][p] \in AfterVote =>
            /\ \A q \in Platforms : task[j][q] \in AfterVote => q = p
            /\ task[j][p] = "set_published" =>
                  \A q \in pipelines[j] : outcome[j][q] \in Passing

-----------------------------------------------------------------------------
(* The inductive strengthening the proofs use.  First what holds of a job  *)
(* whatever happens to its row.                                            *)

Voting(j) == {p \in Platforms : task[j][p] \in BeforeVote}

\* A job has one task per pipeline, and none before it starts.
TasksArePipelines ==
    \A j \in Jobs :
        /\ \A p \in Platforms : p \in pipelines[j] <=> task[j][p] # "none"
        /\ ~Started(j) => pipelines[j] = {}

\* What a task knows of its outcome at each call: past its vote, an outcome
\* that does not pass has raised the flag.
OutcomesAreFlagged ==
    \A j \in Jobs, p \in Platforms :
        /\ task[j][p] \in {"none", "write_temp", "run"} => outcome[j][p] = "none"
        /\ task[j][p] = "remove_temp" => outcome[j][p] # "none"
        /\ task[j][p] \in {"set_rejected", "store_flag"} => outcome[j][p] \in Failing
        /\ task[j][p] \in {"countdown", "done"} \cup AfterVote =>
              \/ outcome[j][p] \in Passing
              \/ outcome[j][p] \in Failing /\ rejected[j]

\* A restart takes all the unfinished tasks of a job.
LostTogether ==
    \A j \in Jobs, p, q \in Platforms :
        task[j][p] = "lost" => task[j][q] \in {"none", "done", "lost"}

\* Until then the counter counts the tasks that have yet to vote.
CountIsExact ==
    \A j \in Jobs :
        (\A p \in Platforms : task[j][p] # "lost") =>
            remaining[j] = Cardinality(Voting(j))

\* The last task has no vote to wait for.
LastTaskIsLast ==
    \A j \in Jobs, p \in Platforms :
        task[j][p] \in AfterVote => Voting(j) = {}

JobInv ==
    /\ TypeOK
    /\ TasksArePipelines /\ OutcomesAreFlagged /\ LostTogether
    /\ CountIsExact /\ LastTaskIsLast /\ OneLastTask

(* Then what holds of the rows as long as no deleted version is published  *)
(* again.                                                                  *)

PublishedOnce ==
    \A i, j \in Jobs : channel[i] # NULL /\ channel[i] = channel[j] => i = j

\* A row was inserted by a job of its channel: the only one, and gone with a deletion.
RowsHaveJobs ==
    /\ \A c \in Channels, j \in Jobs : insertedBy[c] = j => channel[j] = c
    /\ \A c \in Channels : status[c] = "none" <=> insertedBy[c] = NULL

RejectedForCause ==
    \A c \in Channels :
        status[c] = "rejected" =>
            \E p \in pipelines[insertedBy[c]] : outcome[insertedBy[c]][p] \in Failing

RowInv == RowsHaveJobs /\ RejectedForCause /\ PublicMeansUnanimous

\* Without deletions a job's row stays, and no other is inserted for its channel.
JobsHaveRows ==
    /\ deletes = 0
    /\ \A j \in Jobs : channel[j] # NULL => insertedBy[channel[j]] = j
    /\ \A c \in Channels : insertedBy[c] # NULL => status[c] # "none"

-----------------------------------------------------------------------------
(* Liveness. *)

\* Unless a restart or a failing write gets in the way, every pending version
\* gets a verdict, whatever its tasks do to each other.
PendingSettles ==
    \A c \in Channels :
        status[c] = "pending" ~> status[c] # "pending" \/ restarts + dbErrors > 0

-----------------------------------------------------------------------------
(* Refinement. *)

Ballot(j, p) ==
    IF p \notin pipelines[j] THEN "out"
    ELSE IF outcome[j][p] \in Passing THEN "yes"
    ELSE IF outcome[j][p] \in Failing THEN "no" ELSE "open"

Ballots ==
    [c \in Channels |-> [p \in Platforms |->
        IF insertedBy[c] = NULL THEN "out" ELSE Ballot(insertedBy[c], p)]]

V == INSTANCE Verdict WITH row <- status, ballot <- Ballots

\* The tasks, the counter and the flag carry out the vote of module Verdict.
ImplementsVerdict == V!Spec
=============================================================================
