------------------------- MODULE VerificationProofs -------------------------
(***************************************************************************)
(* Proofs about module Verification, for any jobs, channels, platforms,    *)
(* image configuration and bounds.                                         *)
(***************************************************************************)
EXTENDS Verification, FiniteSetTheorems, TLAPS

-----------------------------------------------------------------------------
(* Assignments to one task of one job. *)

LEMMA TaskGotoEffect ==
    ASSUME TypeOK, NEW j \in Jobs, NEW p \in Platforms, NEW label \in Tasks,
           TaskGoto(j, p, label)
    PROVE  /\ task' \in [Jobs -> [Platforms -> Tasks]]
           /\ task'[j][p] = label
           /\ \A i \in Jobs, q \in Platforms :
                 i # j \/ q # p => task'[i][q] = task[i][q]
BY DEF TypeOK, TaskGoto

LEMMA OutcomeEffect ==
    ASSUME TypeOK, NEW j \in Jobs, NEW p \in Platforms, NEW o \in Outcomes,
           outcome' = [outcome EXCEPT ![j][p] = o]
    PROVE  /\ outcome' \in [Jobs -> [Platforms -> Outcomes]]
           /\ outcome'[j][p] = o
           /\ \A i \in Jobs, q \in Platforms :
                 i # j \/ q # p => outcome'[i][q] = outcome[i][q]
BY DEF TypeOK

LEMMA TaskLabels ==
    Tasks = {"write_temp", "run", "remove_temp", "set_rejected", "store_flag",
             "countdown", "check_flag", "set_published", "none", "done", "lost"}
BY DEF Tasks, BeforeVote, AfterVote

LEMMA OutcomeKinds ==
    /\ Passing = {"json_pass", "no_runtime"}
    /\ Failing = {"json_fail", "crash", "temp_error"}
    /\ Outcomes = Passing \cup Failing \cup {"none"}
BY DEF Outcomes, Passing, Failing

LEMMA VotingIsFinite ==
    ASSUME NEW j \in Jobs
    PROVE  /\ IsFiniteSet(Voting(j))
           /\ Cardinality(Voting(j)) \in Nat
           /\ Cardinality(Voting(j)) = 0 <=> Voting(j) = {}
<1>1. Voting(j) \subseteq Platforms
  BY DEF Voting
<1>2. IsFiniteSet(Voting(j))
  BY <1>1, FS_Subset, ConfigAssumption
<1> QED
  BY <1>2, FS_CardinalityType, FS_EmptySet

LEMMA ImagesArePlatforms ==
    ASSUME NEW supports
    PROVE  /\ PipelineImages(supports) \in SUBSET Platforms
           /\ IsFiniteSet(PipelineImages(supports))
           /\ Cardinality(PipelineImages(supports)) \in Nat
<1>1. PipelineImages(supports) \in SUBSET Platforms
  BY ConfigAssumption DEF PipelineImages
<1>2. IsFiniteSet(PipelineImages(supports))
  BY <1>1, FS_Subset, ConfigAssumption
<1> QED
  BY <1>1, <1>2, FS_CardinalityType

-----------------------------------------------------------------------------
(* The vote of a job, whatever happens to its row. *)

\* A task that has yet to vote makes a call and has still to vote afterwards.
LEMMA VoterStep ==
    ASSUME JobInv, NEW j \in Jobs, NEW p \in Platforms,
           NEW label \in BeforeVote,
           task[j][p] \in BeforeVote,
           TaskGoto(j, p, label),
           UNCHANGED <<channel, pipelines, remaining>>,
           \A i \in Jobs : i # j => outcome'[i] = outcome[i]
    PROVE  TasksArePipelines' /\ LostTogether' /\ CountIsExact'
               /\ LastTaskIsLast' /\ OneLastTask'
<1>1. /\ task'[j][p] = label
      /\ \A i \in Jobs, q \in Platforms :
            i # j \/ q # p => task'[i][q] = task[i][q]
  BY TaskGotoEffect DEF JobInv, Tasks
<1>2. \A i \in Jobs : Voting(i)' = Voting(i)
  BY <1>1 DEF Voting
<1>3. label \notin {"none", "lost", "done"} /\ label \notin AfterVote
  BY DEF BeforeVote, AfterVote
<1>4. task[j][p] \notin {"none", "lost", "done"} /\ task[j][p] \notin AfterVote
  BY DEF BeforeVote, AfterVote
<1>5. \A q \in Platforms : task[j][q] # "lost" /\ task[j][q] \notin AfterVote
  BY <1>4 DEF JobInv, LostTogether, LastTaskIsLast, Voting
<1>6. TasksArePipelines'
  BY <1>1, <1>3, <1>4 DEF JobInv, TasksArePipelines, Started
<1>7. LostTogether'
  BY <1>1, <1>3, <1>5 DEF JobInv, LostTogether
<1>8. CountIsExact'
  BY <1>1, <1>2, <1>3, <1>5 DEF JobInv, CountIsExact
<1>9. LastTaskIsLast'
  BY <1>1, <1>2, <1>3 DEF JobInv, LastTaskIsLast
<1>10. OneLastTask'
  BY <1>1, <1>3, <1>5 DEF JobInv, OneLastTask
<1> QED
  BY <1>6, <1>7, <1>8, <1>9, <1>10

LEMMA JobInit == Init => JobInv
<1> SUFFICES ASSUME Init PROVE JobInv
  OBVIOUS
<1>1. TypeOK
  BY ConfigAssumption, TaskLabels, OutcomeKinds DEF Init, TypeOK, Statuses
<1>2. \A j \in Jobs : Voting(j) = {}
  BY DEF Init, Voting, BeforeVote
<1>3. CountIsExact
  BY <1>2, VotingIsFinite DEF Init, CountIsExact
<1> QED
  BY <1>1, <1>3 DEF Init, JobInv, TasksArePipelines, OutcomesAreFlagged,
     LostTogether, LastTaskIsLast, OneLastTask, AfterVote, Started

LEMMA PublishKeepsJobInv ==
    ASSUME JobInv, NEW j \in Jobs, NEW c \in Channels, NEW supports,
           PublishVersion(j, c, supports)
    PROVE  JobInv'
<1> DEFINE images == PipelineImages(supports)
<1>1. /\ images \in SUBSET Platforms
      /\ IsFiniteSet(images)
      /\ Cardinality(images) \in Nat
  BY ImagesArePlatforms
<1>2. /\ channel[j] = NULL
      /\ status' = [status EXCEPT ![c] = IF images = {} THEN "published" ELSE "pending"]
      /\ insertedBy' = [insertedBy EXCEPT ![c] = j]
      /\ channel' = [channel EXCEPT ![j] = c]
      /\ pipelines' = [pipelines EXCEPT ![j] = images]
      /\ remaining' = [remaining EXCEPT ![j] = Cardinality(images)]
      /\ task' = [task EXCEPT ![j] =
                    [p \in Platforms |-> IF p \in images THEN "write_temp" ELSE "none"]]
      /\ UNCHANGED <<rejected, outcome, tested, temp, deletes, restarts, dbErrors>>
  BY DEF PublishVersion, Total, Started, runVars, bounds
<1> HIDE DEF images
<1>3. \A p \in Platforms : task[j][p] = "none" /\ outcome[j][p] = "none"
  BY <1>2 DEF JobInv, TasksArePipelines, OutcomesAreFlagged, Started
<1>4. /\ \A p \in Platforms :
            task'[j][p] = IF p \in images THEN "write_temp" ELSE "none"
      /\ \A i \in Jobs : i # j => task'[i] = task[i]
      /\ task' \in [Jobs -> [Platforms -> Tasks]]
  BY <1>2, TaskLabels DEF JobInv, TypeOK
<1>5. /\ pipelines'[j] = images
      /\ \A i \in Jobs : i # j => pipelines'[i] = pipelines[i] /\ channel'[i] = channel[i]
                                    /\ remaining'[i] = remaining[i]
      /\ channel'[j] = c
      /\ remaining'[j] = Cardinality(images)
  BY <1>2 DEF JobInv, TypeOK
<1>6. Voting(j)' = images /\ \A i \in Jobs : i # j => Voting(i)' = Voting(i)
  BY <1>1, <1>4 DEF Voting, BeforeVote
<1>7. TypeOK'
  BY <1>1, <1>2, <1>4 DEF JobInv, TypeOK, Statuses
<1>8. TasksArePipelines'
  BY <1>1, <1>4, <1>5, ConfigAssumption DEF JobInv, TasksArePipelines, Started
<1>9. OutcomesAreFlagged'
  BY <1>2, <1>3, <1>4 DEF JobInv, OutcomesAreFlagged, AfterVote
<1>10. LostTogether'
  BY <1>4 DEF JobInv, LostTogether
<1>11. CountIsExact'
  BY <1>4, <1>5, <1>6 DEF JobInv, CountIsExact
<1>12. LastTaskIsLast'
  BY <1>4, <1>6 DEF JobInv, LastTaskIsLast, AfterVote
<1>13. OneLastTask'
  BY <1>2, <1>4, <1>5 DEF JobInv, OneLastTask, AfterVote
<1> QED
  BY <1>7, <1>8, <1>9, <1>10, <1>11, <1>12, <1>13 DEF JobInv

LEMMA SetStatusType ==
    ASSUME TypeOK, NEW j \in Jobs, NEW new \in {"published", "rejected"},
           SetVersionStatus(channel[j], new)
    PROVE  /\ status' \in [Channels -> Statuses]
           /\ dbErrors' \in 0..MaxDbErrors
<1>1. status' \in [Channels -> Statuses]
  BY DEF TypeOK, SetVersionStatus, Statuses
<1>2. MaxDbErrors \in Nat /\ dbErrors \in 0..MaxDbErrors
  BY ConfigAssumption DEF TypeOK
<1>3. \/ dbErrors' = dbErrors
      \/ dbErrors < MaxDbErrors /\ dbErrors' = dbErrors + 1
  BY DEF SetVersionStatus
<1> QED
  BY <1>1, <1>2, <1>3

LEMMA WriteTempKeepsJobInv ==
    ASSUME JobInv, NEW j \in Jobs, NEW p \in Platforms, WriteTemp(j, p)
    PROVE  JobInv'
<1>1. /\ task[j][p] = "write_temp" /\ outcome[j][p] = "none"
      /\ UNCHANGED <<rowVars, jobVars, voteVars, tested, bounds>>
  BY DEF WriteTemp, JobInv, OutcomesAreFlagged
<1>2. PICK label \in BeforeVote :
        /\ TaskGoto(j, p, label)
        /\ \/ label = "run" /\ UNCHANGED outcome
           \/ /\ label = "remove_temp"
              /\ outcome' = [outcome EXCEPT ![j][p] = "no_runtime"]
           \/ /\ label = "set_rejected"
              /\ outcome' = [outcome EXCEPT ![j][p] = "temp_error"]
  BY DEF WriteTemp, BeforeVote
<1>3. /\ task' \in [Jobs -> [Platforms -> Tasks]]
      /\ task'[j][p] = label
      /\ \A i \in Jobs, q \in Platforms : i # j \/ q # p => task'[i][q] = task[i][q]
  BY <1>2, TaskGotoEffect DEF JobInv, Tasks
<1>4. /\ outcome' \in [Jobs -> [Platforms -> Outcomes]]
      /\ label = "run" => outcome'[j][p] = "none"
      /\ label = "remove_temp" => outcome'[j][p] = "no_runtime"
      /\ label = "set_rejected" => outcome'[j][p] = "temp_error"
      /\ \A i \in Jobs, q \in Platforms :
            i # j \/ q # p => outcome'[i][q] = outcome[i][q]
      /\ \A i \in Jobs : i # j => outcome'[i] = outcome[i]
  <2>1. CASE label = "run" /\ UNCHANGED outcome
    BY <1>1, <2>1 DEF JobInv, TypeOK
  <2>2. ASSUME NEW o \in {"no_runtime", "temp_error"},
               outcome' = [outcome EXCEPT ![j][p] = o]
        PROVE  /\ outcome' \in [Jobs -> [Platforms -> Outcomes]]
               /\ outcome'[j][p] = o
               /\ \A i \in Jobs, q \in Platforms :
                     i # j \/ q # p => outcome'[i][q] = outcome[i][q]
               /\ \A i \in Jobs : i # j => outcome'[i] = outcome[i]
    BY <2>2, OutcomeKinds DEF JobInv, TypeOK
  <2> QED
    BY <1>2, <2>1, <2>2
<1>5. temp' \in [Platforms -> Jobs \cup {NULL}]
  BY DEF WriteTemp, JobInv, TypeOK
<1>6. TypeOK'
  BY <1>1, <1>3, <1>4, <1>5 DEF JobInv, TypeOK, rowVars, jobVars, voteVars, bounds
<1>7. OutcomesAreFlagged'
  BY <1>1, <1>2, <1>3, <1>4, OutcomeKinds
     DEF JobInv, OutcomesAreFlagged, AfterVote, voteVars
<1>8. task[j][p] \in BeforeVote
  BY <1>1 DEF BeforeVote
<1> QED
  BY <1>1, <1>2, <1>4, <1>6, <1>7, <1>8, VoterStep DEF JobInv, jobVars, voteVars

LEMMA RunContainerKeepsJobInv ==
    ASSUME JobInv, NEW j \in Jobs, NEW p \in Platforms, RunContainer(j, p)
    PROVE  JobInv'
<1>1. /\ task[j][p] = "run"
      /\ TaskGoto(j, p, "remove_temp")
      /\ tested' = [tested EXCEPT ![j][p] = temp[p]]
      /\ UNCHANGED <<rowVars, jobVars, voteVars, temp, bounds>>
  BY DEF RunContainer
<1>2. PICK o \in {"json_pass", "json_fail", "crash"} :
        outcome' = [outcome EXCEPT ![j][p] = o]
  BY DEF RunContainer
<1>3. /\ task' \in [Jobs -> [Platforms -> Tasks]]
      /\ task'[j][p] = "remove_temp"
      /\ \A i \in Jobs, q \in Platforms : i # j \/ q # p => task'[i][q] = task[i][q]
  BY <1>1, TaskGotoEffect, TaskLabels DEF JobInv
<1>4. /\ outcome' \in [Jobs -> [Platforms -> Outcomes]]
      /\ outcome'[j][p] # "none"
      /\ \A i \in Jobs, q \in Platforms :
            i # j \/ q # p => outcome'[i][q] = outcome[i][q]
      /\ \A i \in Jobs : i # j => outcome'[i] = outcome[i]
  BY <1>2, OutcomeKinds DEF JobInv, TypeOK
<1>5. tested' \in [Jobs -> [Platforms -> Jobs \cup {NULL}]]
  BY <1>1 DEF JobInv, TypeOK
<1>6. TypeOK'
  BY <1>1, <1>3, <1>4, <1>5 DEF JobInv, TypeOK, rowVars, jobVars, voteVars, bounds
<1>7. OutcomesAreFlagged'
  BY <1>1, <1>3, <1>4 DEF JobInv, OutcomesAreFlagged, AfterVote, voteVars
<1>8. task[j][p] \in BeforeVote /\ "remove_temp" \in BeforeVote
  BY <1>1 DEF BeforeVote
<1> QED
  BY <1>1, <1>4, <1>6, <1>7, <1>8, VoterStep DEF JobInv, jobVars, voteVars

LEMMA RemoveTempKeepsJobInv ==
    ASSUME JobInv, NEW j \in Jobs, NEW p \in Platforms, RemoveTemp(j, p)
    PROVE  JobInv'
<1> DEFINE label == IF outcome[j][p] \in Passing THEN "countdown" ELSE "set_rejected"
<1>1. /\ task[j][p] = "remove_temp"
      /\ TaskGoto(j, p, label)
      /\ temp' = [temp EXCEPT ![p] = NULL]
      /\ UNCHANGED <<rowVars, jobVars, voteVars, outcome, tested, bounds>>
  BY DEF RemoveTemp
<1>2. task[j][p] \in BeforeVote /\ label \in BeforeVote /\ label \in Tasks
  BY <1>1 DEF BeforeVote, Tasks
<1>3. \/ label = "countdown" /\ outcome[j][p] \in Passing
      \/ label = "set_rejected" /\ outcome[j][p] \in Failing
  <2>1. outcome[j][p] # "none" /\ outcome[j][p] \in Outcomes
    BY <1>1 DEF JobInv, OutcomesAreFlagged, TypeOK
  <2> QED
    BY <2>1, OutcomeKinds
<1> HIDE DEF label
<1>4. /\ task' \in [Jobs -> [Platforms -> Tasks]]
      /\ task'[j][p] = label
      /\ \A i \in Jobs, q \in Platforms : i # j \/ q # p => task'[i][q] = task[i][q]
  BY <1>1, <1>2, TaskGotoEffect DEF JobInv
<1>5. temp' \in [Platforms -> Jobs \cup {NULL}]
  BY <1>1 DEF JobInv, TypeOK
<1>6. TypeOK'
  BY <1>1, <1>4, <1>5 DEF JobInv, TypeOK, rowVars, jobVars, voteVars, bounds
<1>7. OutcomesAreFlagged'
  BY <1>1, <1>3, <1>4, OutcomeKinds
     DEF JobInv, OutcomesAreFlagged, AfterVote, voteVars
<1> QED
  BY <1>1, <1>2, <1>6, <1>7, VoterStep DEF JobInv, jobVars, voteVars

LEMMA SetRejectedKeepsJobInv ==
    ASSUME JobInv, NEW j \in Jobs, NEW p \in Platforms, SetRejected(j, p)
    PROVE  JobInv'
<1>1. /\ task[j][p] = "set_rejected"
      /\ TaskGoto(j, p, "store_flag")
      /\ SetVersionStatus(channel[j], "rejected")
      /\ UNCHANGED <<insertedBy, jobVars, voteVars, runVars, deletes, restarts>>
  BY DEF SetRejected
<1>2. /\ task' \in [Jobs -> [Platforms -> Tasks]]
      /\ task'[j][p] = "store_flag"
      /\ \A i \in Jobs, q \in Platforms : i # j \/ q # p => task'[i][q] = task[i][q]
  BY <1>1, TaskGotoEffect, TaskLabels DEF JobInv
<1>3. TypeOK'
  BY <1>1, <1>2, SetStatusType DEF JobInv, TypeOK, jobVars, voteVars, runVars
<1>4. OutcomesAreFlagged'
  BY <1>1, <1>2 DEF JobInv, OutcomesAreFlagged, AfterVote, voteVars, runVars
<1>5. task[j][p] \in BeforeVote /\ "store_flag" \in BeforeVote
  BY <1>1 DEF BeforeVote
<1> QED
  BY <1>1, <1>3, <1>4, <1>5, VoterStep DEF JobInv, jobVars, voteVars, runVars

LEMMA StoreFlagKeepsJobInv ==
    ASSUME JobInv, NEW j \in Jobs, NEW p \in Platforms, StoreFlag(j, p)
    PROVE  JobInv'
<1>1. /\ task[j][p] = "store_flag"
      /\ TaskGoto(j, p, "countdown")
      /\ rejected' = [rejected EXCEPT ![j] = TRUE]
      /\ UNCHANGED <<rowVars, jobVars, remaining, runVars, bounds>>
  BY DEF StoreFlag
<1>2. /\ task' \in [Jobs -> [Platforms -> Tasks]]
      /\ task'[j][p] = "countdown"
      /\ \A i \in Jobs, q \in Platforms : i # j \/ q # p => task'[i][q] = task[i][q]
  BY <1>1, TaskGotoEffect, TaskLabels DEF JobInv
<1>3. /\ rejected' \in [Jobs -> BOOLEAN]
      /\ rejected'[j] /\ \A i \in Jobs : rejected[i] => rejected'[i]
  BY <1>1 DEF JobInv, TypeOK
<1>4. TypeOK'
  BY <1>1, <1>2, <1>3 DEF JobInv, TypeOK, rowVars, jobVars, runVars, bounds
<1>5. OutcomesAreFlagged'
  <2>1. SUFFICES ASSUME NEW i \in Jobs, NEW q \in Platforms
                 PROVE  OutcomesAreFlagged!(i, q)'
    BY DEF OutcomesAreFlagged
  <2> QED
    BY <1>1, <1>2, <1>3 DEF JobInv, OutcomesAreFlagged, AfterVote, runVars
<1>6. task[j][p] \in BeforeVote /\ "countdown" \in BeforeVote
  BY <1>1 DEF BeforeVote
<1> QED
  BY <1>1, <1>4, <1>5, <1>6, VoterStep DEF JobInv, jobVars, runVars

LEMMA CountdownKeepsJobInv ==
    ASSUME JobInv, NEW j \in Jobs, NEW p \in Platforms, Countdown(j, p)
    PROVE  JobInv'
<1> DEFINE label == IF remaining[j] = 1 THEN "check_flag" ELSE "done"
<1>1. /\ task[j][p] = "countdown"
      /\ remaining' = [remaining EXCEPT ![j] = @ - 1]
      /\ TaskGoto(j, p, label)
      /\ UNCHANGED <<rowVars, jobVars, rejected, runVars, bounds>>
  BY DEF Countdown
<1>2. /\ task' \in [Jobs -> [Platforms -> Tasks]]
      /\ task'[j][p] = label
      /\ label \in {"check_flag", "done"}
      /\ label = "check_flag" <=> remaining[j] = 1
      /\ \A i \in Jobs, q \in Platforms : i # j \/ q # p => task'[i][q] = task[i][q]
  BY <1>1, TaskGotoEffect, TaskLabels DEF JobInv
<1> HIDE DEF label
<1>3. p \in Voting(j) /\ \A q \in Platforms : task[j][q] # "lost" /\ task[j][q] \notin AfterVote
  BY <1>1 DEF JobInv, LostTogether, LastTaskIsLast, Voting, BeforeVote
<1>4. /\ Voting(j)' = Voting(j) \ {p}
      /\ \A i \in Jobs : i # j => Voting(i)' = Voting(i)
  BY <1>2 DEF Voting, BeforeVote
<1>5. /\ remaining[j] = Cardinality(Voting(j))
      /\ Cardinality(Voting(j)') = remaining[j] - 1
      /\ remaining[j] - 1 \in Nat
      /\ remaining[j] = 1 => Voting(j)' = {}
  <2>1. remaining[j] = Cardinality(Voting(j))
    BY <1>3 DEF JobInv, CountIsExact
  <2>2. /\ IsFiniteSet(Voting(j) \ {p})
        /\ Cardinality(Voting(j) \ {p}) = Cardinality(Voting(j)) - 1
    BY <1>3, VotingIsFinite, FS_RemoveElement
  <2>3. Cardinality(Voting(j) \ {p}) \in Nat
    BY <2>2, FS_CardinalityType
  <2>4. Cardinality(Voting(j) \ {p}) = 0 => Voting(j) \ {p} = {}
    BY <2>2, FS_EmptySet
  <2> QED
    BY <1>4, <2>1, <2>2, <2>3, <2>4, VotingIsFinite
<1>6. /\ remaining' \in [Jobs -> Nat]
      /\ remaining'[j] = remaining[j] - 1
      /\ \A i \in Jobs : i # j => remaining'[i] = remaining[i]
  BY <1>1, <1>5 DEF JobInv, TypeOK
<1>7. TypeOK'
  BY <1>1, <1>2, <1>6 DEF JobInv, TypeOK, rowVars, jobVars, runVars, bounds
<1>8. TasksArePipelines'
  BY <1>1, <1>2 DEF JobInv, TasksArePipelines, Started, jobVars
<1>9. OutcomesAreFlagged'
  BY <1>1, <1>2 DEF JobInv, OutcomesAreFlagged, AfterVote, runVars
<1>10. LostTogether'
  BY <1>2, <1>3 DEF JobInv, LostTogether
<1>11. CountIsExact'
  <2>1. remaining'[j] = Cardinality(Voting(j)')
    BY <1>5, <1>6
  <2>2. ASSUME NEW i \in Jobs, i # j, \A q \in Platforms : task'[i][q] # "lost"
        PROVE  remaining'[i] = Cardinality(Voting(i)')
    BY <1>2, <1>4, <1>6, <2>2 DEF JobInv, CountIsExact
  <2> QED
    BY <2>1, <2>2 DEF CountIsExact
<1>12. LastTaskIsLast'
  BY <1>2, <1>3, <1>4, <1>5 DEF JobInv, LastTaskIsLast, AfterVote
<1>13. OneLastTask'
  BY <1>1, <1>2, <1>3 DEF JobInv, OneLastTask, AfterVote, runVars, jobVars
<1> QED
  BY <1>7, <1>8, <1>9, <1>10, <1>11, <1>12, <1>13 DEF JobInv

LEMMA CheckFlagKeepsJobInv ==
    ASSUME JobInv, NEW j \in Jobs, NEW p \in Platforms, CheckFlag(j, p)
    PROVE  JobInv'
<1> DEFINE label == IF rejected[j] THEN "done" ELSE "set_published"
<1>1. /\ task[j][p] = "check_flag"
      /\ TaskGoto(j, p, label)
      /\ UNCHANGED <<rowVars, jobVars, voteVars, runVars, bounds>>
  BY DEF CheckFlag
<1>2. /\ task' \in [Jobs -> [Platforms -> Tasks]]
      /\ task'[j][p] = label
      /\ label \in {"done", "set_published"}
      /\ label = "set_published" => ~rejected[j]
      /\ \A i \in Jobs, q \in Platforms : i # j \/ q # p => task'[i][q] = task[i][q]
  BY <1>1, TaskGotoEffect, TaskLabels DEF JobInv
<1> HIDE DEF label
<1>3. /\ Voting(j) = {}
      /\ \A q \in Platforms : task[j][q] # "lost"
      /\ \A q \in Platforms : task[j][q] \in AfterVote => q = p
  BY <1>1 DEF JobInv, LastTaskIsLast, LostTogether, OneLastTask, AfterVote
<1>4. \A i \in Jobs : Voting(i)' = Voting(i)
  BY <1>1, <1>2 DEF Voting, BeforeVote
<1>5. ASSUME label = "set_published", NEW q \in pipelines[j]
      PROVE  outcome[j][q] \in Passing
  <2>1. q \in Platforms /\ task[j][q] \in Tasks /\ task[j][q] # "none"
    BY DEF JobInv, TypeOK, TasksArePipelines
  <2>2. task[j][q] \in {"done"} \cup AfterVote
    BY <1>3, <2>1 DEF Tasks, Voting
  <2> QED
    BY <1>2, <1>5, <2>1, <2>2 DEF JobInv, OutcomesAreFlagged
<1>6. TypeOK'
  BY <1>1, <1>2 DEF JobInv, TypeOK, rowVars, jobVars, voteVars, runVars, bounds
<1>7. TasksArePipelines'
  BY <1>1, <1>2 DEF JobInv, TasksArePipelines, Started, jobVars
<1>8. OutcomesAreFlagged'
  BY <1>1, <1>2 DEF JobInv, OutcomesAreFlagged, AfterVote, runVars, voteVars
<1>9. LostTogether'
  BY <1>2, <1>3 DEF JobInv, LostTogether
<1>10. CountIsExact'
  BY <1>1, <1>2, <1>3, <1>4 DEF JobInv, CountIsExact, voteVars
<1>11. LastTaskIsLast'
  BY <1>1, <1>2, <1>3, <1>4 DEF JobInv, LastTaskIsLast
<1>12. OneLastTask'
  BY <1>1, <1>2, <1>3, <1>5 DEF JobInv, OneLastTask, AfterVote, runVars, jobVars
<1> QED
  BY <1>6, <1>7, <1>8, <1>9, <1>10, <1>11, <1>12 DEF JobInv

LEMMA SetPublishedKeepsJobInv ==
    ASSUME JobInv, NEW j \in Jobs, NEW p \in Platforms, SetPublished(j, p)
    PROVE  JobInv'
<1>1. /\ task[j][p] = "set_published"
      /\ TaskGoto(j, p, "done")
      /\ SetVersionStatus(channel[j], "published")
      /\ UNCHANGED <<insertedBy, jobVars, voteVars, runVars, deletes, restarts>>
  BY DEF SetPublished
<1>2. /\ task' \in [Jobs -> [Platforms -> Tasks]]
      /\ task'[j][p] = "done"
      /\ \A i \in Jobs, q \in Platforms : i # j \/ q # p => task'[i][q] = task[i][q]
  BY <1>1, TaskGotoEffect, TaskLabels DEF JobInv
<1>3. /\ Voting(j) = {}
      /\ \A q \in Platforms : task[j][q] # "lost"
  BY <1>1 DEF JobInv, LastTaskIsLast, LostTogether, AfterVote
<1>4. \A i \in Jobs : Voting(i)' = Voting(i)
  BY <1>1, <1>2 DEF Voting, BeforeVote
<1>5. TypeOK'
  BY <1>1, <1>2, SetStatusType DEF JobInv, TypeOK, jobVars, voteVars, runVars
<1>6. TasksArePipelines'
  BY <1>1, <1>2 DEF JobInv, TasksArePipelines, Started, jobVars
<1>7. OutcomesAreFlagged'
  BY <1>1, <1>2 DEF JobInv, OutcomesAreFlagged, AfterVote, runVars, voteVars
<1>8. LostTogether'
  BY <1>2, <1>3 DEF JobInv, LostTogether
<1>9. CountIsExact'
  BY <1>1, <1>2, <1>3, <1>4 DEF JobInv, CountIsExact, voteVars
<1>10. LastTaskIsLast'
  BY <1>1, <1>2, <1>3, <1>4 DEF JobInv, LastTaskIsLast, AfterVote
<1>11. OneLastTask'
  BY <1>1, <1>2 DEF JobInv, OneLastTask, AfterVote, runVars, jobVars
<1> QED
  BY <1>5, <1>6, <1>7, <1>8, <1>9, <1>10, <1>11 DEF JobInv

LEMMA RestartKeepsJobInv ==
    ASSUME JobInv, Restart
    PROVE  JobInv'
<1>1. /\ restarts < MaxRestarts
      /\ task' = [j \in Jobs |-> [p \in Platforms |->
                    IF task[j][p] \in {"none", "done"} THEN task[j][p] ELSE "lost"]]
      /\ restarts' = restarts + 1
      /\ UNCHANGED <<rowVars, jobVars, voteVars, runVars, deletes, dbErrors>>
  BY DEF Restart
<1>2. /\ task' \in [Jobs -> [Platforms -> Tasks]]
      /\ \A j \in Jobs, p \in Platforms :
            /\ task'[j][p] \in {"none", "done", "lost"}
            /\ task'[j][p] \in {"none", "done"} => task'[j][p] = task[j][p]
            /\ task[j][p] = "none" => task'[j][p] = "none"
  BY <1>1, TaskLabels
<1>3. \A j \in Jobs : Voting(j)' = {}
  BY <1>2 DEF Voting, BeforeVote
<1>4. restarts' \in 0..MaxRestarts
  BY <1>1, ConfigAssumption DEF JobInv, TypeOK
<1>5. TypeOK'
  BY <1>1, <1>2, <1>4 DEF JobInv, TypeOK, rowVars, jobVars, voteVars, runVars
<1>6. TasksArePipelines'
  BY <1>1, <1>2 DEF JobInv, TasksArePipelines, Started, jobVars
<1>7. OutcomesAreFlagged'
  BY <1>1, <1>2 DEF JobInv, OutcomesAreFlagged, AfterVote, runVars, voteVars
<1>8. LostTogether'
  BY <1>2 DEF LostTogether
<1>9. CountIsExact'
  <2>1. ASSUME NEW j \in Jobs, \A p \in Platforms : task'[j][p] # "lost"
        PROVE  remaining'[j] = Cardinality(Voting(j)')
    <3>1. \A p \in Platforms : task[j][p] \in {"none", "done"}
      BY <1>2, <2>1
    <3>2. Voting(j) = {} /\ \A p \in Platforms : task[j][p] # "lost"
      BY <3>1 DEF Voting, BeforeVote
    <3>3. remaining'[j] = remaining[j]
      BY <1>1 DEF voteVars
    <3>4. remaining[j] = Cardinality(Voting(j))
      BY <3>2 DEF JobInv, CountIsExact
    <3> QED
      BY <1>3, <3>2, <3>3, <3>4
  <2> QED
    BY <2>1 DEF CountIsExact
<1>10. LastTaskIsLast' /\ OneLastTask'
  BY <1>2 DEF LastTaskIsLast, OneLastTask, AfterVote
<1> QED
  BY <1>5, <1>6, <1>7, <1>8, <1>9, <1>10 DEF JobInv

LEMMA DeleteKeepsJobInv ==
    ASSUME JobInv, NEW c \in Channels, DeletePackage(c)
    PROVE  JobInv'
<1>1. /\ deletes < MaxDeletes
      /\ status' = [status EXCEPT ![c] = "none"]
      /\ insertedBy' = [insertedBy EXCEPT ![c] = NULL]
      /\ deletes' = deletes + 1
      /\ UNCHANGED <<jobVars, voteVars, task, runVars, restarts, dbErrors>>
  BY DEF DeletePackage
<1>2. deletes' \in 0..MaxDeletes
  BY <1>1, ConfigAssumption DEF JobInv, TypeOK
<1>3. TypeOK'
  BY <1>1, <1>2 DEF JobInv, TypeOK, Statuses, jobVars, voteVars, runVars
<1>4. \A j \in Jobs : Voting(j)' = Voting(j)
  BY <1>1 DEF Voting
<1>5. CountIsExact' /\ LastTaskIsLast'
  BY <1>1, <1>4 DEF JobInv, CountIsExact, LastTaskIsLast, voteVars
<1>6. TasksArePipelines' /\ OutcomesAreFlagged' /\ LostTogether' /\ OneLastTask'
  BY <1>1 DEF JobInv, TasksArePipelines, OutcomesAreFlagged, LostTogether,
     OneLastTask, Started, jobVars, voteVars, runVars
<1> QED
  BY <1>3, <1>5, <1>6 DEF JobInv

LEMMA JobStep == JobInv /\ [Next]_vars => JobInv'
<1> SUFFICES ASSUME JobInv, [Next]_vars PROVE JobInv'
  OBVIOUS
<1>1. ASSUME NEW j \in Jobs, NEW c \in Channels,
             NEW supports \in SUBSET (Platforms \ {Default}),
             PublishVersion(j, c, supports)
      PROVE  JobInv'
  BY <1>1, PublishKeepsJobInv
<1>2. ASSUME NEW j \in Jobs, NEW p \in Platforms, TaskStep(j, p)
      PROVE  JobInv'
  BY <1>2, WriteTempKeepsJobInv, RunContainerKeepsJobInv, RemoveTempKeepsJobInv,
     SetRejectedKeepsJobInv, StoreFlagKeepsJobInv, CountdownKeepsJobInv,
     CheckFlagKeepsJobInv, SetPublishedKeepsJobInv
     DEF TaskStep
<1>3. ASSUME NEW c \in Channels, DeletePackage(c) PROVE JobInv'
  BY <1>3, DeleteKeepsJobInv
<1>4. ASSUME Restart PROVE JobInv'
  BY <1>4, RestartKeepsJobInv
<1>5. CASE UNCHANGED vars
  <2>1. \A j \in Jobs : Voting(j)' = Voting(j)
    BY <1>5 DEF vars, Voting
  <2> QED
    BY <1>5, <2>1 DEF JobInv, TypeOK, TasksArePipelines, OutcomesAreFlagged,
       LostTogether, CountIsExact, LastTaskIsLast, OneLastTask, Started,
       vars, rowVars, jobVars, voteVars, runVars, bounds
<1> QED
  BY <1>1, <1>2, <1>3, <1>4, <1>5 DEF Next

\* The invariant of the jobs: what every task knows of its outcome, and what the
\* counter counts, under restarts, failing writes and deleted rows.
THEOREM JobInvariance == Spec => []JobInv
BY JobInit, JobStep, PTL DEF Spec

\* Every row, counter, flag and task keeps its type; the counter never wraps.
THEOREM VerificationTypes == Spec => []TypeOK
<1>1. JobInv => TypeOK
  BY DEF JobInv
<1> QED
  BY <1>1, JobInvariance, PTL

\* One task of a job at most takes itself for the last, and it publishes only a
\* job whose pipelines all passed, whatever became of the row.
THEOREM LastTaskVotesForAll == Spec => []OneLastTask
<1>1. JobInv => OneLastTask
  BY DEF JobInv
<1> QED
  BY <1>1, JobInvariance, PTL

-----------------------------------------------------------------------------
(* The rows, as long as no deleted version is published again. *)

\* A task that has started belongs to the row of its channel, if that is still there.
LEMMA RowOfTask ==
    ASSUME JobInv, RowInv, PublishedOnce,
           NEW j \in Jobs, NEW p \in Platforms, task[j][p] # "none"
    PROVE  /\ channel[j] \in Channels
           /\ status[channel[j]] # "none" => insertedBy[channel[j]] = j
           /\ p \in pipelines[j]
<1>1. p \in pipelines[j] /\ channel[j] # NULL
  BY DEF JobInv, TasksArePipelines, Started
<1>2. channel[j] \in Channels
  BY <1>1 DEF JobInv, TypeOK
<1>3. ASSUME status[channel[j]] # "none" PROVE insertedBy[channel[j]] = j
  <2>1. insertedBy[channel[j]] \in Jobs
    BY <1>2, <1>3 DEF JobInv, TypeOK, RowInv, RowsHaveJobs
  <2>2. channel[insertedBy[channel[j]]] = channel[j]
    BY <1>2, <2>1 DEF RowInv, RowsHaveJobs
  <2> QED
    BY <1>1, <2>1, <2>2 DEF PublishedOnce
<1> QED
  BY <1>1, <1>2, <1>3

\* Jobs keep their channel.
LEMMA StillPublishedOnce ==
    ASSUME JobInv, [Next]_vars, PublishedOnce'
    PROVE  PublishedOnce
<1>1. \A j \in Jobs : channel[j] # NULL => channel'[j] = channel[j]
  <2>1. ASSUME NEW j \in Jobs, NEW c \in Channels, NEW supports,
               PublishVersion(j, c, supports)
        PROVE  \A i \in Jobs : channel[i] # NULL => channel'[i] = channel[i]
    BY <2>1 DEF PublishVersion, Started, JobInv, TypeOK
  <2>2. ASSUME NEW j \in Jobs, NEW p \in Platforms, TaskStep(j, p)
        PROVE  UNCHANGED channel
    BY <2>2 DEF TaskStep, WriteTemp, RunContainer, RemoveTemp, SetRejected, StoreFlag,
       Countdown, CheckFlag, SetPublished, jobVars
  <2>3. CASE (\E c \in Channels : DeletePackage(c)) \/ Restart \/ UNCHANGED vars
    BY <2>3 DEF DeletePackage, Restart, vars, jobVars
  <2> QED
    BY <2>1, <2>2, <2>3 DEF Next
<1> QED
  BY <1>1 DEF PublishedOnce

LEMMA JobOfRow ==
    ASSUME JobInv, RowInv, NEW c \in Channels, status[c] # "none"
    PROVE  /\ insertedBy[c] \in Jobs
           /\ pipelines[insertedBy[c]] \in SUBSET Platforms
BY DEF JobInv, TypeOK, RowInv, RowsHaveJobs

\* Steps that leave the rows alone and change no outcome that is known.
LEMMA RowsAlone ==
    ASSUME JobInv, RowInv,
           UNCHANGED <<status, insertedBy, channel, pipelines>>,
           \A i \in Jobs, q \in Platforms :
               outcome[i][q] # "none" => outcome'[i][q] = outcome[i][q]
    PROVE  RowInv'
<1>1. "none" \notin Passing /\ "none" \notin Failing
  BY OutcomeKinds
<1>2. RowsHaveJobs'
  BY DEF RowInv, RowsHaveJobs
<1>3. ASSUME NEW c \in Channels, status'[c] = "rejected"
      PROVE  \E p \in pipelines'[insertedBy'[c]] : outcome'[insertedBy'[c]][p] \in Failing
  <2>1. insertedBy[c] \in Jobs /\ pipelines[insertedBy[c]] \in SUBSET Platforms
    BY <1>3, JobOfRow
  <2>2. PICK p \in pipelines[insertedBy[c]] : outcome[insertedBy[c]][p] \in Failing
    BY <1>3 DEF RowInv, RejectedForCause
  <2>3. outcome'[insertedBy[c]][p] = outcome[insertedBy[c]][p]
    BY <1>1, <2>1, <2>2
  <2> QED
    BY <2>2, <2>3
<1>4. ASSUME NEW c \in Channels, status'[c] = "published",
             NEW p \in pipelines'[insertedBy'[c]]
      PROVE  outcome'[insertedBy'[c]][p] \in Passing
  <2>1. insertedBy[c] \in Jobs /\ pipelines[insertedBy[c]] \in SUBSET Platforms
    BY <1>4, JobOfRow
  <2>2. outcome[insertedBy[c]][p] \in Passing
    BY <1>4 DEF RowInv, PublicMeansUnanimous
  <2> QED
    BY <1>1, <2>1, <2>2
<1> QED
  BY <1>2, <1>3, <1>4 DEF RowInv, RejectedForCause, PublicMeansUnanimous

\* An UPDATE that finds a row, or has no effect.
LEMMA StatusWrite ==
    ASSUME TypeOK, NEW c \in Channels, NEW new, SetVersionStatus(c, new)
    PROVE  \/ UNCHANGED status
           \/ status[c] # "none" /\ status' = [status EXCEPT ![c] = new]
BY DEF SetVersionStatus, TypeOK

LEMMA PublishKeepsRowInv ==
    ASSUME JobInv, RowInv, NEW j \in Jobs, NEW c \in Channels, NEW supports,
           PublishVersion(j, c, supports)
    PROVE  RowInv'
<1> DEFINE images == PipelineImages(supports)
<1>1. /\ channel[j] = NULL
      /\ status[c] = "none"
      /\ status' = [status EXCEPT ![c] = IF images = {} THEN "published" ELSE "pending"]
      /\ insertedBy' = [insertedBy EXCEPT ![c] = j]
      /\ channel' = [channel EXCEPT ![j] = c]
      /\ pipelines' = [pipelines EXCEPT ![j] = images]
      /\ UNCHANGED outcome
  BY DEF PublishVersion, Started, runVars
<1> HIDE DEF images
<1>2. /\ insertedBy'[c] = j /\ channel'[j] = c /\ pipelines'[j] = images
      /\ status'[c] = IF images = {} THEN "published" ELSE "pending"
      /\ \A d \in Channels : d # c => insertedBy'[d] = insertedBy[d] /\ status'[d] = status[d]
      /\ \A i \in Jobs : i # j => channel'[i] = channel[i] /\ pipelines'[i] = pipelines[i]
  BY <1>1 DEF JobInv, TypeOK
<1>3. \A d \in Channels : insertedBy[d] # j
  BY <1>1, ConfigAssumption DEF RowInv, RowsHaveJobs
<1>4. RowsHaveJobs'
  BY <1>1, <1>2, <1>3, ConfigAssumption DEF RowInv, RowsHaveJobs
<1>5. \A d \in Channels : d # c /\ status[d] # "none" =>
        insertedBy[d] \in Jobs /\ pipelines'[insertedBy[d]] = pipelines[insertedBy[d]]
  BY <1>2, <1>3, JobOfRow
<1>6. RejectedForCause'
  BY <1>1, <1>2, <1>5 DEF RowInv, RejectedForCause
<1>7. PublicMeansUnanimous'
  BY <1>1, <1>2, <1>5 DEF RowInv, PublicMeansUnanimous
<1> QED
  BY <1>4, <1>6, <1>7 DEF RowInv

LEMMA SetRejectedKeepsRowInv ==
    ASSUME JobInv, RowInv, PublishedOnce,
           NEW j \in Jobs, NEW p \in Platforms, SetRejected(j, p)
    PROVE  RowInv'
<1>1. /\ task[j][p] = "set_rejected"
      /\ SetVersionStatus(channel[j], "rejected")
      /\ UNCHANGED <<insertedBy, channel, pipelines, outcome>>
  BY DEF SetRejected, jobVars, runVars
<1>2. /\ channel[j] \in Channels /\ p \in pipelines[j]
      /\ status[channel[j]] # "none" => insertedBy[channel[j]] = j
      /\ outcome[j][p] \in Failing
  BY <1>1, RowOfTask DEF JobInv, OutcomesAreFlagged
<1>3. CASE UNCHANGED status
  BY <1>1, <1>3, RowsAlone
<1>4. CASE /\ status[channel[j]] # "none"
           /\ status' = [status EXCEPT ![channel[j]] = "rejected"]
  <2>1. /\ status'[channel[j]] = "rejected"
        /\ status[channel[j]] # "none" /\ insertedBy[channel[j]] = j
        /\ \A d \in Channels : d # channel[j] => status'[d] = status[d]
    BY <1>2, <1>4 DEF JobInv, TypeOK
  <2>2. RowsHaveJobs'
    BY <1>1, <1>2, <2>1 DEF RowInv, RowsHaveJobs
  <2>3. RejectedForCause'
    BY <1>1, <1>2, <2>1 DEF RowInv, RejectedForCause
  <2>4. PublicMeansUnanimous'
    BY <1>1, <2>1 DEF RowInv, PublicMeansUnanimous
  <2> QED
    BY <2>2, <2>3, <2>4 DEF RowInv
<1> QED
  BY <1>1, <1>2, <1>3, <1>4, StatusWrite DEF JobInv

\* The last task never overrules a rejection: all the pipelines passed.
LEMMA SetPublishedKeepsRowInv ==
    ASSUME JobInv, RowInv, PublishedOnce,
           NEW j \in Jobs, NEW p \in Platforms, SetPublished(j, p)
    PROVE  /\ RowInv'
           /\ channel[j] \in Channels
           /\ status[channel[j]] # "none" => insertedBy[channel[j]] = j
           /\ status[channel[j]] # "rejected"
           /\ \A q \in pipelines[j] : outcome[j][q] \in Passing
<1>1. /\ task[j][p] = "set_published"
      /\ SetVersionStatus(channel[j], "published")
      /\ UNCHANGED <<insertedBy, channel, pipelines, outcome>>
  BY DEF SetPublished, jobVars, runVars
<1>2. /\ channel[j] \in Channels /\ p \in pipelines[j]
      /\ status[channel[j]] # "none" => insertedBy[channel[j]] = j
  BY <1>1, RowOfTask
<1>3. \A q \in pipelines[j] : outcome[j][q] \in Passing
  BY <1>1 DEF JobInv, OneLastTask, AfterVote
<1>4. status[channel[j]] # "rejected"
  <2>1. \A q \in pipelines[j] : outcome[j][q] \notin Failing
    BY <1>3, OutcomeKinds
  <2> QED
    BY <1>2, <2>1 DEF RowInv, RejectedForCause
<1>5. CASE UNCHANGED status
  BY <1>1, <1>2, <1>3, <1>4, <1>5, RowsAlone
<1>6. CASE /\ status[channel[j]] # "none"
           /\ status' = [status EXCEPT ![channel[j]] = "published"]
  <2>1. /\ status'[channel[j]] = "published"
        /\ status[channel[j]] # "none" /\ insertedBy[channel[j]] = j
        /\ \A d \in Channels : d # channel[j] => status'[d] = status[d]
    BY <1>2, <1>6 DEF JobInv, TypeOK
  <2>2. RowsHaveJobs'
    BY <1>1, <1>2, <2>1 DEF RowInv, RowsHaveJobs
  <2>3. RejectedForCause'
    BY <1>1, <2>1 DEF RowInv, RejectedForCause
  <2>4. PublicMeansUnanimous'
    BY <1>1, <1>2, <1>3, <2>1 DEF RowInv, PublicMeansUnanimous
  <2> QED
    BY <1>2, <1>3, <1>4, <2>2, <2>3, <2>4 DEF RowInv
<1> QED
  BY <1>1, <1>2, <1>5, <1>6, StatusWrite DEF JobInv

LEMMA DeleteKeepsRowInv ==
    ASSUME JobInv, RowInv, NEW c \in Channels, DeletePackage(c)
    PROVE  RowInv'
<1>1. /\ status'[c] = "none" /\ insertedBy'[c] = NULL
      /\ \A d \in Channels : d # c =>
            status'[d] = status[d] /\ insertedBy'[d] = insertedBy[d]
      /\ UNCHANGED <<channel, pipelines, outcome>>
  BY DEF DeletePackage, JobInv, TypeOK, jobVars, runVars
<1>2. RowsHaveJobs'
  BY <1>1, ConfigAssumption DEF RowInv, RowsHaveJobs
<1>3. RejectedForCause' /\ PublicMeansUnanimous'
  BY <1>1 DEF RowInv, RejectedForCause, PublicMeansUnanimous
<1> QED
  BY <1>2, <1>3 DEF RowInv

LEMMA RowInit == Init => RowInv
BY ConfigAssumption
   DEF Init, RowInv, RowsHaveJobs, RejectedForCause, PublicMeansUnanimous

LEMMA RowStep ==
    ASSUME JobInv, RowInv, PublishedOnce, [Next]_vars
    PROVE  RowInv'
<1>1. ASSUME NEW j \in Jobs, NEW c \in Channels,
             NEW supports \in SUBSET (Platforms \ {Default}),
             PublishVersion(j, c, supports)
      PROVE  RowInv'
  BY <1>1, PublishKeepsRowInv
<1>2. ASSUME NEW j \in Jobs, NEW p \in Platforms, WriteTemp(j, p) \/ RunContainer(j, p)
      PROVE  RowInv'
  <2>1. outcome[j][p] = "none"
    BY <1>2 DEF WriteTemp, RunContainer, JobInv, OutcomesAreFlagged
  <2>2. \/ UNCHANGED outcome
        \/ \E o \in Outcomes : outcome' = [outcome EXCEPT ![j][p] = o]
    BY <1>2 DEF WriteTemp, RunContainer, Outcomes
  <2>3. \A i \in Jobs, q \in Platforms :
          outcome[i][q] # "none" => outcome'[i][q] = outcome[i][q]
    BY <2>1, <2>2, OutcomeEffect DEF JobInv
  <2>4. UNCHANGED <<status, insertedBy, channel, pipelines>>
    BY <1>2 DEF WriteTemp, RunContainer, rowVars, jobVars
  <2> QED
    BY <2>3, <2>4, RowsAlone
<1>3. ASSUME NEW j \in Jobs, NEW p \in Platforms,
             \/ RemoveTemp(j, p) \/ StoreFlag(j, p)
             \/ Countdown(j, p) \/ CheckFlag(j, p)
      PROVE  RowInv'
  BY <1>3, RowsAlone
     DEF RemoveTemp, StoreFlag, Countdown, CheckFlag, rowVars, jobVars, runVars
<1>4. ASSUME NEW j \in Jobs, NEW p \in Platforms, TaskStep(j, p)
      PROVE  RowInv'
  BY <1>2, <1>3, <1>4, SetRejectedKeepsRowInv, SetPublishedKeepsRowInv DEF TaskStep
<1>5. ASSUME NEW c \in Channels, DeletePackage(c) PROVE RowInv'
  BY <1>5, DeleteKeepsRowInv
<1>6. ASSUME Restart \/ UNCHANGED vars PROVE RowInv'
  BY <1>6, RowsAlone DEF Restart, vars, rowVars, jobVars, runVars
<1> QED
  BY <1>1, <1>4, <1>5, <1>6 DEF Next

\* As long as no deleted version is published again, the rows are what the votes of
\* their jobs say.
THEOREM RowInvariance == Spec /\ []PublishedOnce => [](JobInv /\ RowInv)
<1>1. Init => JobInv /\ RowInv
  BY JobInit, RowInit
<1>2. JobInv /\ RowInv /\ PublishedOnce /\ [Next]_vars => (JobInv /\ RowInv)'
  BY JobStep, RowStep
<1> QED
  BY <1>1, <1>2, PTL DEF Spec

\* At every moment until a deleted version is published again, a version is public only
\* by a unanimous vote of the pipelines of the publish that inserted it.
THEOREM PublicByUnanimousVote == Spec => [](PublishedOnce => PublicMeansUnanimous)
<1>1. Init => JobInv /\ (PublishedOnce => RowInv)
  BY JobInit, RowInit
<1>2. JobInv /\ (PublishedOnce => RowInv) /\ [Next]_vars
        => (JobInv /\ (PublishedOnce => RowInv))'
  <2> SUFFICES ASSUME JobInv, PublishedOnce => RowInv, [Next]_vars
               PROVE  JobInv' /\ (PublishedOnce' => RowInv')
    OBVIOUS
  <2>1. JobInv'
    BY JobStep
  <2>2. PublishedOnce' => RowInv'
    BY StillPublishedOnce, RowStep
  <2> QED
    BY <2>1, <2>2
<1>3. RowInv => PublicMeansUnanimous
  BY DEF RowInv
<1> QED
  BY <1>1, <1>2, <1>3, PTL DEF Spec

\* Without deletions no version is published twice, so that what holds of those published
\* once holds of all.
THEOREM NoDeletionPublishedOnce ==
    ASSUME MaxDeletes = 0
    PROVE  Spec => []PublishedOnce
<1>1. Init => JobInv /\ JobsHaveRows
  <2>1. Init => JobsHaveRows
    BY DEF Init, JobsHaveRows
  <2> QED
    BY <2>1, JobInit
<1>2. ASSUME JobInv, JobsHaveRows, [Next]_vars PROVE JobsHaveRows'
  <2>1. ASSUME NEW j \in Jobs, NEW c \in Channels, NEW supports,
               PublishVersion(j, c, supports)
        PROVE  JobsHaveRows'
    <3>1. /\ status[c] = "none" /\ status'[c] # "none" /\ deletes' = deletes
          /\ insertedBy'[c] = j /\ channel'[j] = c
          /\ \A i \in Jobs : i # j => channel'[i] = channel[i]
          /\ \A d \in Channels : d # c =>
                status'[d] = status[d] /\ insertedBy'[d] = insertedBy[d]
      BY <1>2, <2>1 DEF PublishVersion, JobInv, TypeOK, bounds
    <3>2. \A i \in Jobs : channel[i] # c
      BY <1>2, <3>1, ConfigAssumption DEF JobsHaveRows
    <3>3. \A i \in Jobs : channel[i] # NULL => channel[i] \in Channels
      BY <1>2 DEF JobInv, TypeOK
    <3> QED
      BY <1>2, <3>1, <3>2, <3>3 DEF JobsHaveRows
  <2>2. ASSUME NEW j \in Jobs, NEW p \in Platforms, TaskStep(j, p)
        PROVE  JobsHaveRows'
    <3>1. UNCHANGED <<insertedBy, channel, deletes>>
      BY <2>2 DEF TaskStep, WriteTemp, RunContainer, RemoveTemp, SetRejected, StoreFlag,
         Countdown, CheckFlag, SetPublished, rowVars, jobVars, bounds
    <3>2. \A c \in Channels : status[c] # "none" => status'[c] # "none"
      <4>1. CASE UNCHANGED status
        BY <4>1
      <4>2. CASE SetRejected(j, p) \/ SetPublished(j, p)
        BY <1>2, <4>2 DEF SetRejected, SetPublished, SetVersionStatus, JobInv, TypeOK
      <4> QED
        BY <2>2, <4>1, <4>2 DEF TaskStep, WriteTemp, RunContainer, RemoveTemp, StoreFlag,
           Countdown, CheckFlag, rowVars
    <3> QED
      BY <1>2, <3>1, <3>2 DEF JobsHaveRows
  <2>3. ASSUME NEW c \in Channels, DeletePackage(c) PROVE FALSE
    BY <1>2, <2>3 DEF DeletePackage, JobsHaveRows
  <2>4. CASE Restart \/ UNCHANGED vars
    BY <1>2, <2>4 DEF JobsHaveRows, Restart, vars, rowVars, jobVars, bounds
  <2> QED
    BY <1>2, <2>1, <2>2, <2>3, <2>4 DEF Next
<1>3. JobInv /\ JobsHaveRows => PublishedOnce
  BY DEF JobsHaveRows, PublishedOnce
<1>4. JobInv /\ JobsHaveRows /\ [Next]_vars => (JobInv /\ JobsHaveRows)'
  BY <1>2, JobStep
<1> QED
  BY <1>1, <1>3, <1>4, PTL DEF Spec

\* As long as no deleted version is published again, a rejected version never becomes
\* public, whichever task is last.
THEOREM RejectionIsFinal == Spec /\ []PublishedOnce => RejectedIsFinal
<1> DEFINE Final == \A c \in Channels :
                       status[c] = "rejected" => status'[c] \in {"rejected", "none"}
<1>1. ASSUME JobInv, RowInv, PublishedOnce, [Next]_vars PROVE [Final]_vars
  <2>1. ASSUME NEW j \in Jobs, NEW c \in Channels,
               NEW supports \in SUBSET (Platforms \ {Default}),
               PublishVersion(j, c, supports)
        PROVE  Final
    BY <1>1, <2>1 DEF PublishVersion, JobInv, TypeOK
  <2>2. ASSUME NEW j \in Jobs, NEW p \in Platforms, TaskStep(j, p) PROVE Final
    <3>1. CASE UNCHANGED status
      BY <3>1
    <3>2. CASE SetRejected(j, p)
      BY <1>1, <3>2 DEF SetRejected, SetVersionStatus, JobInv, TypeOK
    <3>3. CASE SetPublished(j, p)
      <4>1. status[channel[j]] # "rejected"
        BY <1>1, <3>3, SetPublishedKeepsRowInv
      <4>2. \A c \in Channels : c # channel[j] => status'[c] = status[c]
        BY <1>1, <3>3 DEF SetPublished, SetVersionStatus, JobInv, TypeOK
      <4> QED
        BY <4>1, <4>2
    <3> QED
      BY <2>2, <3>1, <3>2, <3>3 DEF TaskStep, WriteTemp, RunContainer, RemoveTemp,
         StoreFlag, Countdown, CheckFlag, rowVars
  <2>3. ASSUME NEW c \in Channels, DeletePackage(c) PROVE Final
    BY <1>1, <2>3 DEF DeletePackage, JobInv, TypeOK
  <2>4. CASE Restart \/ UNCHANGED vars
    BY <2>4 DEF Restart, vars, rowVars
  <2> QED
    BY <1>1, <2>1, <2>2, <2>3, <2>4 DEF Next
<1> QED
  BY <1>1, RowInvariance, PTL DEF Spec, RejectedIsFinal

-----------------------------------------------------------------------------
(* Refinement: the tasks carry out the vote of module Verdict. *)

LEMMA BallotsAlone ==
    ASSUME UNCHANGED <<insertedBy, pipelines, outcome>>
    PROVE  Ballots' = Ballots
BY DEF Ballots, Ballot

LEMMA BallotType ==
    ASSUME NEW j \in Jobs, NEW p \in pipelines[j], p \in Platforms,
           channel[j] \in Channels, insertedBy[channel[j]] = j
    PROVE  Ballots[channel[j]][p] =
               IF outcome[j][p] \in Passing THEN "yes"
               ELSE IF outcome[j][p] \in Failing THEN "no" ELSE "open"
<1>1. j # NULL
  BY ConfigAssumption
<1> QED
  BY <1>1 DEF Ballots, Ballot

LEMMA BallotsAreVotes ==
    /\ Ballots \in [Channels -> [Platforms -> {"out", "open", "yes", "no"}]]
    /\ Ballots' \in [Channels -> [Platforms -> {"out", "open", "yes", "no"}]]
BY DEF Ballots, Ballot

\* A pipeline comes to its outcome: its vote is cast, unless the version is gone.
LEMMA OutcomeIsCast ==
    ASSUME JobInv, RowInv, PublishedOnce, NEW j \in Jobs, NEW p \in Platforms,
           NEW o \in Outcomes \ {"none"},
           task[j][p] # "none",
           outcome[j][p] = "none",
           outcome' = [outcome EXCEPT ![j][p] = o],
           UNCHANGED <<status, insertedBy, channel, pipelines>>
    PROVE  [V!Next]_(V!vvars)
<1> DEFINE c == channel[j]
           vote == IF o \in Passing THEN "yes" ELSE "no"
<1>1. c \in Channels /\ p \in pipelines[j] /\ insertedBy[c] \in {j, NULL}
  BY RowOfTask DEF RowInv, RowsHaveJobs
<1>2. j # NULL
  BY ConfigAssumption
<1>3. insertedBy[c] = j => Ballots[c][p] = "open"
  BY <1>1, BallotType, OutcomeKinds
<1>4. /\ outcome'[j][p] = o
      /\ \A i \in Jobs, q \in Platforms :
            i # j \/ q # p => outcome'[i][q] = outcome[i][q]
  BY DEF JobInv, TypeOK
<1>5. ASSUME NEW d \in Channels, NEW q \in Platforms
      PROVE  Ballots'[d][q] = IF d = c /\ q = p /\ insertedBy[c] = j
                                THEN vote ELSE Ballots[d][q]
  <2>1. Ballots'[d][q] = IF insertedBy[d] = NULL THEN "out" ELSE Ballot(insertedBy[d], q)'
    BY DEF Ballots
  <2>2. Ballots[d][q] = IF insertedBy[d] = NULL THEN "out" ELSE Ballot(insertedBy[d], q)
    BY DEF Ballots
  <2>3. CASE d = c /\ q = p /\ insertedBy[c] = j
    <3>1. Ballot(j, p)' = vote
      BY <1>1, <1>4, OutcomeKinds DEF Ballot
    <3> QED
      BY <1>1, <1>2, <2>1, <2>3, <3>1
  <2>4. CASE insertedBy[d] # NULL /\ ~(d = c /\ q = p /\ insertedBy[c] = j)
    <3>1. insertedBy[d] \in Jobs /\ (insertedBy[d] = j => d = c)
      BY <2>4 DEF JobInv, TypeOK, RowInv, RowsHaveJobs
    <3>2. outcome'[insertedBy[d]][q] = outcome[insertedBy[d]][q]
      BY <1>4, <2>4, <3>1
    <3>3. Ballot(insertedBy[d], q)' = Ballot(insertedBy[d], q)
      BY <3>2 DEF Ballot
    <3> QED
      BY <2>1, <2>2, <2>4, <3>3
  <2>5. CASE insertedBy[d] = NULL /\ ~(d = c /\ q = p /\ insertedBy[c] = j)
    BY <2>1, <2>2, <2>5
  <2> QED
    BY <2>3, <2>4, <2>5
<1>6. vote \in {"yes", "no"}
  OBVIOUS
<1> HIDE DEF c, vote
<1>7. CASE insertedBy[c] = j
  <2>1. Ballots' = [Ballots EXCEPT ![c][p] = vote]
    BY <1>1, <1>5, <1>7, BallotsAreVotes
  <2>2. V!Cast(c, p, vote)
    BY <1>3, <1>7, <2>1 DEF V!Cast
  <2> QED
    BY <1>1, <1>6, <2>2 DEF V!Next
<1>8. CASE insertedBy[c] # j
  <2>1. Ballots' = Ballots
    BY <1>5, <1>8, BallotsAreVotes
  <2> QED
    BY <2>1 DEF V!vvars
<1> QED
  BY <1>7, <1>8

LEMMA PublishOpens ==
    ASSUME JobInv, RowInv, NEW j \in Jobs, NEW c \in Channels, NEW supports,
           PublishVersion(j, c, supports)
    PROVE  V!Next
<1> DEFINE images == PipelineImages(supports)
<1>1. /\ channel[j] = NULL
      /\ status[c] = "none"
      /\ status' = [status EXCEPT ![c] = IF images = {} THEN "published" ELSE "pending"]
      /\ insertedBy' = [insertedBy EXCEPT ![c] = j]
      /\ pipelines' = [pipelines EXCEPT ![j] = images]
      /\ UNCHANGED outcome
  BY DEF PublishVersion, Started, runVars
<1>2. images \in SUBSET Platforms
  BY ImagesArePlatforms
<1> HIDE DEF images
<1>3. /\ insertedBy'[c] = j /\ pipelines'[j] = images
      /\ \A d \in Channels : d # c => insertedBy'[d] = insertedBy[d]
      /\ \A i \in Jobs : i # j => pipelines'[i] = pipelines[i]
      /\ \A d \in Channels : insertedBy[d] \in Jobs \cup {NULL}
  BY <1>1 DEF JobInv, TypeOK
<1>4. j # NULL /\ \A d \in Channels : insertedBy[d] # j
  BY <1>1, ConfigAssumption DEF RowInv, RowsHaveJobs
<1>5. \A p \in Platforms : outcome[j][p] = "none"
  BY <1>1 DEF JobInv, TasksArePipelines, OutcomesAreFlagged, Started
<1>6. ASSUME NEW p \in Platforms
      PROVE  Ballots'[c][p] = IF p \in images THEN "open" ELSE "out"
  <2>1. Ballots'[c][p] = Ballot(j, p)'
    BY <1>3, <1>4 DEF Ballots
  <2>2. CASE p \notin images
    BY <1>3, <2>1, <2>2 DEF Ballot
  <2>3. CASE p \in images
    <3>1. p \in pipelines'[j] /\ outcome'[j][p] \notin Passing /\ outcome'[j][p] \notin Failing
      BY <1>1, <1>3, <1>5, <2>3, OutcomeKinds
    <3>2. Ballot(j, p)' = "open"
      BY <3>1 DEF Ballot
    <3> QED
      BY <2>1, <2>3, <3>2
  <2> QED
    BY <2>2, <2>3
<1>7. ASSUME NEW d \in Channels, d # c, NEW p \in Platforms
      PROVE  Ballots'[d][p] = Ballots[d][p]
  <2>1. CASE insertedBy[d] = NULL
    BY <1>3, <1>7, <2>1 DEF Ballots
  <2>2. CASE insertedBy[d] # NULL
    <3>1. pipelines'[insertedBy[d]] = pipelines[insertedBy[d]]
      BY <1>3, <1>4, <2>2
    <3> QED
      BY <1>1, <1>3, <1>7, <2>2, <3>1 DEF Ballots, Ballot
  <2> QED
    BY <2>1, <2>2
<1>8. Ballots' = [Ballots EXCEPT ![c] = [p \in Platforms |-> IF p \in images THEN "open" ELSE "out"]]
  BY <1>6, <1>7, BallotsAreVotes
<1>9. V!Open(c, images)
  BY <1>1, <1>8 DEF V!Open
<1> QED
  BY <1>2, <1>9 DEF V!Next

LEMMA DeletionWithdraws ==
    ASSUME JobInv, NEW c \in Channels, DeletePackage(c)
    PROVE  V!Next
<1>1. /\ status[c] # "none" /\ status' = [status EXCEPT ![c] = "none"]
      /\ insertedBy'[c] = NULL
      /\ \A d \in Channels : d # c => insertedBy'[d] = insertedBy[d]
      /\ UNCHANGED <<pipelines, outcome>>
  BY DEF DeletePackage, JobInv, TypeOK, jobVars, runVars
<1>2. \A p \in Platforms : Ballots'[c][p] = "out"
  BY <1>1 DEF Ballots
<1>3. \A d \in Channels, p \in Platforms : d # c => Ballots'[d][p] = Ballots[d][p]
  BY <1>1 DEF Ballots, Ballot
<1>4. Ballots' = [Ballots EXCEPT ![c] = [p \in Platforms |-> "out"]]
  BY <1>2, <1>3, BallotsAreVotes
<1>5. V!Withdraw(c)
  BY <1>1, <1>4 DEF V!Withdraw
<1> QED
  BY <1>5 DEF V!Next

LEMMA RefineInit == Init => V!Init
BY DEF Init, V!Init, Ballots

LEMMA RefineStep ==
    ASSUME JobInv, RowInv, PublishedOnce, [Next]_vars
    PROVE  [V!Next]_(V!vvars)
<1>1. ASSUME NEW j \in Jobs, NEW c \in Channels,
             NEW supports \in SUBSET (Platforms \ {Default}),
             PublishVersion(j, c, supports)
      PROVE  V!Next
  BY <1>1, PublishOpens
<1>2. ASSUME UNCHANGED <<status, insertedBy, pipelines, outcome>>
      PROVE  UNCHANGED V!vvars
  BY <1>2, BallotsAlone DEF V!vvars
<1>3. ASSUME NEW j \in Jobs, NEW p \in Platforms, WriteTemp(j, p) \/ RunContainer(j, p)
      PROVE  [V!Next]_(V!vvars)
  <2>1. /\ outcome[j][p] = "none" /\ task[j][p] # "none"
        /\ UNCHANGED <<status, insertedBy, channel, pipelines>>
    BY <1>3 DEF WriteTemp, RunContainer, JobInv, OutcomesAreFlagged, rowVars, jobVars
  <2>2. \/ UNCHANGED outcome
        \/ \E o \in Outcomes \ {"none"} : outcome' = [outcome EXCEPT ![j][p] = o]
    BY <1>3 DEF WriteTemp, RunContainer, Outcomes
  <2> QED
    BY <1>2, <2>1, <2>2, OutcomeIsCast
<1>4. ASSUME NEW j \in Jobs, NEW p \in Platforms, SetRejected(j, p)
      PROVE  [V!Next]_(V!vvars)
  <2>1. /\ task[j][p] = "set_rejected"
        /\ SetVersionStatus(channel[j], "rejected")
        /\ UNCHANGED <<insertedBy, pipelines, outcome>>
    BY <1>4 DEF SetRejected, jobVars, runVars
  <2>2. /\ channel[j] \in Channels /\ p \in pipelines[j]
        /\ status[channel[j]] # "none" => insertedBy[channel[j]] = j
        /\ outcome[j][p] \in Failing /\ outcome[j][p] \notin Passing
    BY <2>1, RowOfTask, OutcomeKinds DEF JobInv, OutcomesAreFlagged
  <2>3. status[channel[j]] # "published"
    BY <2>2 DEF RowInv, PublicMeansUnanimous
  <2>4. /\ status[channel[j]] # "none" => Ballots[channel[j]][p] = "no"
        /\ Ballots' = Ballots
    BY <2>1, <2>2, BallotType, BallotsAlone
  <2>5. CASE UNCHANGED status
    BY <1>2, <2>1, <2>5
  <2>6. CASE /\ status[channel[j]] # "none"
             /\ status' = [status EXCEPT ![channel[j]] = "rejected"]
    <3>1. status' = [status EXCEPT ![channel[j]] = "rejected"]
      BY <2>6
    <3>2. CASE status[channel[j]] = "pending"
      <4>1. V!Reject(channel[j])
        BY <2>4, <3>1, <3>2 DEF V!Reject
      <4> QED
        BY <2>2, <4>1 DEF V!Next
    <3>3. CASE status[channel[j]] = "rejected"
      <4>1. UNCHANGED status
        BY <2>2, <3>1, <3>3 DEF JobInv, TypeOK
      <4> QED
        BY <1>2, <2>1, <4>1
    <3> QED
      BY <2>2, <2>3, <2>6, <3>2, <3>3 DEF JobInv, TypeOK, Statuses
  <2> QED
    BY <2>1, <2>2, <2>5, <2>6, StatusWrite DEF JobInv
<1>5. ASSUME NEW j \in Jobs, NEW p \in Platforms, SetPublished(j, p)
      PROVE  [V!Next]_(V!vvars)
  <2>1. /\ SetVersionStatus(channel[j], "published")
        /\ UNCHANGED <<insertedBy, pipelines, outcome>>
    BY <1>5 DEF SetPublished, jobVars, runVars
  <2>2. /\ channel[j] \in Channels
        /\ status[channel[j]] # "none" => insertedBy[channel[j]] = j
        /\ status[channel[j]] # "rejected"
        /\ \A q \in pipelines[j] : outcome[j][q] \in Passing
    BY <1>5, SetPublishedKeepsRowInv
  <2>3. Ballots' = Ballots
    BY <2>1, BallotsAlone
  <2>4. \A q \in Platforms :
          status[channel[j]] # "none" => Ballots[channel[j]][q] \in {"out", "yes"}
    <3>1. ASSUME NEW q \in Platforms PROVE Ballot(j, q) \in {"out", "yes"}
      BY <2>2 DEF Ballot
    <3> QED
      BY <2>2, <3>1 DEF Ballots
  <2>5. CASE UNCHANGED status
    BY <1>2, <2>1, <2>5
  <2>6. CASE /\ status[channel[j]] # "none"
             /\ status' = [status EXCEPT ![channel[j]] = "published"]
    <3>1. status' = [status EXCEPT ![channel[j]] = "published"]
      BY <2>6
    <3>2. CASE status[channel[j]] = "pending"
      <4>1. V!Accept(channel[j])
        BY <2>3, <2>4, <3>1, <3>2 DEF V!Accept
      <4> QED
        BY <2>2, <4>1 DEF V!Next
    <3>3. CASE status[channel[j]] = "published"
      <4>1. UNCHANGED status
        BY <2>2, <3>1, <3>3 DEF JobInv, TypeOK
      <4> QED
        BY <1>2, <2>1, <4>1
    <3> QED
      BY <2>2, <2>6, <3>2, <3>3 DEF JobInv, TypeOK, Statuses
  <2> QED
    BY <2>1, <2>2, <2>5, <2>6, StatusWrite DEF JobInv
<1>6. ASSUME NEW j \in Jobs, NEW p \in Platforms, TaskStep(j, p)
      PROVE  [V!Next]_(V!vvars)
  BY <1>2, <1>3, <1>4, <1>5, <1>6
     DEF TaskStep, RemoveTemp, StoreFlag, Countdown, CheckFlag, rowVars, jobVars, runVars
<1>7. ASSUME NEW c \in Channels, DeletePackage(c) PROVE V!Next
  BY <1>7, DeletionWithdraws
<1>8. CASE Restart \/ UNCHANGED vars
  BY <1>2, <1>8 DEF Restart, vars, rowVars, jobVars, runVars
<1> QED
  BY <1>1, <1>6, <1>7, <1>8 DEF Next

\* As long as no deleted version is published again, the tasks, the counter and the flag
\* implement the vote, and a deletion withdraws what is voted on.
THEOREM TasksCarryOutTheVote == Spec /\ []PublishedOnce => ImplementsVerdict
<1>1. Init => V!Init
  BY RefineInit
<1>2. JobInv /\ RowInv /\ PublishedOnce /\ [Next]_vars => [V!Next]_(V!vvars)
  BY RefineStep
<1> QED
  BY <1>1, <1>2, RowInvariance, PTL DEF Spec, ImplementsVerdict, V!Spec
=============================================================================
