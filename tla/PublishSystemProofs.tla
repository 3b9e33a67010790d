------------------------ MODULE PublishSystemProofs ------------------------
(***************************************************************************)
(* Theorems about the composition of the cycle runner and the publish      *)
(* path, for any processes, channels, cycles, results and faults: it       *)
(* implements CycleRunner, what waits for review stays off the platform,   *)
(* and the ledger of attempts keeps its promises.  Both halves lend their  *)
(* invariants: the gate's and the attempts' (PublishPipelineProofs) and    *)
(* the stages' (CycleRunnerProofs).                                        *)
(***************************************************************************)
EXTENDS PublishSystem, PublishPipelineProofs

CP == INSTANCE CycleRunnerProofs WITH
        Mode <- [w \in Workers |-> Channel[w].mode], Sandboxed <- Workers,
        MaxFailures <- MaxEnds, MaxCrashes <- MaxEnds,
        asset <- AssetOf, publication <- status, pc <- stage

-----------------------------------------------------------------------------
(* The module of the proofs and the one of the model say the same.         *)

LEMMA SameWords ==
  /\ CP!Modes = C!Modes /\ CP!Cycles = C!Cycles /\ CP!Cycles = Publications
  /\ CP!Results = C!Results /\ CP!NoResult = C!NoResult /\ CP!vars = C!vars
<1>1. CP!Cycles = Publications
  BY CyclesAssumption DEF CP!Cycles
<1> QED
  BY <1>1 DEF CP!Modes, C!Modes, CP!Cycles, C!Cycles, CP!Results, C!Results,
     CP!Fields, C!Fields, CP!NoResult, C!NoResult, CP!vars, C!vars

LEMMA SameInit == CP!Init <=> C!Init
BY DEF CP!Init, C!Init, CP!Cycles, C!Cycles, CP!NoResult, C!NoResult

LEMMA SameNext == C!Next <=> CP!Next
<1> USE DEF C!GoTo, CP!GoTo, C!Ends, CP!Ends, C!Log, CP!Log, C!ledger, CP!ledger,
     C!landed, CP!landed, C!proc, CP!proc, C!Written, CP!Written,
     C!NextStage, CP!NextStage, C!NoteStage, CP!NoteStage
<1>1. ASSUME NEW w PROVE C!Run(w) <=> CP!Run(w)
  <2>1. ASSUME NEW r PROVE C!AgentReturns(w, r) <=> CP!AgentReturns(w, r)
    BY DEF C!AgentReturns, CP!AgentReturns
  <2>2. C!Persist(w) <=> CP!Persist(w)
    BY DEF C!Persist, CP!Persist, C!SaveTopic, CP!SaveTopic, C!SaveContent, CP!SaveContent,
       C!SaveAsset, CP!SaveAsset, C!CreatePublication, CP!CreatePublication,
       C!MarkPublished, CP!MarkPublished, C!SaveNote, CP!SaveNote
  <2> QED
    BY <2>1, <2>2, SameWords DEF C!Run, CP!Run, C!LogStarted, CP!LogStarted, C!AgentRaises, CP!AgentRaises,
       C!LogError, CP!LogError, C!CloseFailed, CP!CloseFailed, C!CloseCycle, CP!CloseCycle,
       C!LogCompleted, CP!LogCompleted
<1>2. ASSUME NEW w PROVE C!Batch(w) <=> CP!Batch(w)
  BY SameWords DEF C!Batch, CP!Batch, C!StartBatch, CP!StartBatch, C!BatchDone, CP!BatchDone,
     C!Post, CP!Post, C!Posting, CP!Posting, C!Postable, CP!Postable
<1>3. ASSUME NEW w
      PROVE  /\ C!OpenCycle(w) <=> CP!OpenCycle(w)
             /\ C!StatementRaises(w) <=> CP!StatementRaises(w)
             /\ C!Crash(w) <=> CP!Crash(w)
  BY DEF C!OpenCycle, CP!OpenCycle, C!StatementRaises, CP!StatementRaises,
     C!Statements, CP!Statements, C!Stages, CP!Stages, C!Crash, CP!Crash
<1>4. ASSUME NEW c PROVE C!Approve(c) <=> CP!Approve(c)
  BY DEF C!Approve, CP!Approve
<1> QED
  BY <1>1, <1>2, <1>3, <1>4, SameWords DEF C!Next, CP!Next

LEMMA RunnerStep == ASSUME CP!Inv, [C!Next]_(C!vars) PROVE CP!Inv'
<1>1. [w \in Workers |-> Channel[w].mode] \in [Workers -> CP!Modes]
  BY ChannelAssumption DEF Modes, CP!Modes
<1>2. AgentClaims \in BOOLEAN
  BY FlagsAssumption
<1>3. [CP!Next]_(CP!vars)
  BY SameNext DEF CP!vars, C!vars
<1> QED
  BY <1>1, <1>2, <1>3, CP!InvStep, CountsAssumption

LEMMA RunnerInit == C!Init => CP!Inv
<1>1. [w \in Workers |-> Channel[w].mode] \in [Workers -> CP!Modes]
  BY ChannelAssumption DEF Modes, CP!Modes
<1>2. AgentClaims \in BOOLEAN
  BY FlagsAssumption
<1> QED
  BY <1>1, <1>2, CP!InitInv, CountsAssumption, SameInit

-----------------------------------------------------------------------------
(* The inductive invariant                                                 *)

(* Who is inside the publish path is in the batch of its command, or in    *)
(* the tool of an auto channel's agent.                                    *)
Within ==
  \A w \in Workers : pc[w] # "idle" =>
    stage[w] = "batch" \/ (stage[w] = "agent" /\ Channel[w].mode = "auto")

(* Media is reviewed and nothing else: the gate's "failed" is never met.   *)
OneAsset ==
  \A c \in Publications : assets[c] \in {<<>>, <<"needs_review">>, <<"passed">>}
NoneFailed ==
  \A w \in Workers : \A c \in DOMAIN rows[w] : rows[w][c].quality # "failed"

Reviewed ==
  \A c \in Publications : content[c] = "needs_review" => ~HasPassed(c)

SystemInv ==
  TypeOK /\ GateInv /\ CP!Inv /\ Within /\ OneAsset /\ NoneFailed /\ Reviewed

-----------------------------------------------------------------------------
(* What the cycle runner sees of the media                                 *)

LEMMA AssetSeen ==
  ASSUME OneAsset, NEW c \in Publications
  PROVE  /\ AssetOf[c] \in {"absent", "needs_review", "passed"}
         /\ AssetOf[c] = "absent" <=> assets[c] = <<>>
         /\ AssetOf[c] = "passed" <=> HasPassed(c)
<1>1. CASE assets[c] = <<>>
  BY <1>1 DEF AssetOf, HasPassed
<1>2. CASE assets[c] = <<"needs_review">>
  BY <1>2 DEF AssetOf, HasPassed
<1>3. CASE assets[c] = <<"passed">>
  <2>1. 1 \in DOMAIN assets[c] /\ assets[c][1] = "passed"
    BY <1>3
  <2> QED
    BY <1>3, <2>1 DEF AssetOf, HasPassed
<1> QED
  BY <1>1, <1>2, <1>3 DEF OneAsset

(* The cycle of a worker that is about to write a row of it.               *)
LEMMA Writing ==
  ASSUME SystemInv, NEW w \in Workers, stage[w] \in {"content", "asset", "publication"}
  PROVE  /\ mine[w] \in Publications
         /\ stage[w] \in {"content", "asset"} => assets[mine[w]] = <<>>
         /\ status[mine[w]] = "absent"
         /\ result[mine[w]] \in C!Results
<1>1. CP!At(stage[w], mine[w])
  BY DEF SystemInv, CP!Inv, CP!Owned, CP!Running
<1>2. mine[w] \in 1..opened /\ opened \in 0..MaxCycles
  BY <1>1 DEF SystemInv, CP!Inv, CP!TypeOK, CP!At
<1>3. mine[w] \in Publications
  BY <1>2, CountsAssumption, CyclesAssumption
<1> QED
  BY <1>1, <1>3, AssetSeen, SameWords DEF SystemInv, CP!At, CP!Rows, CP!Early

-----------------------------------------------------------------------------
(* Each step is one of the publish path, or a row of a cycle landing.      *)

LEMMA PathSteps ==
  ASSUME [SystemNext]_systemVars
  PROVE  \/ [Next]_vars
         \/ \E w \in Workers : SaveAsset(w) \/ CreatePublication(w)
BY DEF SystemNext, systemVars, CycleStep, Publishes, Dies, Approves, Next, Fault, Environment

LEMMA LandingSteps ==
  ASSUME SystemInv, NEW w \in Workers, SaveAsset(w) \/ CreatePublication(w)
  PROVE  TypeOK' /\ GateInv'
<1> DEFINE c == mine[w]
<1>1. c \in Publications /\ status[c] = "absent"
  BY Writing DEF SaveAsset, CreatePublication
<1>2. ~HasPassed(c)
  BY <1>1 DEF SystemInv, GateInv, NonePassedBeforeRow
<1>3. UNCHANGED <<postId, ledger, claims, net, proc, faults>>
  BY DEF SaveAsset, CreatePublication
<1>4. \/ status' = status /\ assets' = [assets EXCEPT ![c] = <<"needs_review">>]
      \/ status' = [status EXCEPT ![c] = "pending"] /\ assets' = assets
  BY DEF SaveAsset, CreatePublication
<1> HIDE DEF c
<1>5. DbTypeOK'
  <2>1. <<"needs_review">> \in Seq(Qualities)
    BY DEF Qualities
  <2> QED
    BY <1>1, <1>3, <1>4, <2>1 DEF SystemInv, TypeOK, DbTypeOK, PublicationStatuses
<1>6. TypeOK'
  BY <1>3, <1>5 DEF SystemInv, TypeOK, NetTypeOK, ProcTypeOK, net, proc
<1>7. ASSUME NEW p \in Publications PROVE HasPassed(p)' <=> HasPassed(p)
  <2>1. CASE assets'[p] = assets[p]
    BY <2>1 DEF HasPassed
  <2>2. CASE p = c /\ assets'[p] = <<"needs_review">>
    BY <1>2, <2>2 DEF HasPassed
  <2> QED
    BY <1>1, <1>4, <2>1, <2>2 DEF SystemInv, TypeOK, DbTypeOK
<1>8. \A v \in Workers : DOMAIN rows[v] \subseteq Publications
  BY RowMapDomain DEF SystemInv, TypeOK, ProcTypeOK
<1>9. \A v \in Workers : pc[v] \in Running => job[v].pub \in Publications
  BY DEF SystemInv, TypeOK, ProcTypeOK
<1>10. SnapshotPassed'
  BY <1>3, <1>7, <1>8 DEF SystemInv, GateInv, SnapshotPassed, HasPassed, proc
<1>11. CallPassed'
  BY <1>3, <1>7, <1>9 DEF SystemInv, GateInv, CallPassed, HasPassed, proc
<1>12. \A p \in Publications : status'[p] = "absent" => status[p] = "absent"
  BY <1>1, <1>4 DEF SystemInv, TypeOK, DbTypeOK
<1>13. NonePassedBeforeRow'
  BY <1>7, <1>12 DEF SystemInv, GateInv, NonePassedBeforeRow
<1>14. NothingUngated'
  BY <1>3, <1>7 DEF SystemInv, GateInv, NothingUngated, net
<1> QED
  BY <1>6, <1>10, <1>11, <1>13, <1>14 DEF GateInv

LEMMA GateSystemStep ==
  ASSUME SystemInv, [SystemNext]_systemVars PROVE TypeOK' /\ GateInv'
BY PathSteps, LandingSteps, TypeStep, GateStep DEF SystemInv

-----------------------------------------------------------------------------
(* Each step is one of the cycle runner, or none: the refinement.          *)

LEMMA LandingRefines ==
  ASSUME SystemInv, NEW w \in Workers
  PROVE  /\ SaveAsset(w) => C!SaveAsset(w)
         /\ CreatePublication(w) => C!CreatePublication(w)
<1>1. ASSUME SaveAsset(w) PROVE C!SaveAsset(w)
  <2>1. mine[w] \in Publications
    BY <1>1, Writing DEF SaveAsset
  <2>2. assets' = [assets EXCEPT ![mine[w]] = <<"needs_review">>] /\ DOMAIN assets = Publications
    BY <1>1 DEF SaveAsset, SystemInv, TypeOK, DbTypeOK
  <2>3. AssetOf' = [AssetOf EXCEPT ![mine[w]] = "needs_review"]
    BY <2>1, <2>2 DEF AssetOf
  <2> QED
    BY <1>1, <2>3 DEF SaveAsset, C!SaveAsset, C!Written, C!GoTo, C!NextStage, C!ledger
<1>2. ASSUME CreatePublication(w) PROVE C!CreatePublication(w)
  <2>1. result[mine[w]] \in C!Results
    BY <1>2, Writing DEF CreatePublication
  <2>2. "post" \notin result[mine[w]]
    BY <2>1, NoClaimsAssumption DEF C!Results, C!Fields
  <2>3. AssetOf' = AssetOf
    BY <1>2 DEF CreatePublication, AssetOf
  <2> QED
    BY <1>2, <2>2, <2>3
       DEF CreatePublication, C!CreatePublication, C!Written, C!GoTo, C!NextStage, C!ledger
<1> QED
  BY <1>1, <1>2

(* In a batch or a tool call only two steps write what the runner owns:    *)
(* the row the gate rejected, which there is none of, and a terminal save. *)
LEMMA PathRefines ==
  ASSUME SystemInv, NEW w \in Workers, Publishes(w)
  PROVE  UNCHANGED C!vars \/ \E c \in C!Cycles : C!Post(w, c)
<1>1. UNCHANGED cycleVars
  BY DEF Publishes
<1>2. CASE UNCHANGED <<status, assets>>
  BY <1>1, <1>2 DEF cycleVars, C!vars, AssetOf
<1>3. ASSUME NEW p \in Publications, RowRejected(w, p) PROVE FALSE
  BY <1>3 DEF RowRejected, AtRow, SystemInv, NoneFailed
<1>4. CASE Save(w)
  <2> DEFINE state == IF job[w].err = NoError THEN "published"
                      ELSE StateAfterError(job[w].err, job[w].cid)
             p == job[w].pub
  <2>1. pc[w] = "save" /\ "save" \in Running /\ UNCHANGED assets
    BY <1>4 DEF Save, Running
  <2>2. p \in Publications /\ HasPassed(p)
    BY <2>1 DEF SystemInv, TypeOK, ProcTypeOK, GateInv, CallPassed
  <2>3. status[p] # "absent" /\ AssetOf[p] = "passed"
    BY <2>2, AssetSeen DEF SystemInv, GateInv, NonePassedBeforeRow
  <2>4. C!Posting(w)
    BY <2>1 DEF SystemInv, Within, C!Posting
  <2>5. status' = IF state \in TERMINAL THEN [status EXCEPT ![p] = state] ELSE status
    BY <1>4 DEF Save
  <2>6. CASE state \in TERMINAL
    <3>1. state \in {"published", "failed"} /\ status' = [status EXCEPT ![p] = state]
      BY <2>5, <2>6 DEF TERMINAL
    <3>2. AssetOf' = AssetOf
      BY <2>1 DEF AssetOf
    <3>3. C!Post(w, p)
      BY <1>1, <2>3, <2>4, <3>1, <3>2
         DEF C!Post, C!Postable, C!ledger, C!proc, cycleVars
    <3> QED
      BY <2>2, <3>3, SameWords
  <2>7. CASE state \notin TERMINAL
    BY <1>2, <2>1, <2>5, <2>7
  <2> QED
    BY <2>6, <2>7
<1> QED
  BY <1>2, <1>3, <1>4
     DEF Publishes, Batch, Agent, Attempt, Answered, db,
         StartBatch, RowWaits, RowEnters, AgentCall, LoadTerminal, LoadRaises,
         LoadProceeds, CreateContainer, WaitProcessed, MediaPublish, CallFails,
         ReplyLost, CallRaises

LEMMA SystemRefines ==
  ASSUME SystemInv, [SystemNext]_systemVars PROVE [C!Next]_(C!vars)
<1>1. CASE UNCHANGED systemVars
  BY <1>1 DEF systemVars, vars, cycleVars, C!vars, AssetOf
<1>2. ASSUME NEW w \in Workers, CycleStep(w) PROVE C!Next
  <2>1. Returned \subseteq C!Results
    BY CyclesAssumption
  <2> QED
    BY <1>2, <2>1 DEF CycleStep, Command, Proceeds, Ends, C!Next, C!Run, C!Persist, C!Batch
<1>3. ASSUME NEW w \in Workers, SaveAsset(w) \/ CreatePublication(w) PROVE C!Next
  BY <1>3, LandingRefines DEF C!Next, C!Run, C!Persist
<1>4. ASSUME NEW w \in Workers, Publishes(w) PROVE [C!Next]_(C!vars)
  BY <1>4, PathRefines DEF C!Next, C!Batch
<1>5. ASSUME NEW w \in Workers, Dies(w) PROVE C!Next
  BY <1>5 DEF Dies, C!Next
<1>6. ASSUME NEW c \in Publications, Approves(c) PROVE C!Next
  BY <1>6, SameWords DEF Approves, C!Next
<1> QED
  BY <1>1, <1>2, <1>3, <1>4, <1>5, <1>6 DEF SystemNext

-----------------------------------------------------------------------------
(* The rest of the invariant                                               *)

LEMMA WithinStep ==
  ASSUME SystemInv, [SystemNext]_systemVars PROVE Within'
<1> USE DEF Within
<1>0. pc \in [Workers -> PCs] /\ stage \in [Workers -> C!Stages]
  BY DEF SystemInv, TypeOK, ProcTypeOK, CP!Inv, CP!TypeOK, CP!Stages, C!Stages
<1>1. CASE UNCHANGED <<pc, stage>>
  BY <1>1 DEF SystemInv
<1>2. ASSUME NEW w \in Workers, pc[w] = "idle", UNCHANGED pc,
             \A v \in Workers \ {w} : stage'[v] = stage[v]
      PROVE  Within'
  BY <1>2 DEF SystemInv
<1>3. ASSUME NEW w \in Workers, CycleStep(w) PROVE Within'
  <2>1. pc[w] = "idle" /\ UNCHANGED pc
    BY <1>3 DEF CycleStep, vars
  <2>2. \A v \in Workers \ {w} : stage'[v] = stage[v]
    BY <1>0, <1>3 DEF CycleStep, Command, Proceeds, Ends, C!OpenCycle, C!StartBatch,
       C!LogStarted, C!AgentReturns, C!AgentRaises, C!LogError, C!CloseFailed, C!SaveTopic,
       C!SaveContent, C!SaveNote, C!CloseCycle, C!LogCompleted, C!BatchDone,
       C!StatementRaises, C!Crash, C!GoTo, C!Ends, C!Written
  <2> QED
    BY <1>2, <2>1, <2>2
<1>4. ASSUME NEW w \in Workers, SaveAsset(w) \/ CreatePublication(w) PROVE Within'
  <2>1. pc[w] = "idle" /\ UNCHANGED pc
    BY <1>4 DEF SaveAsset, CreatePublication, SystemInv, proc
  <2> QED
    BY <1>0, <1>2, <1>4, <2>1 DEF SaveAsset, CreatePublication
<1>5. ASSUME NEW w \in Workers, Publishes(w) PROVE Within'
  <2>1. UNCHANGED stage
    BY <1>5 DEF Publishes, cycleVars
  <2>2. \A v \in Workers \ {w} : pc'[v] = pc[v]
    BY <1>0, <1>5 DEF Publishes, Batch, StartBatch, RowWaits, RowRejected, RowEnters, Agent,
       AgentCall, Attempt, Answered, Resume, Stop, ReturnsError, LoadTerminal, LoadRaises,
       LoadProceeds, CreateContainer, WaitProcessed, MediaPublish, CallFails, Save,
       ReplyLost, CallRaises
  <2>3. pc'[w] # "idle" =>
          stage[w] = "batch" \/ (stage[w] = "agent" /\ Channel[w].mode = "auto")
    <3>1. CASE pc[w] # "idle"
      BY <3>1 DEF SystemInv
    <3>2. CASE pc[w] = "idle" /\ stage[w] # "batch"
      BY <1>5, <3>2 DEF Publishes, Agent, AgentCall, Attempt, Answered, LoadTerminal,
         LoadRaises, LoadProceeds, CreateContainer, WaitProcessed, MediaPublish, CallFails,
         Save, ReplyLost, CallRaises, MakesContainer, MakesPost, Calling
    <3> QED
      BY <3>1, <3>2
  <2> QED
    BY <2>1, <2>2, <2>3 DEF SystemInv
<1>6. ASSUME NEW w \in Workers, Dies(w) PROVE Within'
  <2>1. /\ pc'[w] = "idle"
        /\ \A v \in Workers \ {w} : pc'[v] = pc[v] /\ stage'[v] = stage[v]
    BY <1>0, <1>6 DEF Dies, Crash, Stop, C!Crash, C!Ends
  <2> QED
    BY <2>1 DEF SystemInv
<1>7. ASSUME NEW c \in Publications, Approves(c) PROVE Within'
  BY <1>1, <1>7 DEF Approves, Approve, C!Approve, C!proc, proc
<1> QED
  BY <1>1, <1>3, <1>4, <1>5, <1>6, <1>7 DEF SystemNext, systemVars, vars, cycleVars

(* The media of a cycle changes when it lands and when it is approved.     *)
LEMMA OneAssetStep ==
  ASSUME SystemInv, [SystemNext]_systemVars PROVE OneAsset'
<1> USE DEF OneAsset
<1>0. assets \in [Publications -> Seq(Qualities)]
  BY DEF SystemInv, TypeOK, DbTypeOK
<1>1. CASE UNCHANGED assets
  BY <1>1 DEF SystemInv
<1>2. ASSUME NEW w \in Workers, SaveAsset(w) PROVE OneAsset'
  BY <1>0, <1>2 DEF SaveAsset, SystemInv
<1>3. ASSUME NEW c \in Publications, Approves(c) PROVE OneAsset'
  <2> DEFINE new == [i \in DOMAIN assets[c] |->
                       IF assets[c][i] = "needs_review" THEN "passed" ELSE assets[c][i]]
  <2>1. assets' = [assets EXCEPT ![c] = new]
    BY <1>3 DEF Approves, Approve
  <2>2. new \in {<<>>, <<"passed">>}
    <3>1. CASE assets[c] = <<>>
      BY <3>1
    <3>2. CASE assets[c] = <<"needs_review">> \/ assets[c] = <<"passed">>
      <4>1. DOMAIN assets[c] = {1} /\ assets[c][1] \in {"needs_review", "passed"}
        BY <3>2
      <4>2. new = [i \in {1} |-> "passed"]
        BY <4>1
      <4> QED
        BY <4>2
    <3> QED
      BY <3>1, <3>2 DEF SystemInv
  <2> QED
    BY <1>0, <2>1, <2>2 DEF SystemInv
<1>4. ASSUME NEW w \in Workers, Publishes(w) PROVE UNCHANGED assets
  BY <1>4 DEF Publishes, Batch, StartBatch, RowWaits, RowRejected, RowEnters, Agent,
     AgentCall, Attempt, Answered, LoadTerminal, LoadRaises, LoadProceeds, CreateContainer,
     WaitProcessed, MediaPublish, CallFails, Save, ReplyLost, CallRaises, db
<1> QED
  BY <1>1, <1>2, <1>3, <1>4 DEF SystemNext, systemVars, vars, db, CycleStep,
     CreatePublication, Dies, Crash

LEMMA NoneFailedStep ==
  ASSUME SystemInv, [SystemNext]_systemVars PROVE NoneFailed'
<1>1. CASE UNCHANGED rows
  BY <1>1 DEF SystemInv, NoneFailed
<1>2. ASSUME [Next]_vars, NEW w \in Workers, NEW c \in DOMAIN rows'[w]
      PROVE  rows'[w][c].quality # "failed"
  <2>1. CASE c \in DOMAIN rows[w] /\ rows'[w][c] = rows[w][c]
    BY <2>1 DEF SystemInv, NoneFailed
  <2>2. CASE c \in Pending /\ rows'[w][c] = Row(c)
    <3>1. assets[c] \in {<<>>, <<"needs_review">>, <<"passed">>}
      BY <2>2 DEF Pending, SystemInv, OneAsset
    <3>2. Row(c).quality # "failed"
      BY <3>1 DEF Row
    <3> QED
      BY <2>2, <3>2
  <2> QED
    BY <1>2, <2>1, <2>2, RowsStep DEF SystemInv
<1>3. ASSUME NEW w \in Workers, SaveAsset(w) \/ CreatePublication(w) PROVE UNCHANGED rows
  BY <1>3 DEF SaveAsset, CreatePublication, proc
<1> QED
  BY <1>1, <1>2, <1>3, PathSteps DEF NoneFailed

(* Content is held when there is no media yet, and let go when the media   *)
(* passes, in one step.                                                    *)
LEMMA ReviewedStep ==
  ASSUME SystemInv, [SystemNext]_systemVars PROVE Reviewed'
<1> USE DEF Reviewed
<1>0. /\ assets \in [Publications -> Seq(Qualities)]
      /\ content \in [Publications -> {"absent", "needs_review", "approved"}]
  BY SameWords DEF SystemInv, TypeOK, DbTypeOK, CP!Inv, CP!TypeOK
<1>1. ASSUME UNCHANGED <<assets, content>> PROVE Reviewed'
  BY <1>1 DEF SystemInv, HasPassed
<1>2. ASSUME NEW w \in Workers, CycleStep(w), C!SaveContent(w) PROVE Reviewed'
  <2>1. assets[mine[w]] = <<>> /\ mine[w] \in Publications
    BY <1>2, Writing DEF C!SaveContent
  <2>2. ~HasPassed(mine[w])
    BY <2>1 DEF HasPassed
  <2>3. \A c \in Publications \ {mine[w]} : content'[c] = content[c]
    BY <1>0, <1>2 DEF C!SaveContent
  <2>4. UNCHANGED assets
    BY <1>2 DEF CycleStep, vars
  <2> QED
    BY <2>2, <2>3, <2>4 DEF SystemInv, HasPassed
<1>3. ASSUME NEW w \in Workers, CycleStep(w), ~C!SaveContent(w) PROVE UNCHANGED <<assets, content>>
  BY <1>3 DEF CycleStep, vars, Command, Proceeds, Ends, C!OpenCycle, C!StartBatch,
     C!LogStarted, C!AgentReturns, C!AgentRaises, C!LogError, C!CloseFailed, C!SaveTopic,
     C!SaveNote, C!CloseCycle, C!LogCompleted, C!BatchDone, C!StatementRaises, C!Crash,
     C!landed
<1>4. ASSUME NEW w \in Workers, SaveAsset(w) PROVE Reviewed'
  <2>1. ASSUME NEW c \in Publications, c # mine[w] PROVE HasPassed(c)' <=> HasPassed(c)
    BY <1>0, <1>4, <2>1 DEF SaveAsset, HasPassed
  <2>2. ~HasPassed(mine[w])'
    <3>1. mine[w] \in Publications
      BY <1>4, Writing DEF SaveAsset
    <3> QED
      BY <1>0, <1>4, <3>1 DEF SaveAsset, HasPassed
  <2>3. UNCHANGED <<content, mine>>
    BY <1>4 DEF SaveAsset
  <2> QED
    BY <2>1, <2>2, <2>3 DEF SystemInv
<1>5. ASSUME NEW w \in Workers, CreatePublication(w) PROVE UNCHANGED <<assets, content>>
  BY <1>5 DEF CreatePublication
<1>6. ASSUME NEW w \in Workers, Publishes(w) PROVE UNCHANGED <<assets, content>>
  BY <1>6 DEF Publishes, cycleVars, Batch, StartBatch, RowWaits, RowRejected, RowEnters,
     Agent, AgentCall, Attempt, Answered, LoadTerminal, LoadRaises, LoadProceeds,
     CreateContainer, WaitProcessed, MediaPublish, CallFails, Save, ReplyLost, CallRaises, db
<1>7. ASSUME NEW w \in Workers, Dies(w) PROVE UNCHANGED <<assets, content>>
  BY <1>7 DEF Dies, Crash, db, C!Crash, C!landed
<1>8. ASSUME NEW c \in Publications, Approves(c) PROVE Reviewed'
  <2>1. content'[c] # "needs_review"
    BY <1>0, <1>8 DEF Approves, C!Approve
  <2>2. \A d \in Publications \ {c} : content'[d] = content[d] /\ assets'[d] = assets[d]
    BY <1>0, <1>8 DEF Approves, C!Approve, Approve
  <2> QED
    BY <2>1, <2>2 DEF SystemInv, HasPassed
<1> QED
  BY <1>1, <1>2, <1>3, <1>4, <1>5, <1>6, <1>7, <1>8
     DEF SystemNext, systemVars, vars, cycleVars

-----------------------------------------------------------------------------
LEMMA SystemInvInit == SystemInit => SystemInv
<1> SUFFICES ASSUME SystemInit PROVE SystemInv
  OBVIOUS
<1>1. TypeOK /\ GateInv /\ CP!Inv
  BY InitType, InitGate, RunnerInit DEF SystemInit
<1>2. Within /\ OneAsset /\ NoneFailed
  BY NoRowsType DEF SystemInit, Init, Within, OneAsset, NoneFailed
<1>3. Reviewed
  BY DEF SystemInit, Init, Reviewed, HasPassed
<1> QED
  BY <1>1, <1>2, <1>3 DEF SystemInv

LEMMA SystemInvStep == SystemInv /\ [SystemNext]_systemVars => SystemInv'
<1> SUFFICES ASSUME SystemInv, [SystemNext]_systemVars PROVE SystemInv'
  OBVIOUS
<1>1. TypeOK' /\ GateInv'
  BY GateSystemStep
<1>2. CP!Inv'
  BY SystemRefines, RunnerStep DEF SystemInv
<1> QED
  BY <1>1, <1>2, WithinStep, OneAssetStep, NoneFailedStep, ReviewedStep DEF SystemInv

(* The composition implements the cycle runner: whatever the batches and   *)
(* the agents' tool do on the way, over all their calls, faults and        *)
(* retries, the runner's ledger sees reviewed publications settled and     *)
(* nothing else, and so all that is proved of CycleRunner holds of it.     *)
THEOREM SystemImplementsRunner == SystemSpec => CyclesSpec
<1>1. SystemInit => C!Init
  BY DEF SystemInit
<1>2. SystemInv /\ [SystemNext]_systemVars => [C!Next]_(C!vars)
  BY SystemRefines
<1> QED
  BY <1>1, <1>2, SystemInvInit, SystemInvStep, PTL DEF SystemSpec, CyclesSpec, C!Spec

(* Among it: a closed cycle has landed what its agent returned, keeps it,  *)
(* and its events tell its story (runner.py:110-165), whatever batches,    *)
(* tool calls and deaths come between its statements.                      *)
THEOREM SystemCyclesAreWhole ==
  SystemSpec => []C!ClosedIsWhole /\ C!LandedStays /\ []C!EventsTellStory
<1>1. /\ [w \in Workers |-> Channel[w].mode] \in [Workers -> CP!Modes]
      /\ AgentClaims \in BOOLEAN /\ MaxCycles \in Nat /\ MaxEnds \in Nat
  BY ChannelAssumption, FlagsAssumption, CountsAssumption DEF Modes, CP!Modes
<1>2. CP!Spec => []CP!ClosedIsWhole
  BY <1>1, CP!ClosedCyclesAreWhole
<1>3. CP!Spec => CP!LandedStays
  BY <1>1, CP!LandedRowsStay
<1>4. CP!Spec => []CP!EventsTellStory
  BY <1>1, CP!EventsAgree
<1>5. C!Init /\ [][C!Next]_(C!vars) => CP!Spec
  <2>1. C!Init => CP!Init
    BY SameInit
  <2>2. [C!Next]_(C!vars) => [CP!Next]_(CP!vars)
    BY SameNext DEF C!vars, CP!vars
  <2> QED
    BY <2>1, <2>2, PTL DEF CP!Spec
<1>6. (CP!ClosedIsWhole <=> C!ClosedIsWhole) /\ (CP!EventsTellStory <=> C!EventsTellStory)
  BY DEF CP!ClosedIsWhole, C!ClosedIsWhole, CP!EventsTellStory, C!EventsTellStory,
     CP!Cycles, C!Cycles, CP!Closed, C!Closed, CP!NoResult, C!NoResult
<1>7. [\A c \in CP!Cycles : CP!StaysOf(c)]_(CP!vars) => [\A c \in C!Cycles : C!StaysOf(c)]_(C!vars)
  BY DEF CP!StaysOf, C!StaysOf, CP!Cycles, C!Cycles, CP!Closed, C!Closed, CP!vars, C!vars
<1>8. SystemSpec => C!Init /\ [][C!Next]_(C!vars)
  BY SystemImplementsRunner DEF CyclesSpec, C!Spec
<1>9. CP!LandedStays => C!LandedStays
  BY <1>7, PTL DEF CP!LandedStays, C!LandedStays
<1> QED
  BY <1>2, <1>3, <1>4, <1>5, <1>6, <1>8, <1>9, PTL

(* What the operator has not approved stays off the platform and out of    *)
(* the publish ledger, for any processes of any channels: a batch selects  *)
(* the rows of all of them and an agent calls the tool with any key.       *)
THEOREM ReviewHoldsOffPlatform == SystemSpec => []HeldOffPlatform
<1>1. SystemInv => HeldOffPlatform
  <2> SUFFICES ASSUME SystemInv, NEW c \in Publications, content[c] = "needs_review"
               PROVE  containers[c] = 0 /\ posts[c] = 0 /\ ledger[c] = NoAttempt
    BY DEF HeldOffPlatform
  <2>1. ~HasPassed(c)
    BY DEF SystemInv, Reviewed
  <2>2. containers[c] \in Nat /\ posts[c] \in Nat
    BY DEF SystemInv, TypeOK, NetTypeOK
  <2> QED
    BY <2>1, <2>2 DEF SystemInv, GateInv, NothingUngated
<1> QED
  BY <1>1, SystemInvInit, SystemInvStep, PTL DEF SystemSpec

-----------------------------------------------------------------------------
(* The ledger of attempts, with one process at a time                      *)

OneCommand ==
  \A v, w \in Workers : stage[v] # "idle" /\ stage[w] # "idle" => v = w

LedgerInv == SystemInv /\ OneCommand /\ AttemptInv

LEMMA OneCommandIsBusy == SystemInv /\ OneCommand => OneBusy
BY DEF SystemInv, Within, OneCommand, OneBusy

LEMMA OneCommandStep ==
  ASSUME SystemInv, OneCommand, [SystemNext]_systemVars PROVE OneCommand'
<1> USE DEF OneCommand
<1>0. stage \in [Workers -> C!Stages]
  BY DEF SystemInv, CP!Inv, CP!TypeOK, CP!Stages, C!Stages
<1>1. CASE UNCHANGED stage
  BY <1>1
<1>2. ASSUME NEW w \in Workers, Alone(w) \/ stage[w] # "idle",
             \A v \in Workers \ {w} : stage'[v] = stage[v]
      PROVE  OneCommand'
  BY <1>2 DEF Alone
<1>3. ASSUME NEW w \in Workers, CycleStep(w) PROVE OneCommand'
  <2>1. \A v \in Workers \ {w} : stage'[v] = stage[v]
    BY <1>0, <1>3 DEF CycleStep, Command, Proceeds, Ends, C!OpenCycle, C!StartBatch,
       C!LogStarted, C!AgentReturns, C!AgentRaises, C!LogError, C!CloseFailed, C!SaveTopic,
       C!SaveContent, C!SaveNote, C!CloseCycle, C!LogCompleted, C!BatchDone,
       C!StatementRaises, C!Crash, C!GoTo, C!Ends, C!Written
  <2>2. Alone(w) \/ stage[w] # "idle"
    BY <1>3 DEF CycleStep, Command, Proceeds, Ends,
       C!LogStarted, C!AgentReturns, C!AgentRaises, C!LogError, C!CloseFailed, C!SaveTopic,
       C!SaveContent, C!SaveNote, C!CloseCycle, C!LogCompleted, C!BatchDone,
       C!StatementRaises, C!Statements, C!Crash
  <2> QED
    BY <1>2, <2>1, <2>2
<1>4. ASSUME NEW w \in Workers, SaveAsset(w) \/ CreatePublication(w) PROVE OneCommand'
  BY <1>0, <1>2, <1>4 DEF SaveAsset, CreatePublication
<1>5. ASSUME NEW w \in Workers, Publishes(w) PROVE UNCHANGED stage
  BY <1>5 DEF Publishes, cycleVars
<1>6. ASSUME NEW w \in Workers, Dies(w) PROVE OneCommand'
  BY <1>0, <1>2, <1>6 DEF Dies, C!Crash, C!Ends
<1>7. ASSUME NEW c \in Publications, Approves(c) PROVE UNCHANGED stage
  BY <1>7 DEF Approves, C!Approve, C!proc
<1> QED
  BY <1>1, <1>3, <1>4, <1>5, <1>6, <1>7 DEF SystemNext, systemVars, cycleVars

(* A row that lands is nobody's yet: in no snapshot, call or attempt.      *)
LEMMA LandingKeepsAttempts ==
  ASSUME SystemInv, AttemptInv, NEW w \in Workers, SaveAsset(w) \/ CreatePublication(w)
  PROVE  /\ AttemptInv'
         /\ UNCHANGED <<ledger, containers, posts>>
<1>1. UNCHANGED <<postId, ledger, claims, net, proc, faults>>
  BY DEF SaveAsset, CreatePublication
<1>2. CASE UNCHANGED status
  BY <1>1, <1>2 DEF AttemptInv, StatesAgree, NoClaims, IdleEmpty, SnapshotCurrent,
     CallApart, CallOpen, net, proc
<1>3. CASE CreatePublication(w)
  <2>1. /\ status' = [status EXCEPT ![mine[w]] = "pending"]
        /\ mine[w] \in Publications /\ status[mine[w]] = "absent"
    BY <1>3, Writing DEF CreatePublication
  <2>2. \A p \in Publications :
          status'[p] = status[p] \/ (status[p] = "absent" /\ status'[p] = "pending")
    BY <2>1 DEF SystemInv, TypeOK, DbTypeOK
  <2>3. StatesAgree'
    BY <1>1, <2>2 DEF AttemptInv, StatesAgree, TERMINAL
  <2>4. SnapshotCurrent'
    <3>1. \A v \in Workers : DOMAIN rows[v] \subseteq Publications
      BY RowMapDomain DEF SystemInv, TypeOK, ProcTypeOK
    <3> QED
      BY <1>1, <2>2, <3>1 DEF AttemptInv, SnapshotCurrent, proc
  <2>5. CallApart'
    <3>1. \A v \in Workers : pc[v] \in Running => job[v].pub \in Publications
      BY DEF SystemInv, TypeOK, ProcTypeOK
    <3> QED
      BY <1>1, <2>2, <3>1 DEF AttemptInv, CallApart, proc
  <2>6. IdleEmpty' /\ CallOpen' /\ NoClaims'
    BY <1>1 DEF AttemptInv, IdleEmpty, CallOpen, NoClaims, proc
  <2> QED
    BY <1>1, <2>3, <2>4, <2>5, <2>6 DEF AttemptInv, net
<1> QED
  BY <1>1, <1>2, <1>3 DEF SaveAsset, net

LEMMA LedgerInvStep == LedgerInv /\ [SystemNext]_systemVars => LedgerInv'
<1> SUFFICES ASSUME LedgerInv, [SystemNext]_systemVars PROVE LedgerInv'
  OBVIOUS
<1>1. ASSUME [Next]_vars PROVE AttemptInv'
  BY <1>1, NoClaimsAssumption, OneCommandIsBusy, AttemptInvStep DEF LedgerInv, SystemInv
<1>2. AttemptInv'
  BY <1>1, PathSteps, LandingKeepsAttempts DEF LedgerInv
<1> QED
  BY <1>2, SystemInvStep, OneCommandStep DEF LedgerInv

LEMMA LedgerInvHolds == SystemSpec => []LedgerInv
<1>1. SystemInit => LedgerInv
  BY SystemInvInit, InitAttempt DEF SystemInit, C!Init, OneCommand, LedgerInv
<1> QED
  BY <1>1, LedgerInvStep, PTL DEF SystemSpec

(* A terminal attempt is never reopened in the composition either, by an   *)
(* agent of the next cycle for instance (state_machine.py:10-11).          *)
THEOREM SystemTerminalIsSilent == SystemSpec => TerminalIsSilent
<1>1. LedgerInv /\ [SystemNext]_systemVars =>
        [\A p \in Publications :
           ledger[p].state \in TERMINAL
             => /\ ledger'[p] = ledger[p]
                /\ containers'[p] = containers[p]
                /\ posts'[p] = posts[p]]_vars
  BY PathSteps, SilentStep, LandingKeepsAttempts DEF LedgerInv, SystemInv
<1> QED
  BY <1>1, LedgerInvHolds, PTL DEF SystemSpec, TerminalIsSilent

(* Nor is the container of an open attempt lost from one process to the    *)
(* next (instagram/publisher.py:95-103).                                   *)
THEOREM SystemContainerKept == SystemSpec => ContainerKept
<1>1. LedgerInv /\ [SystemNext]_systemVars =>
        [\A p \in Publications :
           ledger[p].cid # 0
             => /\ ledger'[p].cid = ledger[p].cid
                /\ containers'[p] = containers[p]]_vars
  BY PathSteps, KeepStep, LandingKeepsAttempts DEF LedgerInv, SystemInv
<1> QED
  BY <1>1, LedgerInvHolds, PTL DEF SystemSpec, ContainerKept

-----------------------------------------------------------------------------
(* The posts                                                               *)

PostsInv == LedgerInv /\ LiveInv /\ CountInv

LEMMA PostsInvStep == PostsInv /\ [SystemNext]_systemVars => PostsInv'
<1> SUFFICES ASSUME PostsInv, [SystemNext]_systemVars PROVE LiveInv' /\ CountInv'
  BY LedgerInvStep DEF PostsInv
<1>1. TypeOK /\ GateInv /\ AttemptInv /\ OneBusy
  BY OneCommandIsBusy DEF PostsInv, LedgerInv, SystemInv
<1>2. ASSUME [Next]_vars PROVE LiveInv' /\ CountInv'
  BY <1>1, <1>2, LiveStep, CallCleanStep, PostsCountedStep DEF PostsInv, CountInv
<1>3. ASSUME NEW w \in Workers, SaveAsset(w) \/ CreatePublication(w)
      PROVE  LiveInv' /\ CountInv'
  <2>1. UNCHANGED <<postId, ledger, claims, posts, pc, job, faults>>
    BY <1>3 DEF SaveAsset, CreatePublication, net, proc
  <2>2. LiveInv'
    BY <2>1 DEF PostsInv, LiveInv, ResultLive, PublishedIsLive, Claimed
  <2>3. CountInv'
    BY <2>1 DEF PostsInv, CountInv, CallClean, PostsCounted, Recorded
  <2> QED
    BY <2>2, <2>3
<1> QED
  BY <1>2, <1>3, PathSteps

LEMMA PostsInvHolds == SystemSpec => []PostsInv
<1>1. SystemInit => LedgerInv /\ LiveInv /\ CountInv
  BY SystemInvInit, InitAttempt, InitLive, InitCount
     DEF SystemInit, C!Init, OneCommand, LedgerInv
<1> QED
  BY <1>1, PostsInvStep, PTL DEF SystemSpec, PostsInv

(* A row that lands has no post id, and brings none.                       *)
LEMMA SystemIdsStep ==
  ASSUME PostsInv, IdsAgree, [SystemNext]_systemVars
  PROVE  /\ IdsAgree'
         /\ \/ postId' = postId
            \/ \E p \in Publications, n \in Nat \ {0} :
                 postId[p] = 0 /\ postId' = [postId EXCEPT ![p] = n]
<1>1. TypeOK /\ AttemptInv /\ ResultLive
  BY DEF PostsInv, LedgerInv, SystemInv, LiveInv
<1>2. CASE [Next]_vars
  BY <1>1, <1>2, IdsAgreeStep
<1>3. ASSUME NEW w \in Workers, SaveAsset(w) \/ CreatePublication(w)
      PROVE  UNCHANGED <<postId, ledger>>
  BY <1>3 DEF SaveAsset, CreatePublication
<1> QED
  BY <1>2, <1>3, PathSteps DEF IdsAgree

(* With the cycles that land the rows, the operator, and the batches and   *)
(* agents of any number of processes that run one after the other, ledger  *)
(* and publication never part, neither in their states nor on the post     *)
(* (stores.py:4-6), as long as no agent claims a post of its own.          *)
THEOREM SystemLedgerAgrees == SystemSpec => []LedgerAgreement
<1>1. SystemInit => IdsAgree
  BY DEF SystemInit, Init, IdsAgree, NoAttempt
<1>2. PostsInv /\ IdsAgree /\ [SystemNext]_systemVars => IdsAgree'
  BY SystemIdsStep
<1>3. PostsInv /\ IdsAgree => LedgerAgreement
  BY DEF PostsInv, LedgerInv, AttemptInv, LedgerAgreement
<1> QED
  BY <1>1, <1>2, <1>3, PostsInvHolds, PTL DEF SystemSpec

(* With the cycles that land the rows and the processes that follow one    *)
(* another, a recorded post is still a live one (stores.py:96-103).        *)
THEOREM SystemPostIsLive == SystemSpec => []PublishedIsLive
<1>1. PostsInv => PublishedIsLive
  BY DEF PostsInv, LiveInv
<1> QED
  BY <1>1, PostsInvHolds, PTL

(* And every post after a publication's first took a fault, from whichever *)
(* process of whichever channel it came (state_machine.py:73-81).          *)
THEOREM SystemRepostsAreFaults == SystemSpec => []RepostsTakeFaults
<1>1. PostsInv => RepostsTakeFaults
  BY CountedIsBounded DEF PostsInv, LedgerInv, SystemInv
<1> QED
  BY <1>1, PostsInvHolds, PTL
=============================================================================
