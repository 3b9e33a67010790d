----------------------- MODULE PublishPipelineProofs -----------------------
(***************************************************************************)
(* Theorems about PublishPipeline, for every set of publications and       *)
(* workers, every channel and every bound: first those that hold of any    *)
(* number of workers, then those of one at a time, and last the refinement *)
(* of PublishOnce, which faults and agent calls would break.               *)
(***************************************************************************)
EXTENDS PublishPipeline, TLAPS

-----------------------------------------------------------------------------
(* What the operators of the model return                                  *)

LEMMA NoRowsType == NoRows \in RowMaps /\ DOMAIN NoRows = {}
<1>1. NoRows \in [{} -> Rows]
  BY DEF NoRows
<1> QED
  BY <1>1 DEF NoRows, RowMaps

LEMMA NoJobType == NoJob \in Jobs
BY DEF NoJob, Jobs, NoError, Platforms, MediaKinds

LEMMA RowMapDomain ==
  ASSUME NEW r \in RowMaps
  PROVE  /\ DOMAIN r \subseteq Publications
         /\ \A p \in DOMAIN r : r[p] \in Rows
<1>1. PICK S \in SUBSET Publications : r \in [S -> Rows]
  BY DEF RowMaps
<1> QED
  BY <1>1

LEMMA WithoutType ==
  ASSUME ProcTypeOK, NEW w \in Workers, NEW p
  PROVE  /\ Without(w, p) \in RowMaps
         /\ DOMAIN Without(w, p) = DOMAIN rows[w] \ {p}
         /\ \A q \in DOMAIN Without(w, p) : Without(w, p)[q] = rows[w][q]
<1>1. rows[w] \in RowMaps
  BY DEF ProcTypeOK
<1>2. DOMAIN rows[w] \subseteq Publications /\ \A q \in DOMAIN rows[w] : rows[w][q] \in Rows
  BY <1>1, RowMapDomain
<1>3. Without(w, p) = [q \in DOMAIN rows[w] \ {p} |-> rows[w][q]]
  BY DEF Without, Restrict
<1>4. Without(w, p) \in [DOMAIN rows[w] \ {p} -> Rows]
  BY <1>2, <1>3
<1> QED
  BY <1>2, <1>3, <1>4 DEF RowMaps

LEMMA RowType ==
  ASSUME DbTypeOK, NEW p \in Publications
  PROVE  Row(p) \in Rows
<1>1. assets[p] \in Seq(Qualities)
  BY DEF DbTypeOK
<1>2. assets[p] # <<>> => assets[p][Len(assets[p])] \in Qualities
  BY <1>1
<1> QED
  BY <1>2 DEF Row, Rows

LEMMA SnapshotType ==
  ASSUME DbTypeOK
  PROVE  [p \in Pending |-> Row(p)] \in RowMaps
<1>1. Pending \in SUBSET Publications
  BY DEF Pending
<1>2. \A p \in Pending : Row(p) \in Rows
  BY <1>1, RowType
<1>3. [p \in Pending |-> Row(p)] \in [Pending -> Rows]
  BY <1>2
<1> QED
  BY <1>1, <1>3 DEF RowMaps

LEMMA StateAfterErrorType ==
  ASSUME NEW e, NEW c
  PROVE  StateAfterError(e, c) \in AttemptStates \ {"published"}
BY DEF StateAfterError, AttemptStates

LEMMA FirstCallType ==
  ASSUME NEW w, NEW c
  PROVE  FirstCall(w, c) \in Calling
BY DEF FirstCall, AfterContainer, Calling

-----------------------------------------------------------------------------
(* Type correctness: the processes, the platform and the database in turn  *)

LEMMA ResumeType ==
  ASSUME ProcTypeOK, NEW w \in Workers, NEW r \in RowMaps, Resume(w, r)
  PROVE  ProcTypeOK'
<1>1. pc' \in [Workers -> PCs] /\ rows' \in [Workers -> RowMaps]
  BY DEF ProcTypeOK, Resume, PCs
<1>2. job' \in [Workers -> Jobs]
  BY NoJobType DEF ProcTypeOK, Resume
<1>3. \A v \in Workers : pc'[v] \in Running => job'[v].pub \in Publications
  BY DEF ProcTypeOK, Resume, Running, Calling
<1> QED
  BY <1>1, <1>2, <1>3 DEF ProcTypeOK

LEMMA StopType ==
  ASSUME ProcTypeOK, NEW w \in Workers, Stop(w)
  PROVE  ProcTypeOK'
<1>1. pc' \in [Workers -> PCs] /\ rows' \in [Workers -> RowMaps]
  BY NoRowsType DEF ProcTypeOK, Stop, PCs
<1>2. job' \in [Workers -> Jobs]
  BY NoJobType DEF ProcTypeOK, Stop
<1>3. \A v \in Workers : pc'[v] \in Running => job'[v].pub \in Publications
  BY DEF ProcTypeOK, Stop, Running, Calling
<1> QED
  BY <1>1, <1>2, <1>3 DEF ProcTypeOK

(* A worker that goes on with a job of type Jobs on a publication.         *)
LEMMA GoOnType ==
  ASSUME ProcTypeOK, NEW w \in Workers, NEW c \in Running, NEW j \in Jobs,
         j.pub \in Publications,
         pc' = [pc EXCEPT ![w] = c], job' = [job EXCEPT ![w] = j],
         rows' \in [Workers -> RowMaps]
  PROVE  ProcTypeOK'
<1>1. pc' \in [Workers -> PCs] /\ job' \in [Workers -> Jobs]
  BY DEF ProcTypeOK, PCs
<1>2. \A v \in Workers : pc'[v] \in Running => job'[v].pub \in Publications
  BY DEF ProcTypeOK
<1> QED
  BY <1>1, <1>2 DEF ProcTypeOK

LEMMA RunningPub ==
  ASSUME ProcTypeOK, NEW w \in Workers, pc[w] \in Running
  PROVE  job[w] \in Jobs /\ job[w].pub \in Publications
BY DEF ProcTypeOK

LEMMA MakesContainerType ==
  ASSUME ProcTypeOK, NetTypeOK, NEW w \in Workers, MakesContainer(w)
  PROVE  /\ job[w].pub \in Publications
         /\ containers[job[w].pub] \in Nat
         /\ containers' \in [Publications -> Nat]
         /\ \A q \in Publications :
              containers'[q] = IF q = job[w].pub THEN containers[q] + 1
                               ELSE containers[q]
<1>1. job[w].pub \in Publications
  BY RunningPub DEF MakesContainer, Running, Calling
<1>2. containers \in [Publications -> Nat]
  BY DEF NetTypeOK
<1>3. containers' = [containers EXCEPT ![job[w].pub] = containers[job[w].pub] + 1]
  BY DEF MakesContainer
<1> QED
  BY <1>1, <1>2, <1>3

LEMMA MakesPostType ==
  ASSUME ProcTypeOK, NetTypeOK, NEW w \in Workers, MakesPost(w)
  PROVE  /\ job[w].pub \in Publications
         /\ posts[job[w].pub] \in Nat
         /\ NetTypeOK'
         /\ containers' = containers
         /\ \A q \in Publications :
              posts'[q] = IF q = job[w].pub THEN posts[q] + 1 ELSE posts[q]
<1>1. job[w] \in Jobs /\ job[w].pub \in Publications
  BY RunningPub DEF MakesPost, Running, Calling
<1>2. job[w].cid \in Nat
  BY <1>1 DEF Jobs
<1>3. containers' = containers
      /\ posts' = [posts EXCEPT ![job[w].pub] = posts[job[w].pub] + 1]
  BY DEF MakesPost
<1>4. spent' = [spent EXCEPT ![job[w].pub] = spent[job[w].pub] \cup {job[w].cid}]
      \/ spent' = spent
  BY DEF MakesPost
<1>5. posts' \in [Publications -> Nat] /\ posts[job[w].pub] \in Nat
  BY <1>1, <1>3 DEF NetTypeOK
<1>6. spent' \in [Publications -> SUBSET Nat]
  BY <1>1, <1>2, <1>4 DEF NetTypeOK
<1> QED
  BY <1>1, <1>3, <1>5, <1>6 DEF NetTypeOK

(* The network half of a call, whatever becomes of its reply.              *)
NetEffect(w) ==
  \/ UNCHANGED net
  \/ MakesContainer(w) /\ UNCHANGED <<spent, posts>>
  \/ MakesPost(w)

LEMMA NetEffectType ==
  ASSUME ProcTypeOK, NetTypeOK, NEW w \in Workers, NetEffect(w)
  PROVE  NetTypeOK'
<1>1. CASE UNCHANGED net
  BY <1>1 DEF NetTypeOK, net
<1>2. CASE MakesContainer(w) /\ UNCHANGED <<spent, posts>>
  BY <1>2, MakesContainerType DEF NetTypeOK
<1>3. CASE MakesPost(w)
  BY <1>3, MakesPostType
<1> QED
  BY <1>1, <1>2, <1>3 DEF NetEffect

LEMMA SaveType ==
  ASSUME DbTypeOK, ProcTypeOK, NEW w \in Workers, Save(w)
  PROVE  DbTypeOK'
<1> DEFINE state == IF job[w].err = NoError THEN "published"
                    ELSE StateAfterError(job[w].err, job[w].cid)
<1>1. job[w] \in Jobs /\ job[w].pub \in Publications
  BY RunningPub DEF Save, Running
<1>2. state \in AttemptStates
  BY StateAfterErrorType DEF AttemptStates
<1>3. [state |-> state, cid |-> job[w].cid, err |-> job[w].err] \in Attempts
  BY <1>1, <1>2 DEF Jobs, Attempts
<1>4. state \in TERMINAL => state \in PublicationStatuses
  BY DEF TERMINAL, PublicationStatuses
<1>5. /\ ledger' = [ledger EXCEPT ![job[w].pub] =
                      [state |-> state, cid |-> job[w].cid, err |-> job[w].err]]
      /\ status' = IF state \in TERMINAL
                   THEN [status EXCEPT ![job[w].pub] = state] ELSE status
      /\ postId' = IF state = "published"
                   THEN [postId EXCEPT ![job[w].pub] = job[w].post] ELSE postId
      /\ assets' = assets /\ claims' = claims
  BY DEF Save
<1> HIDE DEF state
<1>6. ledger' \in [Publications -> Attempts]
  BY <1>3, <1>5 DEF DbTypeOK
<1>7. status' \in [Publications -> PublicationStatuses \cup {"absent"}]
  BY <1>4, <1>5 DEF DbTypeOK
<1>8. postId' \in [Publications -> Nat]
  BY <1>1, <1>5 DEF DbTypeOK, Jobs
<1> QED
  BY <1>5, <1>6, <1>7, <1>8 DEF DbTypeOK

-----------------------------------------------------------------------------
(* Which steps touch the tables or the platform                            *)

Calls(w) == \/ CreateContainer(w) \/ MediaPublish(w)
            \/ ReplyLost(w) \/ CallRaises(w)

LEMMA StepKinds ==
  ASSUME [Next]_vars
  PROVE  \/ UNCHANGED <<db, net>> /\ (faults' = faults \/ (CanFault /\ faults' = faults + 1))
         \/ \E p \in Publications : Environment(p)
         \/ \E w \in Workers, p \in Publications : RowRejected(w, p)
         \/ \E w \in Workers : Save(w) \/ Calls(w)
<1>1. CASE UNCHANGED vars
  BY <1>1 DEF vars, db, net
<1>2. ASSUME NEW w \in Workers, Batch(w)
      PROVE  \/ UNCHANGED <<db, net, faults>>
             \/ \E p \in Publications : RowRejected(w, p)
  BY <1>2 DEF Batch, StartBatch, RowWaits, RowEnters
<1>3. ASSUME NEW w \in Workers, Agent(w) PROVE UNCHANGED <<db, net, faults>>
  BY <1>3 DEF Agent, AgentCall
<1>4. ASSUME NEW w \in Workers, Attempt(w)
      PROVE  UNCHANGED <<db, net, faults>> \/ Save(w) \/ Calls(w)
  BY <1>4 DEF Attempt, Answered, LoadTerminal, LoadRaises, LoadProceeds,
     WaitProcessed, CallFails, Calls
<1>5. ASSUME NEW w \in Workers, Fault(w)
      PROVE  (UNCHANGED <<db, net>> /\ CanFault /\ faults' = faults + 1) \/ Calls(w)
  BY <1>5 DEF Fault, Crash, Calls
<1> QED
  BY <1>1, <1>2, <1>3, <1>4, <1>5 DEF Next

LEMMA CallEffect ==
  ASSUME NEW w \in Workers, Calls(w)
  PROVE  /\ UNCHANGED db /\ NetEffect(w)
         /\ faults' = faults \/ (CanFault /\ faults' = faults + 1)
<1>1. CASE CreateContainer(w)
  BY <1>1 DEF CreateContainer, NetEffect
<1>2. CASE MediaPublish(w)
  BY <1>2 DEF MediaPublish, NetEffect
<1>3. CASE ReplyLost(w)
  BY <1>3 DEF ReplyLost, NetEffect
<1>4. CASE CallRaises(w)
  BY <1>4 DEF CallRaises, NetEffect
<1> QED
  BY <1>1, <1>2, <1>3, <1>4 DEF Calls

LEMMA DbTypeStep == TypeOK /\ [Next]_vars => DbTypeOK'
<1> SUFFICES ASSUME TypeOK, [Next]_vars PROVE DbTypeOK'
  OBVIOUS
<1> USE DEF TypeOK
<1>1. CASE UNCHANGED db
  BY <1>1 DEF DbTypeOK, db
<1>2. ASSUME NEW p \in Publications, Land(p) PROVE DbTypeOK'
  <2>1. PICK a \in {<<>>, <<"needs_review">>}, c \in {"none", "due"} :
               /\ assets' = [assets EXCEPT ![p] = a]
               /\ claims' = [claims EXCEPT ![p] = c]
    BY <1>2 DEF Land
  <2>2. a \in Seq(Qualities)
    <3>1. <<>> \in Seq(Qualities) /\ <<"needs_review">> \in Seq(Qualities)
      BY DEF Qualities
    <3> QED
      BY <2>1, <3>1
  <2> QED
    BY <1>2, <2>1, <2>2 DEF DbTypeOK, Land, PublicationStatuses
<1>3. ASSUME NEW p \in Publications, MarkClaimed(p) PROVE DbTypeOK'
  BY <1>3, BoundsAssumption DEF DbTypeOK, MarkClaimed, Claimed, PublicationStatuses
<1>4. ASSUME NEW p \in Publications, Approve(p) PROVE DbTypeOK'
  <2>1. assets[p] \in Seq(Qualities)
    BY DEF DbTypeOK
  <2>2. [i \in DOMAIN assets[p] |->
           IF assets[p][i] = "needs_review" THEN "passed" ELSE assets[p][i]]
          \in Seq(Qualities)
    BY <2>1 DEF Qualities
  <2> QED
    BY <1>4, <2>2 DEF DbTypeOK, Approve
<1>5. ASSUME NEW p \in Publications, NEW q \in Qualities, RenderAsset(p, q)
      PROVE  DbTypeOK'
  BY <1>5 DEF DbTypeOK, RenderAsset
<1>6. ASSUME NEW w \in Workers, NEW p \in Publications, RowRejected(w, p)
      PROVE  DbTypeOK'
  BY <1>6 DEF DbTypeOK, RowRejected, PublicationStatuses
<1>7. ASSUME NEW w \in Workers, Save(w) PROVE DbTypeOK'
  BY <1>7, SaveType
<1>8. ASSUME NEW w \in Workers, Calls(w) PROVE DbTypeOK'
  BY <1>1, <1>8, CallEffect
<1> QED
  BY <1>1, <1>2, <1>3, <1>4, <1>5, <1>6, <1>7, <1>8, StepKinds DEF Environment

LEMMA NetTypeStep == TypeOK /\ [Next]_vars => NetTypeOK'
<1> SUFFICES ASSUME TypeOK, [Next]_vars PROVE NetTypeOK'
  OBVIOUS
<1>1. CASE UNCHANGED net
  BY <1>1 DEF TypeOK, NetTypeOK, net
<1>2. ASSUME NEW w \in Workers, Calls(w) PROVE NetTypeOK'
  BY <1>2, CallEffect, NetEffectType DEF TypeOK
<1>3. ASSUME NEW p \in Publications, Environment(p) PROVE UNCHANGED net
  BY <1>3 DEF Environment, Land, MarkClaimed, Approve, RenderAsset
<1>4. ASSUME NEW w \in Workers, NEW p \in Publications, RowRejected(w, p)
      PROVE  UNCHANGED net
  BY <1>4 DEF RowRejected
<1>5. ASSUME NEW w \in Workers, Save(w) PROVE UNCHANGED net
  BY <1>5 DEF Save
<1> QED
  BY <1>1, <1>2, <1>3, <1>4, <1>5, StepKinds

LEMMA ProcTypeStep == TypeOK /\ [Next]_vars => ProcTypeOK'
<1> SUFFICES ASSUME TypeOK, [Next]_vars PROVE ProcTypeOK'
  OBVIOUS
<1> USE DEF TypeOK
<1>1. CASE UNCHANGED proc
  BY <1>1 DEF ProcTypeOK, proc
<1>2. ASSUME NEW w \in Workers, StartBatch(w) PROVE ProcTypeOK'
  <2>1. pc' \in [Workers -> PCs] /\ job' = job
    BY <1>2 DEF StartBatch, ProcTypeOK, PCs
  <2>2. rows' \in [Workers -> RowMaps]
    BY <1>2, SnapshotType DEF StartBatch, ProcTypeOK
  <2>3. \A v \in Workers : pc'[v] \in Running => pc[v] \in Running
    BY <1>2 DEF StartBatch, ProcTypeOK, Running, Calling
  <2> QED
    BY <2>1, <2>2, <2>3 DEF ProcTypeOK
<1>3. ASSUME NEW w \in Workers, NEW p \in Publications,
             RowWaits(w, p) \/ RowRejected(w, p)
      PROVE  ProcTypeOK'
  <2>1. Resume(w, Without(w, p))
    BY <1>3 DEF RowWaits, RowRejected
  <2> QED
    BY <2>1, WithoutType, ResumeType
<1>4. ASSUME NEW w \in Workers, NEW p \in Publications, RowEnters(w, p)
      PROVE  ProcTypeOK'
  <2> DEFINE j == [NoJob EXCEPT !.pub = p, !.gate = rows[w][p].quality = "passed",
                                !.platform = Platform[p], !.kind = KindOf(Format[p])]
  <2>1. j \in Jobs /\ j.pub \in Publications
    BY PublicationsAssumption DEF NoJob, Jobs, NoError, KindOf, MediaKinds
  <2>2. rows' \in [Workers -> RowMaps]
    BY <1>4, WithoutType DEF RowEnters, ProcTypeOK
  <2>3. "load" \in Running
    BY DEF Running
  <2> QED
    BY <1>4, <2>1, <2>2, <2>3, GoOnType DEF RowEnters
<1>5. ASSUME NEW w \in Workers, NEW p \in Publications, NEW pl \in Platforms,
             NEW k \in MediaKinds, AgentCall(w, p, pl, k)
      PROVE  ProcTypeOK'
  <2>1. PICK gate \in BOOLEAN :
          job' = [job EXCEPT ![w] = [NoJob EXCEPT !.pub = p, !.gate = gate,
                                                  !.platform = pl, !.kind = k]]
    BY <1>5 DEF AgentCall
  <2> DEFINE j == [NoJob EXCEPT !.pub = p, !.gate = gate,
                                !.platform = pl, !.kind = k]
  <2>2. j \in Jobs /\ j.pub \in Publications
    BY DEF NoJob, Jobs, NoError
  <2>3. pc' = [pc EXCEPT ![w] = "load"] /\ rows' \in [Workers -> RowMaps]
    BY <1>5 DEF AgentCall, ProcTypeOK
  <2>4. "load" \in Running
    BY DEF Running
  <2> QED
    BY <2>1, <2>2, <2>3, <2>4, GoOnType
<1>6. ASSUME NEW w \in Workers, LoadTerminal(w) \/ Save(w) PROVE ProcTypeOK'
  <2>1. Resume(w, rows[w]) /\ rows[w] \in RowMaps
    BY <1>6 DEF LoadTerminal, Save, ProcTypeOK
  <2> QED
    BY <2>1, ResumeType
<1>7. ASSUME NEW w \in Workers, LoadRaises(w) \/ CallRaises(w) \/ Crash(w)
      PROVE  ProcTypeOK'
  BY <1>7, StopType DEF LoadRaises, CallRaises, Crash
<1>8. ASSUME NEW w \in Workers, LoadProceeds(w) PROVE ProcTypeOK'
  <2>1. job[w] \in Jobs /\ job[w].pub \in Publications
    BY <1>8, RunningPub DEF LoadProceeds, Running
  <2> DEFINE cid == ledger[job[w].pub].cid
             j   == [job[w] EXCEPT !.cid = cid]
  <2>2. cid \in Nat
    BY <2>1 DEF DbTypeOK, Attempts
  <2>3. j \in Jobs /\ j.pub \in Publications
    BY <2>1, <2>2 DEF Jobs
  <2>4. pc' = [pc EXCEPT ![w] = FirstCall(w, cid)] /\ FirstCall(w, cid) \in Running
    BY <1>8, FirstCallType DEF LoadProceeds, Running
  <2>5. job' = [job EXCEPT ![w] = j] /\ rows' \in [Workers -> RowMaps]
    BY <1>8 DEF LoadProceeds, ProcTypeOK
  <2> QED
    BY <2>3, <2>4, <2>5, GoOnType
<1>9. ASSUME NEW w \in Workers, CreateContainer(w) PROVE ProcTypeOK'
  <2>1. job[w] \in Jobs /\ job[w].pub \in Publications
    BY <1>9, RunningPub DEF CreateContainer, MakesContainer, Running, Calling
  <2> DEFINE cid == containers[job[w].pub] + 1
             j   == [job[w] EXCEPT !.cid = cid]
  <2>2. cid \in Nat
    BY <2>1 DEF NetTypeOK
  <2>3. j \in Jobs /\ j.pub \in Publications
    BY <2>1, <2>2 DEF Jobs
  <2>4. AfterContainer(job[w].kind) \in Running
    BY DEF AfterContainer, Running, Calling
  <2>5. /\ pc' = [pc EXCEPT ![w] = AfterContainer(job[w].kind)]
        /\ job' = [job EXCEPT ![w] = j]
        /\ rows' \in [Workers -> RowMaps]
    BY <1>9 DEF CreateContainer, ProcTypeOK
  <2> QED
    BY <2>3, <2>4, <2>5, GoOnType
<1>10. ASSUME NEW w \in Workers, WaitProcessed(w) PROVE ProcTypeOK'
  <2>1. /\ job' = job /\ rows' = rows
        /\ pc' \in [Workers -> PCs]
    BY <1>10 DEF WaitProcessed, ProcTypeOK, PCs, Running, Calling
  <2>2. \A v \in Workers : pc'[v] \in Running => pc[v] \in Running
    BY <1>10 DEF WaitProcessed, ProcTypeOK, Running, Calling
  <2> QED
    BY <2>1, <2>2 DEF ProcTypeOK
<1>11. ASSUME NEW w \in Workers, MediaPublish(w) PROVE ProcTypeOK'
  <2>1. job[w] \in Jobs /\ job[w].pub \in Publications
    BY <1>11, RunningPub DEF MediaPublish, MakesPost, Running, Calling
  <2> DEFINE post == posts[job[w].pub] + 1
             j    == [job[w] EXCEPT !.post = post]
  <2>2. post \in Nat
    BY <2>1 DEF NetTypeOK
  <2>3. j \in Jobs /\ j.pub \in Publications
    BY <2>1, <2>2 DEF Jobs
  <2>4. "save" \in Running
    BY DEF Running
  <2>5. /\ pc' = [pc EXCEPT ![w] = "save"]
        /\ job' = [job EXCEPT ![w] = j]
        /\ rows' \in [Workers -> RowMaps]
    BY <1>11 DEF MediaPublish, ProcTypeOK
  <2> QED
    BY <2>3, <2>4, <2>5, GoOnType
<1>12. ASSUME NEW w \in Workers, NEW e \in ErrorClasses, ReturnsError(w, e),
              pc[w] \in Running, rows' = rows
       PROVE  ProcTypeOK'
  <2>1. job[w] \in Jobs /\ job[w].pub \in Publications
    BY <1>12, RunningPub
  <2> DEFINE j == [job[w] EXCEPT !.err = e]
  <2>2. j \in Jobs /\ j.pub \in Publications
    BY <2>1 DEF Jobs
  <2>3. "save" \in Running
    BY DEF Running
  <2>4. /\ pc' = [pc EXCEPT ![w] = "save"]
        /\ job' = [job EXCEPT ![w] = j]
        /\ rows' \in [Workers -> RowMaps]
    BY <1>12 DEF ReturnsError, ProcTypeOK
  <2> QED
    BY <2>2, <2>3, <2>4, GoOnType
<1>13. ASSUME NEW w \in Workers, NEW e \in ErrorClasses, CallFails(w, e)
       PROVE  ProcTypeOK'
  BY <1>12, <1>13 DEF CallFails, Running
<1>14. ASSUME NEW w \in Workers, ReplyLost(w) PROVE ProcTypeOK'
  <2>1. PICK e \in {"transient", "permanent_unknown"} : ReturnsError(w, e)
    BY <1>14 DEF ReplyLost
  <2>2. pc[w] \in Running /\ rows' = rows
    BY <1>14 DEF ReplyLost, MakesContainer, MakesPost, Running, Calling
  <2>3. e \in ErrorClasses
    BY DEF ErrorClasses
  <2> QED
    BY <1>12, <2>1, <2>2, <2>3
<1> QED
  BY <1>1, <1>2, <1>3, <1>4, <1>5, <1>6, <1>7, <1>8, <1>9, <1>10, <1>11,
     <1>13, <1>14
     DEF Next, Environment, Batch, Agent, Attempt, Answered, Fault, vars, proc,
         Land, MarkClaimed, Approve, RenderAsset

LEMMA FaultsMove ==
  ASSUME [Next]_vars
  PROVE  faults' = faults \/ (faults < MaxFaults /\ faults' = faults + 1)
<1>1. ASSUME NEW p \in Publications, Environment(p) PROVE faults' = faults
  BY <1>1 DEF Environment, Land, MarkClaimed, Approve, RenderAsset
<1>2. ASSUME NEW w \in Workers, NEW p \in Publications, RowRejected(w, p)
      PROVE  faults' = faults
  BY <1>2 DEF RowRejected
<1>3. ASSUME NEW w \in Workers, Save(w) PROVE faults' = faults
  BY <1>3 DEF Save
<1> QED
  BY <1>1, <1>2, <1>3, StepKinds, CallEffect DEF CanFault

LEMMA FaultsStep == TypeOK /\ [Next]_vars => faults' \in 0..MaxFaults
BY FaultsMove, BoundsAssumption DEF TypeOK

LEMMA InitType == Init => TypeOK
<1> SUFFICES ASSUME Init PROVE TypeOK
  OBVIOUS
<1>1. NoAttempt \in Attempts
  BY DEF NoAttempt, Attempts, NoError
<1>2. DbTypeOK
  BY <1>1 DEF Init, DbTypeOK
<1>3. NetTypeOK
  BY DEF Init, NetTypeOK
<1>4. ProcTypeOK
  BY NoRowsType, NoJobType DEF Init, ProcTypeOK, PCs, Running, Calling
<1>5. faults \in 0..MaxFaults
  BY BoundsAssumption DEF Init
<1> QED
  BY <1>2, <1>3, <1>4, <1>5 DEF TypeOK

LEMMA TypeStep == TypeOK /\ [Next]_vars => TypeOK'
BY DbTypeStep, NetTypeStep, ProcTypeStep, FaultsStep DEF TypeOK

(* Every variable of the publish path stays in its type, for any number of *)
(* publications and workers.                                               *)
THEOREM TypeCorrect == Spec => []TypeOK
BY InitType, TypeStep, PTL DEF Spec

-----------------------------------------------------------------------------
(* The gate                                                                *)

(* A verdict once passed is never taken back, because no asset passes      *)
(* before the publication's row; what passed at the SELECT has still       *)
(* passed, and so has all that a call under way was let in with.           *)
NonePassedBeforeRow == \A p \in Publications : status[p] = "absent" => ~HasPassed(p)
SnapshotPassed ==
  \A w \in Workers : \A p \in DOMAIN rows[w] :
    rows[w][p].quality = "passed" => HasPassed(p)
CallPassed ==
  \A w \in Workers :
    (pc[w] \in Running /\ (pc[w] = "load" => job[w].gate)) => HasPassed(job[w].pub)
GateInv == NonePassedBeforeRow /\ SnapshotPassed /\ CallPassed /\ NothingUngated

LEMMA NonePassedBeforeRowStep ==
  TypeOK /\ GateInv /\ [Next]_vars => NonePassedBeforeRow'
<1> SUFFICES ASSUME TypeOK, GateInv, [Next]_vars, NEW p \in Publications,
                    status'[p] = "absent"
             PROVE  ~HasPassed(p)'
  BY DEF NonePassedBeforeRow, HasPassed
<1> USE DEF TypeOK, DbTypeOK, GateInv, NonePassedBeforeRow, HasPassed
<1>1. CASE UNCHANGED <<status, assets>>
  BY <1>1
<1>2. ASSUME NEW q \in Publications, Environment(q) PROVE ~HasPassed(p)'
  BY <1>2 DEF Environment, Land, MarkClaimed, Approve, RenderAsset
<1>3. ASSUME NEW w \in Workers, NEW q \in Publications, RowRejected(w, q)
      PROVE  ~HasPassed(p)'
  BY <1>3 DEF RowRejected
<1>4. ASSUME NEW w \in Workers, Save(w) PROVE ~HasPassed(p)'
  BY <1>4 DEF Save, TERMINAL
<1> QED
  BY <1>1, <1>2, <1>3, <1>4, StepKinds, CallEffect DEF db

LEMMA PassedStable ==
  ASSUME TypeOK, GateInv, [Next]_vars, NEW p \in Publications, HasPassed(p)
  PROVE  HasPassed(p)'
<1> USE DEF TypeOK, DbTypeOK, GateInv, NonePassedBeforeRow
<1>0. PICK i \in DOMAIN assets[p] : assets[p][i] = "passed"
  BY DEF HasPassed
<1>1. CASE UNCHANGED assets
  BY <1>1 DEF HasPassed
<1>2. ASSUME NEW q \in Publications, Environment(q) PROVE HasPassed(p)'
  <2>1. status[p] # "absent" /\ assets[p] \in Seq(Qualities)
    BY <1>0 DEF HasPassed
  <2>2. assets'[p] = assets[p] => HasPassed(p)'
    BY <1>0 DEF HasPassed
  <2>3. CASE Land(q) \/ MarkClaimed(q)
    BY <2>1, <2>2, <2>3 DEF Land, MarkClaimed
  <2>4. CASE Approve(q)
    <3>1. CASE p # q
      BY <2>2, <2>4, <3>1 DEF Approve
    <3>2. CASE p = q
      BY <1>0, <2>4, <3>2 DEF Approve, HasPassed
    <3> QED
      BY <3>1, <3>2
  <2>5. ASSUME NEW v \in Qualities, RenderAsset(q, v) PROVE HasPassed(p)'
    <3>1. CASE p # q
      BY <2>2, <2>5, <3>1 DEF RenderAsset
    <3>2. CASE p = q
      <4>1. assets'[p] = Append(assets[p], v)
        BY <2>5, <3>2 DEF RenderAsset
      <4>2. i \in DOMAIN assets'[p] /\ assets'[p][i] = assets[p][i]
        BY <1>0, <2>1, <4>1
      <4> QED
        BY <1>0, <4>2 DEF HasPassed
    <3> QED
      BY <3>1, <3>2
  <2> QED
    BY <1>2, <2>3, <2>4, <2>5 DEF Environment
<1>3. ASSUME NEW w \in Workers, NEW q \in Publications, RowRejected(w, q)
      PROVE  UNCHANGED assets
  BY <1>3 DEF RowRejected
<1>4. ASSUME NEW w \in Workers, Save(w) PROVE UNCHANGED assets
  BY <1>4 DEF Save
<1> QED
  BY <1>1, <1>2, <1>3, <1>4, StepKinds, CallEffect DEF db

(* Rows only leave a snapshot, except at its start.                        *)
LEMMA RowsStep ==
  ASSUME TypeOK, [Next]_vars, NEW w \in Workers, NEW p \in DOMAIN rows'[w]
  PROVE  \/ p \in DOMAIN rows[w] /\ rows'[w][p] = rows[w][p]
         \/ StartBatch(w) /\ p \in Pending /\ rows'[w][p] = Row(p)
<1> USE DEF TypeOK, ProcTypeOK
<1>1. CASE UNCHANGED rows
  BY <1>1
<1>2. ASSUME NEW v \in Workers, StartBatch(v)
      PROVE  \/ p \in DOMAIN rows[w] /\ rows'[w][p] = rows[w][p]
             \/ StartBatch(w) /\ p \in Pending /\ rows'[w][p] = Row(p)
  BY <1>2 DEF StartBatch
<1>3. ASSUME NEW v \in Workers, NEW q \in Publications,
             rows' = [rows EXCEPT ![v] = Without(v, q)]
      PROVE  p \in DOMAIN rows[w] /\ rows'[w][p] = rows[w][p]
  <2>1. CASE w = v
    <3>1. rows'[w] = Without(v, q)
      BY <1>3, <2>1
    <3>2. /\ DOMAIN Without(v, q) = DOMAIN rows[v] \ {q}
          /\ \A r \in DOMAIN Without(v, q) : Without(v, q)[r] = rows[v][r]
      BY WithoutType
    <3> QED
      BY <2>1, <3>1, <3>2
  <2>2. CASE w # v
    BY <1>3, <2>2
  <2> QED
    BY <2>1, <2>2
<1>4. ASSUME NEW v \in Workers, rows' = [rows EXCEPT ![v] = rows[v]]
      PROVE  p \in DOMAIN rows[w] /\ rows'[w][p] = rows[w][p]
  BY <1>4
<1>5. ASSUME NEW v \in Workers, rows' = [rows EXCEPT ![v] = NoRows]
      PROVE  p \in DOMAIN rows[w] /\ rows'[w][p] = rows[w][p]
  BY <1>5, NoRowsType
<1>6. ASSUME NEW v \in Workers, Batch(v) \/ Agent(v)
      PROVE  \/ p \in DOMAIN rows[w] /\ rows'[w][p] = rows[w][p]
             \/ StartBatch(w) /\ p \in Pending /\ rows'[w][p] = Row(p)
  BY <1>1, <1>2, <1>3, <1>4, <1>6
     DEF Batch, Agent, Resume, RowWaits, RowRejected, RowEnters, AgentCall
<1>7. ASSUME NEW v \in Workers, Attempt(v)
      PROVE  \/ p \in DOMAIN rows[w] /\ rows'[w][p] = rows[w][p]
             \/ StartBatch(w) /\ p \in Pending /\ rows'[w][p] = Row(p)
  BY <1>1, <1>4, <1>5, <1>7
     DEF Attempt, Answered, Resume, Stop, LoadTerminal, LoadRaises,
         LoadProceeds, CreateContainer, WaitProcessed, MediaPublish,
         CallFails, Save
<1>8. ASSUME NEW v \in Workers, Fault(v)
      PROVE  \/ p \in DOMAIN rows[w] /\ rows'[w][p] = rows[w][p]
             \/ StartBatch(w) /\ p \in Pending /\ rows'[w][p] = Row(p)
  BY <1>1, <1>5, <1>8 DEF Fault, Stop, ReplyLost, CallRaises, Crash
<1> QED
  BY <1>1, <1>6, <1>7, <1>8
     DEF Next, Environment, Land, MarkClaimed, Approve, RenderAsset, vars, proc

LEMMA SnapshotPassedStep ==
  TypeOK /\ GateInv /\ [Next]_vars => SnapshotPassed'
<1> SUFFICES ASSUME TypeOK, GateInv, [Next]_vars, NEW w \in Workers,
                    NEW p \in DOMAIN rows'[w], rows'[w][p].quality = "passed"
             PROVE  HasPassed(p)'
  BY DEF SnapshotPassed, HasPassed
<1>1. CASE p \in DOMAIN rows[w] /\ rows'[w][p] = rows[w][p]
  <2>1. HasPassed(p)
    BY <1>1 DEF GateInv, SnapshotPassed
  <2>2. p \in Publications
    BY <1>1, RowMapDomain DEF TypeOK, ProcTypeOK
  <2> QED
    BY <2>1, <2>2, PassedStable
<1>2. CASE StartBatch(w) /\ p \in Pending /\ rows'[w][p] = Row(p)
  <2>1. p \in Publications /\ assets[p] \in Seq(Qualities)
    BY <1>2 DEF Pending, TypeOK, DbTypeOK
  <2>2. assets[p] # <<>> /\ assets[p][Len(assets[p])] = "passed"
    BY <1>2 DEF Row
  <2>3. HasPassed(p)
    BY <2>1, <2>2 DEF HasPassed
  <2> QED
    BY <2>1, <2>3, PassedStable
<1> QED
  BY <1>1, <1>2, RowsStep

(* A worker in a call either was in it before, past the ledger's read, or  *)
(* has just begun it, or has just read the ledger.  It has a result to     *)
(* save when it has posted or was given an error.                          *)
GoesOn(w) ==
  /\ pc[w] \in Running \ {"load"} /\ pc'[w] # "create"
  /\ job'[w].pub = job[w].pub
  /\ pc[w] # "create" => job'[w].cid = job[w].cid
  /\ IF pc'[w] = "save" THEN MediaPublish(w) \/ job'[w].err \in ErrorClasses
     ELSE pc[w] # "save" /\ job'[w].err = job[w].err
Begins(w) ==
  /\ pc'[w] = "load"
  /\ \/ \E p \in Publications : RowEnters(w, p)
     \/ \E p \in Publications, pl \in Platforms, k \in MediaKinds :
          AgentCall(w, p, pl, k)

LEMMA JobStep ==
  ASSUME TypeOK, [Next]_vars, NEW w \in Workers, pc'[w] \in Running
  PROVE  \/ pc'[w] = pc[w] /\ job'[w] = job[w]
         \/ GoesOn(w) /\ pc'[w] # "load"
         \/ LoadProceeds(w)
         \/ Begins(w)
<1> DEFINE Goal == \/ pc'[w] = pc[w] /\ job'[w] = job[w]
                   \/ GoesOn(w) /\ pc'[w] # "load"
                   \/ LoadProceeds(w)
                   \/ Begins(w)
<1> USE DEF TypeOK, ProcTypeOK
<1>1. CASE UNCHANGED <<pc, job>>
  BY <1>1
<1>2. ASSUME NEW v \in Workers, v # w, Batch(v) \/ Agent(v) \/ Attempt(v) \/ Fault(v)
      PROVE  Goal
  <2>1. pc'[w] = pc[w] /\ job'[w] = job[w]
    BY <1>2 DEF Batch, StartBatch, RowWaits, RowRejected, RowEnters, Agent,
         AgentCall, Attempt, Answered, Fault, Resume, Stop, ReturnsError,
         LoadTerminal, LoadRaises, LoadProceeds, CreateContainer,
         WaitProcessed, MediaPublish, CallFails, Save, ReplyLost, CallRaises,
         Crash
  <2> QED
    BY <2>1
<1>3. CASE Batch(w)
  <2>1. ASSUME StartBatch(w) PROVE FALSE
    BY <2>1 DEF StartBatch, Running, Calling
  <2>2. ASSUME NEW p \in Publications, RowWaits(w, p) \/ RowRejected(w, p)
        PROVE  FALSE
    BY <2>2 DEF RowWaits, RowRejected, Resume, Running, Calling
  <2>3. ASSUME NEW p \in Publications, RowEnters(w, p) PROVE Begins(w)
    BY <2>3 DEF RowEnters, Begins
  <2> QED
    BY <1>3, <2>1, <2>2, <2>3 DEF Batch
<1>4. CASE Agent(w)
  BY <1>4 DEF Agent, AgentCall, Begins
<1>5. CASE LoadTerminal(w) \/ LoadRaises(w) \/ Save(w) \/ CallRaises(w) \/ Crash(w)
  BY <1>5 DEF LoadTerminal, LoadRaises, Save, CallRaises, Crash, Resume, Stop,
              Running, Calling
<1>6. CASE CreateContainer(w) \/ WaitProcessed(w) \/ MediaPublish(w) \/ ReplyLost(w)
  <2>1. pc[w] \in Running \ {"load"}
    BY <1>6 DEF CreateContainer, WaitProcessed, MediaPublish, ReplyLost,
                MakesContainer, MakesPost, Running, Calling
  <2>2. /\ job'[w].pub = job[w].pub
        /\ pc[w] # "create" => job'[w].cid = job[w].cid
        /\ pc'[w] \notin {"load", "create"}
    BY <1>6 DEF CreateContainer, MakesContainer, WaitProcessed, MediaPublish, ReplyLost,
                ReturnsError, AfterContainer, Jobs
  <2>3. CASE CreateContainer(w) \/ WaitProcessed(w)
    <3>1. pc'[w] # "save" /\ pc[w] # "save" /\ job'[w].err = job[w].err
      BY <2>3 DEF CreateContainer, MakesContainer, WaitProcessed, AfterContainer, Jobs
    <3> QED
      BY <2>1, <2>2, <3>1 DEF GoesOn
  <2>4. CASE MediaPublish(w)
    <3>1. pc'[w] = "save"
      BY <2>4 DEF MediaPublish
    <3> QED
      BY <2>1, <2>2, <2>4, <3>1 DEF GoesOn
  <2>5. CASE ReplyLost(w)
    <3>1. pc'[w] = "save" /\ job'[w].err \in ErrorClasses
      BY <2>5 DEF ReplyLost, ReturnsError, Jobs, ErrorClasses
    <3> QED
      BY <2>1, <2>2, <3>1 DEF GoesOn
  <2> QED
    BY <1>6, <2>3, <2>4, <2>5
<1>7. ASSUME NEW e \in ErrorClasses, CallFails(w, e) PROVE Goal
  BY <1>7 DEF CallFails, ReturnsError, GoesOn, Running, Calling, Jobs
<1> HIDE DEF Goal
<1>8. CASE UNCHANGED vars
  BY <1>1, <1>8 DEF vars, Goal
<1>9. ASSUME NEW p \in Publications, Environment(p) PROVE Goal
  BY <1>1, <1>9 DEF Environment, Land, MarkClaimed, Approve, RenderAsset, proc, Goal
<1>10. LoadProceeds(w) => Goal
  BY DEF Goal
<1>11. ASSUME Batch(w) \/ Agent(w) \/ Attempt(w) \/ Fault(w) PROVE Goal
  BY <1>3, <1>4, <1>5, <1>6, <1>7, <1>10, <1>11 DEF Attempt, Answered, Fault, Goal
<1>12. Goal
  BY <1>2, <1>8, <1>9, <1>11 DEF Next, Goal
<1> QED
  BY <1>12 DEF Goal

LEMMA CallPassedStep ==
  TypeOK /\ GateInv /\ [Next]_vars => CallPassed'
<1> SUFFICES ASSUME TypeOK, GateInv, [Next]_vars, NEW w \in Workers,
                    pc'[w] \in Running, pc'[w] = "load" => job'[w].gate,
                    NEW p \in Publications, p = job'[w].pub
             PROVE  HasPassed(p)'
  BY ProcTypeStep DEF CallPassed, HasPassed, ProcTypeOK
<1>1. p \in Publications
  OBVIOUS
<1>2. CASE pc'[w] = pc[w] /\ job'[w] = job[w]
  <2>1. HasPassed(p)
    BY <1>2 DEF GateInv, CallPassed
  <2> QED
    BY <1>1, <2>1, PassedStable
<1>3. CASE GoesOn(w) /\ pc'[w] # "load"
  <2>1. HasPassed(p)
    BY <1>3 DEF GateInv, CallPassed, GoesOn
  <2> QED
    BY <1>1, <2>1, PassedStable
<1>4. CASE LoadProceeds(w)
  <2>1. pc[w] \in Running /\ pc[w] = "load"
    BY <1>4 DEF LoadProceeds, Running
  <2>2. p = job[w].pub
    BY <1>4, <2>1 DEF LoadProceeds, TypeOK, ProcTypeOK, Jobs
  <2>3. ledger[p] # NoAttempt \/ job[w].gate
    BY <1>4, <2>2 DEF LoadProceeds
  <2>4. HasPassed(p)
    BY <1>1, <2>1, <2>2, <2>3 DEF GateInv, CallPassed, NothingUngated
  <2> QED
    BY <1>1, <2>4, PassedStable
<1>5. CASE Begins(w)
  <2>1. ASSUME NEW q \in Publications, RowEnters(w, q) PROVE HasPassed(p)
    <3>1. p = q /\ job'[w].gate = (rows[w][q].quality = "passed")
      BY <2>1 DEF RowEnters, NoJob, TypeOK, ProcTypeOK
    <3>2. q \in DOMAIN rows[w]
      BY <2>1 DEF RowEnters, AtRow
    <3> QED
      BY <1>5, <3>1, <3>2 DEF Begins, GateInv, SnapshotPassed
  <2>2. ASSUME NEW q \in Publications, NEW pl \in Platforms, NEW k \in MediaKinds,
               AgentCall(w, q, pl, k)
        PROVE  HasPassed(p)
    <3>1. PICK gate \in IF assets[q] = <<>> THEN {FALSE}
                        ELSE {assets[q][i] = "passed" : i \in DOMAIN assets[q]} :
            job' = [job EXCEPT ![w] =
                      [NoJob EXCEPT !.pub = q, !.gate = gate,
                                    !.platform = pl, !.kind = k]]
      BY <2>2 DEF AgentCall
    <3>2. p = q /\ job'[w].gate = gate
      BY <3>1 DEF NoJob, TypeOK, ProcTypeOK
    <3>3. gate
      BY <1>5, <3>2 DEF Begins
    <3>4. \E i \in DOMAIN assets[q] : assets[q][i] = "passed"
      BY <3>1, <3>3
    <3> QED
      BY <3>2, <3>4 DEF HasPassed
  <2>3. HasPassed(p)
    BY <1>5, <2>1, <2>2 DEF Begins
  <2> QED
    BY <1>1, <2>3, PassedStable
<1> QED
  BY <1>2, <1>3, <1>4, <1>5, JobStep

(* Only a worker past the ledger's read touches the platform or the        *)
(* ledger, and only for the publication it works on.                       *)
LEMMA EffectStep ==
  ASSUME TypeOK, [Next]_vars, NEW p \in Publications
  PROVE  \/ /\ containers'[p] = containers[p]
            /\ posts'[p] = posts[p]
            /\ ledger'[p] = ledger[p]
         \/ \E w \in Workers : pc[w] \in Running \ {"load"} /\ job[w].pub = p
<1> DEFINE Same == /\ containers'[p] = containers[p]
                   /\ posts'[p] = posts[p]
                   /\ ledger'[p] = ledger[p]
           Goal == \/ Same
                   \/ \E w \in Workers : pc[w] \in Running \ {"load"} /\ job[w].pub = p
<1> USE DEF TypeOK
<1>1. UNCHANGED <<containers, posts, ledger>> => Goal
  OBVIOUS
<1>2. ASSUME NEW w \in Workers, NetEffect(w), UNCHANGED ledger PROVE Goal
  <2>1. CASE UNCHANGED net
    BY <1>2, <2>1 DEF net
  <2>2. CASE MakesContainer(w) /\ UNCHANGED <<spent, posts>>
    <3>1. p # job[w].pub => containers'[p] = containers[p]
      BY <2>2, MakesContainerType
    <3>2. pc[w] \in Running \ {"load"}
      BY <2>2 DEF MakesContainer, Running, Calling
    <3> QED
      BY <1>2, <2>2, <3>1, <3>2
  <2>3. CASE MakesPost(w)
    <3>1. containers' = containers /\ (p # job[w].pub => posts'[p] = posts[p])
      BY <2>3, MakesPostType
    <3>2. pc[w] \in Running \ {"load"}
      BY <2>3 DEF MakesPost, Running, Calling
    <3> QED
      BY <1>2, <3>1, <3>2
  <2> QED
    BY <1>2, <2>1, <2>2, <2>3 DEF NetEffect
<1>3. ASSUME NEW w \in Workers, Save(w) PROVE Goal
  <2>1. pc[w] \in Running \ {"load"}
    BY <1>3 DEF Save, Running
  <2>2. p # job[w].pub => Same
    BY <1>3 DEF Save, net, DbTypeOK
  <2> QED
    BY <2>1, <2>2
<1> HIDE DEF Goal
<1>4. ASSUME NEW w \in Workers, Calls(w) PROVE Goal
  BY <1>2, <1>4, CallEffect DEF db
<1>5. ASSUME NEW q \in Publications, Environment(q) PROVE Goal
  BY <1>1, <1>5 DEF Environment, Land, MarkClaimed, Approve, RenderAsset, net
<1>6. ASSUME NEW w \in Workers, NEW q \in Publications, RowRejected(w, q) PROVE Goal
  BY <1>1, <1>6 DEF RowRejected, net
<1>7. UNCHANGED <<db, net>> => Goal
  BY <1>1 DEF db, net
<1>8. Goal
  BY <1>3, <1>4, <1>5, <1>6, <1>7, StepKinds
<1> QED
  BY <1>8 DEF Goal

LEMMA NothingUngatedStep ==
  TypeOK /\ GateInv /\ [Next]_vars => NothingUngated'
<1> SUFFICES ASSUME TypeOK, GateInv, [Next]_vars, NEW p \in Publications,
                    containers'[p] > 0 \/ posts'[p] > 0 \/ ledger'[p] # NoAttempt
             PROVE  HasPassed(p)'
  BY DEF NothingUngated, HasPassed
<1>1. HasPassed(p)
  <2>1. CASE /\ containers'[p] = containers[p]
             /\ posts'[p] = posts[p]
             /\ ledger'[p] = ledger[p]
    BY <2>1 DEF GateInv, NothingUngated
  <2>2. CASE \E w \in Workers : pc[w] \in Running \ {"load"} /\ job[w].pub = p
    BY <2>2 DEF GateInv, CallPassed
  <2> QED
    BY <2>1, <2>2, EffectStep
<1> QED
  BY <1>1, PassedStable

LEMMA InitGate == Init => GateInv
<1>1. Init => NonePassedBeforeRow
  BY DEF Init, NonePassedBeforeRow, HasPassed
<1>2. Init => SnapshotPassed
  BY NoRowsType DEF Init, SnapshotPassed
<1>3. Init => CallPassed
  BY DEF Init, CallPassed, Running, Calling
<1>4. Init => NothingUngated
  BY DEF Init, NothingUngated
<1> QED
  BY <1>1, <1>2, <1>3, <1>4 DEF GateInv

LEMMA GateStep == TypeOK /\ GateInv /\ [Next]_vars => GateInv'
BY NonePassedBeforeRowStep, SnapshotPassedStep, CallPassedStep, NothingUngatedStep
   DEF GateInv

(* The quality gate guards every entry: for any number of workers, with    *)
(* agents calling the tool, through stale snapshots, lost replies and      *)
(* crashes, nothing reaches the platform or the ledger for a publication   *)
(* none of whose assets has passed.                                        *)
THEOREM GateGuardsEntry == Spec => []NothingUngated
<1>1. GateInv => NothingUngated
  BY DEF GateInv
<1> QED
  BY <1>1, InitGate, GateStep, InitType, TypeStep, PTL DEF Spec

-----------------------------------------------------------------------------
(* The post recorded                                                       *)

(* The result a worker is about to save without an error names a post that *)
(* is live.                                                                *)
ResultLive ==
  \A w \in Workers :
    pc[w] = "save" /\ job[w].err = NoError => job[w].post \in 1..posts[job[w].pub]

LiveInv == ResultLive /\ PublishedIsLive

(* No step takes a post from the platform.                                 *)
LEMMA PostsGrow ==
  ASSUME TypeOK, [Next]_vars, NEW p \in Publications
  PROVE  posts[p] \in Nat /\ posts'[p] \in Nat /\ posts[p] <= posts'[p]
<1>1. posts[p] \in Nat /\ posts'[p] \in Nat
  BY NetTypeStep DEF TypeOK, NetTypeOK
<1>2. ASSUME posts' = posts PROVE posts[p] <= posts'[p]
  BY <1>1, <1>2
<1>3. ASSUME NEW w \in Workers, NetEffect(w) PROVE posts[p] <= posts'[p]
  <2>1. CASE MakesPost(w)
    BY <1>1, <2>1, MakesPostType DEF TypeOK
  <2> QED
    BY <1>2, <1>3, <2>1 DEF NetEffect, net
<1>4. ASSUME NEW q \in Publications, Environment(q) PROVE posts' = posts
  BY <1>4 DEF Environment, Land, MarkClaimed, Approve, RenderAsset, net
<1>5. ASSUME NEW w \in Workers, NEW q \in Publications, RowRejected(w, q)
      PROVE  posts' = posts
  BY <1>5 DEF RowRejected, net
<1>6. ASSUME NEW w \in Workers, Save(w) PROVE posts' = posts
  BY <1>6 DEF Save, net
<1>7. posts[p] <= posts'[p]
  BY <1>2, <1>3, <1>4, <1>5, <1>6, StepKinds, CallEffect DEF net
<1> QED
  BY <1>1, <1>7

(* A worker with a result to save had it, has just posted, or was given an *)
(* error.                                                                  *)
LEMMA SaveComes ==
  ASSUME TypeOK, [Next]_vars, NEW w \in Workers, pc'[w] = "save"
  PROVE  \/ pc'[w] = pc[w] /\ job'[w] = job[w]
         \/ MediaPublish(w)
         \/ job'[w].err \in ErrorClasses
<1>1. "save" \in Running /\ "save" # "load" /\ "save" \notin Calling
  BY DEF Running, Calling
<1>2. ~LoadProceeds(w)
  BY <1>1, FirstCallType DEF LoadProceeds, TypeOK, ProcTypeOK
<1> QED
  BY <1>1, <1>2, JobStep DEF GoesOn, Begins

LEMMA ResultLiveStep == TypeOK /\ ResultLive /\ [Next]_vars => ResultLive'
<1> SUFFICES ASSUME TypeOK, ResultLive, [Next]_vars, NEW w \in Workers,
                    pc'[w] = "save", job'[w].err = NoError
             PROVE  job'[w].post \in 1..posts'[job'[w].pub]
  BY DEF ResultLive
<1>1. job'[w].pub \in Publications
  BY ProcTypeStep DEF ProcTypeOK, Running
<1>2. CASE pc'[w] = pc[w] /\ job'[w] = job[w]
  <2>1. job[w].post \in 1..posts[job[w].pub]
    BY <1>2 DEF ResultLive
  <2> QED
    BY <1>1, <1>2, <2>1, PostsGrow
<1>3. CASE MediaPublish(w)
  <2>1. job[w] \in Jobs
    BY DEF TypeOK, ProcTypeOK
  <2>2. job'[w].pub = job[w].pub /\ job'[w].post = posts[job[w].pub] + 1
    BY <1>3, <2>1 DEF MediaPublish, Jobs, TypeOK, ProcTypeOK
  <2>3. MakesPost(w)
    BY <1>3 DEF MediaPublish
  <2>4. /\ posts[job[w].pub] \in Nat
        /\ posts'[job[w].pub] = posts[job[w].pub] + 1
    BY <2>3, MakesPostType DEF TypeOK
  <2> QED
    BY <2>2, <2>4
<1>4. job'[w].err \notin ErrorClasses
  BY DEF NoError, ErrorClasses
<1> QED
  BY <1>2, <1>3, <1>4, SaveComes

LEMMA PublishedIsLiveStep ==
  TypeOK /\ GateInv /\ LiveInv /\ [Next]_vars => PublishedIsLive'
<1> SUFFICES ASSUME TypeOK, GateInv, LiveInv, [Next]_vars, NEW p \in Publications,
                    ledger'[p].state = "published"
             PROVE  \/ postId'[p] \in 1..posts'[p]
                    \/ claims'[p] = "made" /\ postId'[p] = Claimed
  BY DEF PublishedIsLive, Claimed
<1> DEFINE Goal == \/ postId'[p] \in 1..posts'[p]
                   \/ claims'[p] = "made" /\ postId'[p] = Claimed
<1> USE DEF TypeOK, DbTypeOK
<1>1. ASSUME ledger'[p] = ledger[p], postId'[p] = postId[p], claims'[p] = claims[p]
      PROVE  Goal
  <2>1. postId[p] \in 1..posts[p] \/ (claims[p] = "made" /\ postId[p] = Claimed)
    BY <1>1 DEF LiveInv, PublishedIsLive
  <2> QED
    BY <1>1, <2>1, PostsGrow
<1>2. ASSUME NEW w \in Workers, Save(w) PROVE Goal
  <2> DEFINE state == IF job[w].err = NoError THEN "published"
                      ELSE StateAfterError(job[w].err, job[w].cid)
  <2>1. /\ pc[w] = "save" /\ claims' = claims
        /\ ledger' = [ledger EXCEPT ![job[w].pub] =
                        [state |-> state, cid |-> job[w].cid, err |-> job[w].err]]
        /\ postId' = IF state = "published"
                     THEN [postId EXCEPT ![job[w].pub] = job[w].post] ELSE postId
    BY <1>2 DEF Save
  <2>2. CASE p = job[w].pub
    <3>1. state = "published"
      BY <2>1, <2>2
    <3>2. job[w].err = NoError
      BY <3>1, StateAfterErrorType
    <3>3. job[w].post \in 1..posts[p]
      BY <2>1, <2>2, <3>2 DEF LiveInv, ResultLive
    <3>4. postId'[p] = job[w].post
      BY <2>1, <2>2, <3>1
    <3> QED
      BY <3>3, <3>4, PostsGrow
  <2>3. CASE p # job[w].pub
    BY <1>1, <2>1, <2>3
  <2> QED
    BY <2>2, <2>3
<1>3. ASSUME NEW q \in Publications, Land(q) PROVE Goal
  <2>1. ledger' = ledger /\ postId' = postId /\ ledger[p] # NoAttempt
    BY <1>3 DEF Land, NoAttempt
  <2>2. status[p] # "absent"
    BY <2>1 DEF GateInv, NothingUngated, NonePassedBeforeRow
  <2>3. claims'[p] = claims[p]
    BY <1>3, <2>2 DEF Land
  <2> QED
    BY <1>1, <2>1, <2>3
<1>4. ASSUME NEW q \in Publications, MarkClaimed(q) PROVE Goal
  <2>1. CASE p = q
    BY <1>4, <2>1 DEF MarkClaimed
  <2>2. CASE p # q
    BY <1>1, <1>4, <2>2 DEF MarkClaimed
  <2> QED
    BY <2>1, <2>2
<1>5. ASSUME UNCHANGED <<ledger, postId, claims>> PROVE Goal
  BY <1>1, <1>5
<1> HIDE DEF Goal
<1>6. ASSUME NEW q \in Publications, Environment(q) PROVE Goal
  BY <1>3, <1>4, <1>5, <1>6 DEF Environment, Approve, RenderAsset
<1>7. ASSUME NEW w \in Workers, NEW q \in Publications, RowRejected(w, q)
      PROVE  Goal
  BY <1>5, <1>7 DEF RowRejected
<1>8. UNCHANGED db => Goal
  BY <1>5 DEF db
<1>9. Goal
  BY <1>2, <1>6, <1>7, <1>8, StepKinds, CallEffect
<1> QED
  BY <1>9 DEF Goal

LEMMA LiveStep == TypeOK /\ GateInv /\ LiveInv /\ [Next]_vars => LiveInv'
BY ResultLiveStep, PublishedIsLiveStep DEF LiveInv

LEMMA InitLive == Init => LiveInv
BY DEF Init, LiveInv, ResultLive, PublishedIsLive, NoAttempt

(* A publication recorded as published has its recorded post live on the   *)
(* platform (state_machine.py:106-115, stores.py:96-103), or bears the     *)
(* post_id an agent reported over it: for any number of workers that save  *)
(* over one another, with agents calling the tool, stale snapshots, lost   *)
(* replies and crashes.                                                    *)
THEOREM RecordedPostIsLive == Spec => []PublishedIsLive
<1>1. LiveInv => PublishedIsLive
  BY DEF LiveInv
<1> QED
  BY <1>1, InitLive, LiveStep, InitGate, GateStep, InitType, TypeStep, PTL DEF Spec
-----------------------------------------------------------------------------
(* One worker at a time                                                    *)

(* What follows is about the ledger and the number of posts when one       *)
(* worker at a time publishes and no agent claims a post of its own:       *)
(* through lost replies, escaping exceptions, crashes and agent calls, any *)
(* number of them.                                                         *)

(* The deployment publish/runner.py:20-23 describes.                       *)
SingleWorker == \A v, w \in Workers : v = w

(* What is used of it: nobody else is in a batch or a call.                *)
OneBusy == \A v, w \in Workers : pc[v] # "idle" /\ pc[w] # "idle" => v = w

-----------------------------------------------------------------------------
(* The inductive invariant                                                 *)

(* An idle worker holds no snapshot.                                       *)
IdleEmpty == \A w \in Workers : pc[w] = "idle" => DOMAIN rows[w] = {}

(* A row not yet visited is still pending, and has no attempt if it had    *)
(* none at the SELECT.                                                     *)
SnapshotCurrent ==
  \A w \in Workers : \A p \in DOMAIN rows[w] :
    /\ status[p] = "pending"
    /\ ~rows[w][p].entered => ledger[p] = NoAttempt

(* The publication of a call exists and is not among the rows to visit.    *)
CallApart ==
  \A w \in Workers : pc[w] \in Running =>
    /\ status[job[w].pub] # "absent"
    /\ job[w].pub \notin DOMAIN rows[w]

(* A call under way works on an open attempt and holds its container.      *)
CallOpen ==
  \A w \in Workers : pc[w] \in Running \ {"load"} =>
    LET a == ledger[job[w].pub] IN
    /\ a.state \notin TERMINAL
    /\ a.cid # 0 => job[w].cid = a.cid /\ pc[w] # "create"

(* No post_id waits to be recorded.                                        *)
NoClaims == \A p \in Publications : claims[p] = "none"

AttemptInv ==
  /\ StatesAgree /\ NoClaims
  /\ IdleEmpty /\ SnapshotCurrent /\ CallApart /\ CallOpen

LEMMA InitAttempt == Init => AttemptInv
<1> SUFFICES ASSUME Init PROVE AttemptInv
  OBVIOUS
<1>1. StatesAgree /\ NoClaims
  BY DEF Init, StatesAgree, NoClaims, NoAttempt, TERMINAL
<1>2. IdleEmpty /\ SnapshotCurrent
  BY NoRowsType DEF Init, IdleEmpty, SnapshotCurrent
<1>3. CallApart /\ CallOpen
  BY DEF Init, CallApart, CallOpen, Running, Calling
<1> QED
  BY <1>1, <1>2, <1>3 DEF AttemptInv

-----------------------------------------------------------------------------
(* Who changes the ledger, the status and the containers                   *)

LEMMA LedgerStep ==
  ASSUME [Next]_vars
  PROVE  ledger' = ledger \/ \E w \in Workers : Save(w)
<1>1. ASSUME NEW p \in Publications, Environment(p) PROVE ledger' = ledger
  BY <1>1 DEF Environment, Land, MarkClaimed, Approve, RenderAsset
<1>2. ASSUME NEW w \in Workers, NEW p \in Publications, RowRejected(w, p)
      PROVE  ledger' = ledger
  BY <1>2 DEF RowRejected
<1> QED
  BY <1>1, <1>2, StepKinds, CallEffect DEF db

LEMMA NoClaimsStep ==
  ASSUME ~AgentClaims, TypeOK, NoClaims, [Next]_vars
  PROVE  NoClaims'
<1>1. CASE UNCHANGED claims
  BY <1>1 DEF NoClaims
<1>2. ASSUME NEW p \in Publications, Land(p) PROVE NoClaims'
  BY <1>2 DEF Land, NoClaims, TypeOK, DbTypeOK
<1>3. ASSUME NEW p \in Publications, MarkClaimed(p) PROVE NoClaims'
  BY <1>3 DEF MarkClaimed, NoClaims
<1>4. ASSUME NEW p \in Publications, Environment(p) PROVE NoClaims'
  BY <1>1, <1>2, <1>3, <1>4 DEF Environment, Approve, RenderAsset
<1>5. ASSUME NEW w \in Workers, NEW p \in Publications, RowRejected(w, p)
      PROVE  UNCHANGED claims
  BY <1>5 DEF RowRejected
<1>6. ASSUME NEW w \in Workers, Save(w) PROVE UNCHANGED claims
  BY <1>6 DEF Save
<1> QED
  BY <1>1, <1>4, <1>5, <1>6, StepKinds, CallEffect DEF db

LEMMA StatusStep ==
  ASSUME [Next]_vars, NoClaims
  PROVE  \/ status' = status
         \/ \E p \in Publications : Land(p)
         \/ \E w \in Workers, p \in Publications : RowRejected(w, p)
         \/ \E w \in Workers : Save(w)
<1>1. ASSUME NEW p \in Publications, Environment(p) PROVE status' = status \/ Land(p)
  BY <1>1 DEF Environment, MarkClaimed, NoClaims, Approve, RenderAsset
<1> QED
  BY <1>1, StepKinds, CallEffect DEF db

(* What Save writes for the publication p of the call.                     *)
LEMMA SaveEffect ==
  ASSUME TypeOK, NEW w \in Workers, Save(w)
  PROVE  LET p == job[w].pub IN
         /\ pc[w] = "save" /\ pc'[w] \notin Running
         /\ p \in Publications
         /\ ledger'[p].state \in AttemptStates
         /\ ledger'[p].cid = job[w].cid
         /\ status'[p] = IF ledger'[p].state \in TERMINAL
                         THEN ledger'[p].state ELSE status[p]
         /\ \A q \in Publications \ {p} :
              ledger'[q] = ledger[q] /\ status'[q] = status[q]
<1> USE DEF TypeOK, DbTypeOK, ProcTypeOK
<1>1. job[w].pub \in Publications
  BY DEF Save, Running
<1>2. pc[w] = "save" /\ pc'[w] \notin Running
  BY DEF Save, Resume, Running, Calling
<1> DEFINE state == IF job[w].err = NoError THEN "published"
                    ELSE StateAfterError(job[w].err, job[w].cid)
<1>3. state \in AttemptStates
  BY StateAfterErrorType DEF AttemptStates
<1>4. /\ ledger' = [ledger EXCEPT ![job[w].pub] =
                      [state |-> state, cid |-> job[w].cid, err |-> job[w].err]]
      /\ status' = IF state \in TERMINAL
                   THEN [status EXCEPT ![job[w].pub] = state] ELSE status
  BY DEF Save
<1> HIDE DEF state
<1> QED
  BY <1>1, <1>2, <1>3, <1>4

LEMMA StatusStays ==
  ASSUME TypeOK, [Next]_vars, NoClaims, NEW p \in Publications,
         status[p] # "absent"
  PROVE  status'[p] # "absent"
<1> USE DEF TypeOK, DbTypeOK
<1>1. ASSUME NEW q \in Publications, Land(q) PROVE status'[p] # "absent"
  BY <1>1 DEF Land
<1>2. ASSUME NEW w \in Workers, NEW q \in Publications, RowRejected(w, q)
      PROVE  status'[p] # "absent"
  BY <1>2 DEF RowRejected
<1>3. ASSUME NEW w \in Workers, Save(w) PROVE status'[p] # "absent"
  BY <1>3, SaveEffect DEF TERMINAL
<1> QED
  BY <1>1, <1>2, <1>3, StatusStep

-----------------------------------------------------------------------------
(* The steps of the invariant's parts                                      *)

LEMMA IdleEmptyStep == TypeOK /\ IdleEmpty /\ [Next]_vars => IdleEmpty'
<1> SUFFICES ASSUME TypeOK, IdleEmpty, [Next]_vars, NEW w \in Workers,
                    pc'[w] = "idle"
             PROVE  DOMAIN rows'[w] = {}
  BY DEF IdleEmpty
<1> USE DEF TypeOK, ProcTypeOK, IdleEmpty
<1>1. UNCHANGED <<pc, rows>> => DOMAIN rows'[w] = {}
  OBVIOUS
<1>2. ASSUME NEW v \in Workers, NEW left, Resume(v, left)
      PROVE  DOMAIN rows'[w] = {}
  BY <1>2 DEF Resume
<1>3. ASSUME NEW v \in Workers, Stop(v) PROVE DOMAIN rows'[w] = {}
  BY <1>3, NoRowsType DEF Stop
<1>4. ASSUME NEW v \in Workers, NEW c \in PCs \ {"idle"},
             pc' = [pc EXCEPT ![v] = c], \A u \in Workers \ {v} : rows'[u] = rows[u]
      PROVE  DOMAIN rows'[w] = {}
  BY <1>4
<1>5. ASSUME NEW v \in Workers, StartBatch(v) PROVE DOMAIN rows'[w] = {}
  BY <1>4, <1>5 DEF StartBatch, PCs
<1>6. ASSUME NEW v \in Workers, NEW p \in Publications, RowEnters(v, p)
      PROVE  DOMAIN rows'[w] = {}
  BY <1>4, <1>6 DEF RowEnters, PCs, Running
<1>7. ASSUME NEW v \in Workers, Agent(v) PROVE DOMAIN rows'[w] = {}
  BY <1>4, <1>7 DEF Agent, AgentCall, PCs, Running
<1>8. ASSUME NEW v \in Workers, LoadProceeds(v) PROVE DOMAIN rows'[w] = {}
  BY <1>4, <1>8, FirstCallType DEF LoadProceeds, PCs, Running, Calling
<1>9. ASSUME NEW v \in Workers, Answered(v) PROVE DOMAIN rows'[w] = {}
  BY <1>4, <1>9 DEF Answered, CreateContainer, WaitProcessed, MediaPublish,
                    AfterContainer, PCs, Running, Calling
<1>10. ASSUME NEW v \in Workers, NEW e, ReturnsError(v, e), rows' = rows
       PROVE  DOMAIN rows'[w] = {}
  BY <1>4, <1>10 DEF ReturnsError, PCs, Running
<1>11. ASSUME NEW v \in Workers, Attempt(v) PROVE DOMAIN rows'[w] = {}
  BY <1>2, <1>3, <1>8, <1>9, <1>10, <1>11
     DEF Attempt, LoadTerminal, LoadRaises, CallFails, Save
<1>12. ASSUME NEW v \in Workers, Fault(v) PROVE DOMAIN rows'[w] = {}
  BY <1>3, <1>10, <1>12 DEF Fault, ReplyLost, CallRaises, Crash
<1>13. ASSUME NEW v \in Workers, Batch(v) PROVE DOMAIN rows'[w] = {}
  BY <1>2, <1>5, <1>6, <1>13 DEF Batch, RowWaits, RowRejected
<1>14. ASSUME NEW p \in Publications, Environment(p) PROVE DOMAIN rows'[w] = {}
  BY <1>1, <1>14 DEF Environment, Land, MarkClaimed, Approve, RenderAsset, proc
<1> QED
  BY <1>1, <1>7, <1>11, <1>12, <1>13, <1>14 DEF Next, vars

LEMMA SnapshotCurrentStep ==
  TypeOK /\ AttemptInv /\ OneBusy /\ [Next]_vars => SnapshotCurrent'
<1> SUFFICES ASSUME TypeOK, AttemptInv, OneBusy, [Next]_vars, NEW w \in Workers,
                    NEW p \in DOMAIN rows'[w]
             PROVE  /\ status'[p] = "pending"
                    /\ ~rows'[w][p].entered => ledger'[p] = NoAttempt
  BY DEF SnapshotCurrent
<1> USE DEF AttemptInv
<1>1. CASE p \in DOMAIN rows[w] /\ rows'[w][p] = rows[w][p]
  <2>1. /\ status[p] = "pending"
        /\ ~rows[w][p].entered => ledger[p] = NoAttempt
    BY <1>1 DEF SnapshotCurrent
  <2>2. p \in Publications
    BY <1>1, RowMapDomain DEF TypeOK, ProcTypeOK
  <2>0. pc[w] # "idle"
    BY <1>1 DEF IdleEmpty
  <2>3. ASSUME NEW v \in Workers, Save(v)
        PROVE  status'[p] = status[p] /\ ledger'[p] = ledger[p]
    <3>1. v = w /\ pc[w] \in Running
      BY <2>0, <2>3, SaveEffect DEF OneBusy, Running
    <3>2. p # job[w].pub
      BY <1>1, <3>1 DEF CallApart
    <3> QED
      BY <2>2, <2>3, <3>1, <3>2, SaveEffect
  <2>4. ASSUME NEW q \in Publications, Land(q) PROVE status'[p] = status[p]
    BY <2>1, <2>2, <2>4 DEF Land, TypeOK, DbTypeOK
  <2>5. ASSUME NEW v \in Workers, NEW q \in Publications, RowRejected(v, q)
        PROVE  status'[p] = status[p]
    <3>1. v = w
      BY <2>0, <2>5 DEF OneBusy, RowRejected, AtRow
    <3>2. rows'[w] = Without(w, q)
      BY <2>5, <3>1 DEF RowRejected, Resume, TypeOK, ProcTypeOK
    <3>3. p # q
      BY <3>2, WithoutType DEF TypeOK
    <3> QED
      BY <2>2, <2>5, <3>3 DEF RowRejected, TypeOK, DbTypeOK
  <2> QED
    BY <1>1, <2>1, <2>3, <2>4, <2>5, StatusStep, LedgerStep
<1>2. CASE StartBatch(w) /\ p \in Pending /\ rows'[w][p] = Row(p)
  <2>1. status' = status /\ ledger' = ledger /\ status[p] = "pending"
    BY <1>2 DEF StartBatch, db, Pending
  <2>2. rows'[w][p].entered = (ledger[p] # NoAttempt)
    BY <1>2 DEF Row
  <2> QED
    BY <2>1, <2>2
<1> QED
  BY <1>1, <1>2, RowsStep

LEMMA CallApartStep == TypeOK /\ AttemptInv /\ [Next]_vars => CallApart'
<1> SUFFICES ASSUME TypeOK, AttemptInv, [Next]_vars, NEW w \in Workers,
                    pc'[w] \in Running
             PROVE  /\ status'[job'[w].pub] # "absent"
                    /\ job'[w].pub \notin DOMAIN rows'[w]
  BY DEF CallApart
<1> USE DEF AttemptInv
<1> DEFINE p == job'[w].pub
<1>1. p \in Publications
  BY ProcTypeStep DEF ProcTypeOK
<1>2. ~StartBatch(w)
  BY DEF StartBatch, TypeOK, ProcTypeOK, Running, Calling
<1>3. \A q : q \in DOMAIN rows'[w] => q \in DOMAIN rows[w]
  BY <1>2, RowsStep
<1>4. ASSUME pc[w] \in Running, p = job[w].pub
      PROVE  status'[p] # "absent" /\ p \notin DOMAIN rows'[w]
  BY <1>1, <1>3, <1>4, StatusStays DEF CallApart
<1>5. CASE LoadProceeds(w)
  <2>1. pc[w] \in Running /\ p = job[w].pub
    BY <1>5 DEF LoadProceeds, Running, TypeOK, ProcTypeOK, Jobs
  <2> QED
    BY <1>4, <2>1
<1>6. CASE Begins(w)
  <2>1. ASSUME NEW q \in Publications, RowEnters(w, q)
        PROVE  status'[p] # "absent" /\ p \notin DOMAIN rows'[w]
    <3>1. p = q /\ rows'[w] = Without(w, q) /\ q \in DOMAIN rows[w]
      BY <2>1 DEF RowEnters, AtRow, NoJob, TypeOK, ProcTypeOK
    <3>2. status[p] # "absent"
      BY <3>1 DEF SnapshotCurrent
    <3>3. p \notin DOMAIN rows'[w]
      BY <3>1, WithoutType DEF TypeOK
    <3> QED
      BY <1>1, <3>2, <3>3, StatusStays
  <2>2. ASSUME NEW q \in Publications, NEW pl \in Platforms, NEW k \in MediaKinds,
               AgentCall(w, q, pl, k)
        PROVE  status'[p] # "absent" /\ p \notin DOMAIN rows'[w]
    <3>1. PICK gate : job' = [job EXCEPT ![w] =
                      [NoJob EXCEPT !.pub = q, !.gate = gate,
                                    !.platform = pl, !.kind = k]]
      BY <2>2 DEF AgentCall
    <3>2. p = q
      BY <3>1 DEF NoJob, TypeOK, ProcTypeOK
    <3>3. status[p] # "absent" /\ DOMAIN rows[w] = {}
      BY <2>2, <3>2 DEF AgentCall, IdleEmpty
    <3> QED
      BY <1>1, <1>3, <3>3, StatusStays
  <2> QED
    BY <1>6, <2>1, <2>2 DEF Begins
<1> QED
  BY <1>4, <1>5, <1>6, JobStep DEF GoesOn

LEMMA CallOpenStep == TypeOK /\ AttemptInv /\ OneBusy /\ [Next]_vars => CallOpen'
<1> SUFFICES ASSUME TypeOK, AttemptInv, OneBusy, [Next]_vars, NEW w \in Workers,
                    pc'[w] \in Running \ {"load"}
             PROVE  /\ ledger'[job'[w].pub].state \notin TERMINAL
                    /\ ledger'[job'[w].pub].cid # 0 =>
                         /\ job'[w].cid = ledger'[job'[w].pub].cid
                         /\ pc'[w] # "create"
  BY DEF CallOpen
<1> USE DEF AttemptInv
<1>1. ledger' = ledger
  <2>1. ASSUME NEW v \in Workers, Save(v) PROVE FALSE
    <3>1. v # w /\ pc[v] # "idle"
      BY <2>1, SaveEffect
    <3>2. pc'[w] = pc[w]
      BY <2>1, <3>1 DEF Save, Resume, TypeOK, ProcTypeOK
    <3> QED
      BY <3>1, <3>2 DEF OneBusy, Running, Calling
  <2> QED
    BY <2>1, LedgerStep
<1>2. CASE pc'[w] = pc[w] /\ job'[w] = job[w]
  BY <1>1, <1>2 DEF CallOpen
<1>3. CASE GoesOn(w)
  BY <1>1, <1>3 DEF CallOpen, GoesOn
<1>4. CASE LoadProceeds(w)
  <2> DEFINE p == job[w].pub
  <2>1. pc[w] \in Running /\ job[w] \in Jobs
    BY <1>4 DEF LoadProceeds, Running, TypeOK, ProcTypeOK
  <2>2. /\ ledger[p].state \notin TERMINAL
        /\ job' = [job EXCEPT ![w].cid = ledger[p].cid]
        /\ pc' = [pc EXCEPT ![w] = FirstCall(w, ledger[p].cid)]
    BY <1>4 DEF LoadProceeds
  <2>3. /\ job'[w].pub = p /\ job'[w].cid = ledger[p].cid
        /\ pc'[w] = FirstCall(w, ledger[p].cid)
    BY <2>1, <2>2 DEF TypeOK, ProcTypeOK, Jobs
  <2>4. ledger[p].cid # 0 => pc'[w] # "create"
    BY <2>3 DEF FirstCall, AfterContainer
  <2> QED
    BY <1>1, <2>2, <2>3, <2>4
<1> QED
  BY <1>2, <1>3, <1>4, JobStep DEF Begins

LEMMA StatesAgreeStep == TypeOK /\ AttemptInv /\ [Next]_vars => StatesAgree'
<1> SUFFICES ASSUME TypeOK, AttemptInv, [Next]_vars, NEW p \in Publications
             PROVE  LET s == ledger'[p].state IN
                    IF s \in TERMINAL \/ status'[p] \in TERMINAL
                    THEN s = status'[p]
                    ELSE s # "absent" => status'[p] \in {"pending", "skipped"}
  BY DEF StatesAgree
<1> USE DEF AttemptInv, TERMINAL
<1>1. CASE ledger'[p] = ledger[p] /\ status'[p] = status[p]
  BY <1>1 DEF StatesAgree
<1>2. ASSUME NEW q \in Publications, Land(q), ledger' = ledger,
             status'[p] # status[p]
      PROVE  ledger'[p].state = "absent" /\ status'[p] = "pending"
  <2>1. status[p] = "absent" /\ status'[p] = "pending"
    BY <1>2 DEF Land, TypeOK, DbTypeOK
  <2> QED
    BY <1>2, <2>1 DEF StatesAgree
<1>3. ASSUME NEW w \in Workers, NEW q \in Publications, RowRejected(w, q),
             status'[p] # status[p]
      PROVE  ledger'[p].state = "absent" /\ status'[p] = "skipped"
  <2>1. p = q /\ status'[p] = "skipped" /\ ledger' = ledger
    BY <1>3 DEF RowRejected, TypeOK, DbTypeOK
  <2>2. ledger[p] = NoAttempt
    BY <1>3, <2>1 DEF RowRejected, AtRow, Gated, SnapshotCurrent
  <2> QED
    BY <2>1, <2>2 DEF NoAttempt
<1>4. ASSUME NEW w \in Workers, Save(w), p = job[w].pub
      PROVE  LET s == ledger'[p].state IN
             IF s \in TERMINAL \/ status'[p] \in TERMINAL
             THEN s = status'[p]
             ELSE s # "absent" => status'[p] \in {"pending", "skipped"}
  <2>1. status'[p] = IF ledger'[p].state \in TERMINAL
                     THEN ledger'[p].state ELSE status[p]
    BY <1>4, SaveEffect
  <2>2. pc[w] \in Running \ {"load"}
    BY <1>4, SaveEffect DEF Running
  <2>3. status[p] # "absent" /\ ledger[p].state \notin TERMINAL
    BY <1>4, <2>2 DEF CallApart, CallOpen
  <2>4. status[p] \in {"pending", "skipped"}
    BY <2>3 DEF StatesAgree, TypeOK, DbTypeOK, PublicationStatuses
  <2> QED
    BY <2>1, <2>4
<1>5. ledger' = ledger \/ \E w \in Workers : Save(w)
  BY LedgerStep
<1>6. CASE \E w \in Workers : Save(w)
  BY <1>1, <1>4, <1>6, SaveEffect
<1>7. CASE ledger' = ledger /\ ~\E w \in Workers : Save(w)
  BY <1>1, <1>2, <1>3, <1>7, StatusStep
<1> QED
  BY <1>5, <1>6, <1>7

-----------------------------------------------------------------------------
(* Terminal is silent and a container is kept, step by step                *)

LEMMA SilentStep ==
  TypeOK /\ AttemptInv /\ [Next]_vars =>
    [\A p \in Publications :
       ledger[p].state \in TERMINAL
         => /\ ledger'[p] = ledger[p]
            /\ containers'[p] = containers[p]
            /\ posts'[p] = posts[p]]_vars
<1> SUFFICES ASSUME TypeOK, AttemptInv, [Next]_vars, NEW p \in Publications,
                    ledger[p].state \in TERMINAL
             PROVE  /\ ledger'[p] = ledger[p]
                    /\ containers'[p] = containers[p]
                    /\ posts'[p] = posts[p]
  OBVIOUS
<1>1. ASSUME NEW w \in Workers, Save(w) PROVE ledger'[p] = ledger[p]
  <2>1. p # job[w].pub
    BY <1>1, SaveEffect DEF AttemptInv, CallOpen, Running
  <2> QED
    BY <1>1, <2>1, SaveEffect
<1>2. ~\E w \in Workers : pc[w] \in Running \ {"load"} /\ job[w].pub = p
  BY DEF AttemptInv, CallOpen
<1>3. containers'[p] = containers[p] /\ posts'[p] = posts[p]
  BY <1>2, EffectStep
<1> QED
  BY <1>1, <1>3, LedgerStep

LEMMA KeepStep ==
  TypeOK /\ AttemptInv /\ [Next]_vars =>
    [\A p \in Publications :
       ledger[p].cid # 0
         => /\ ledger'[p].cid = ledger[p].cid
            /\ containers'[p] = containers[p]]_vars
<1> SUFFICES ASSUME TypeOK, AttemptInv, [Next]_vars, NEW p \in Publications,
                    ledger[p].cid # 0
             PROVE  /\ ledger'[p].cid = ledger[p].cid
                    /\ containers'[p] = containers[p]
  OBVIOUS
<1>1. ASSUME NEW w \in Workers, Save(w) PROVE ledger'[p].cid = ledger[p].cid
  <2>1. p = job[w].pub => job[w].cid = ledger[p].cid
    BY <1>1, SaveEffect DEF AttemptInv, CallOpen, Running
  <2> QED
    BY <1>1, <2>1, SaveEffect
<1>2. ASSUME NEW w \in Workers, MakesContainer(w)
      PROVE  containers'[p] = containers[p]
  <2>1. p # job[w].pub
    BY <1>2 DEF MakesContainer, AttemptInv, CallOpen, Running, Calling
  <2> QED
    BY <1>2, <2>1, MakesContainerType DEF TypeOK
<1>3. containers' = containers \/ \E w \in Workers : MakesContainer(w)
  <2>1. ASSUME NEW q \in Publications, Environment(q) PROVE containers' = containers
    BY <2>1 DEF Environment, Land, MarkClaimed, Approve, RenderAsset, net
  <2>2. ASSUME NEW w \in Workers, NEW q \in Publications, RowRejected(w, q)
        PROVE  containers' = containers
    BY <2>2 DEF RowRejected, net
  <2>3. ASSUME NEW w \in Workers, Save(w) PROVE containers' = containers
    BY <2>3 DEF Save, net
  <2>4. ASSUME NEW w \in Workers, NetEffect(w)
        PROVE  containers' = containers \/ MakesContainer(w)
    BY <2>4 DEF NetEffect, MakesPost, net
  <2> QED
    BY <2>1, <2>2, <2>3, <2>4, StepKinds, CallEffect DEF net
<1> QED
  BY <1>1, <1>2, <1>3, LedgerStep

-----------------------------------------------------------------------------
(* Theorems                                                                *)

LEMMA AttemptInvStep ==
  ASSUME ~AgentClaims
  PROVE  TypeOK /\ AttemptInv /\ OneBusy /\ [Next]_vars => AttemptInv'
BY IdleEmptyStep, SnapshotCurrentStep, CallApartStep, CallOpenStep,
   StatesAgreeStep, NoClaimsStep DEF AttemptInv

LEMMA AttemptInvHolds ==
  ASSUME SingleWorker, ~AgentClaims
  PROVE  Spec => []AttemptInv
<1>1. OneBusy
  BY DEF SingleWorker, OneBusy
<1>2. TypeOK /\ AttemptInv /\ [Next]_vars => AttemptInv'
  BY <1>1, AttemptInvStep
<1> QED
  BY <1>2, InitAttempt, TypeCorrect, PTL DEF Spec

(* A post id is written once, with the state it goes with: to an attempt   *)
(* that is still open, by the worker that has just posted.                 *)
LEMMA IdsAgreeStep ==
  ASSUME TypeOK, AttemptInv, ResultLive, IdsAgree, [Next]_vars
  PROVE  /\ IdsAgree'
         /\ \/ postId' = postId
            \/ \E p \in Publications, n \in Nat \ {0} :
                 postId[p] = 0 /\ postId' = [postId EXCEPT ![p] = n]
<1> DEFINE IdOnce == \/ postId' = postId
                   \/ \E p \in Publications, n \in Nat \ {0} :
                        postId[p] = 0 /\ postId' = [postId EXCEPT ![p] = n]
<1>1. CASE UNCHANGED <<postId, ledger>>
  BY <1>1 DEF IdsAgree
<1>2. ASSUME NEW w \in Workers, Save(w) PROVE IdsAgree' /\ IdOnce
  <2> DEFINE p == job[w].pub
             state == IF job[w].err = NoError THEN "published"
                      ELSE StateAfterError(job[w].err, job[w].cid)
  <2>1. /\ pc[w] = "save" /\ p \in Publications
        /\ ledger' = [ledger EXCEPT ![p] = [state |-> state, cid |-> job[w].cid,
                                            err |-> job[w].err]]
        /\ postId' = IF state = "published" THEN [postId EXCEPT ![p] = job[w].post]
                     ELSE postId
    BY <1>2, SaveEffect DEF Save
  <2>2. ledger[p].state \notin TERMINAL
    BY <2>1 DEF AttemptInv, CallOpen, Running
  <2>3. postId[p] = 0
    BY <2>1, <2>2 DEF IdsAgree, TERMINAL
  <2>4. postId \in [Publications -> Nat] /\ ledger \in [Publications -> Attempts]
    BY DEF TypeOK, DbTypeOK
  <2>5. CASE state = "published"
    <3>1. job[w].err = NoError
      BY <2>5, StateAfterErrorType
    <3>2. job[w].post \in Nat \ {0}
      BY <2>1, <3>1 DEF ResultLive, TypeOK, ProcTypeOK, Jobs
    <3>3. postId' = [postId EXCEPT ![p] = job[w].post]
      BY <2>1, <2>5
    <3>4. ledger'[p].state = "published" /\ postId'[p] # 0
      BY <2>1, <2>4, <2>5, <3>2, <3>3
    <3>5. \A q \in Publications \ {p} : ledger'[q] = ledger[q] /\ postId'[q] = postId[q]
      BY <2>1, <2>4, <3>3
    <3>6. IdsAgree'
      BY <3>4, <3>5 DEF IdsAgree
    <3> QED
      BY <2>1, <2>3, <3>2, <3>3, <3>6
  <2>6. CASE state # "published"
    <3>1. postId' = postId /\ ledger'[p].state # "published"
      BY <2>1, <2>4, <2>6
    <3>2. \A q \in Publications \ {p} : ledger'[q] = ledger[q]
      BY <2>1, <2>4
    <3> QED
      BY <2>3, <3>1, <3>2 DEF IdsAgree
  <2> QED
    BY <2>5, <2>6
<1>3. ASSUME NEW p \in Publications, Environment(p) PROVE UNCHANGED <<postId, ledger>>
  BY <1>3 DEF AttemptInv, Environment, Land, MarkClaimed, NoClaims, Approve, RenderAsset
<1>4. ASSUME NEW w \in Workers, NEW p \in Publications, RowRejected(w, p)
      PROVE  UNCHANGED <<postId, ledger>>
  BY <1>4 DEF RowRejected
<1> QED
  BY <1>1, <1>2, <1>3, <1>4, StepKinds, CallEffect DEF db

LEMMA IdsAgreeHolds ==
  ASSUME SingleWorker, ~AgentClaims
  PROVE  Spec => []IdsAgree
<1>1. Init => ResultLive /\ IdsAgree
  BY InitLive DEF Init, LiveInv, IdsAgree, NoAttempt
<1>2. TypeOK /\ AttemptInv /\ ResultLive /\ IdsAgree /\ [Next]_vars
        => ResultLive' /\ IdsAgree'
  BY ResultLiveStep, IdsAgreeStep
<1> QED
  BY <1>1, <1>2, AttemptInvHolds, TypeCorrect, PTL DEF Spec

(* The ledger and the publication never part: what stores.py:4-6 promises  *)
(* holds for every number of publications, crashes and lost replies, as    *)
(* long as one worker publishes and no agent claims a post.                *)
THEOREM LedgerNeverDiverges ==
  ASSUME SingleWorker, ~AgentClaims
  PROVE  Spec => []LedgerAgreement
<1>1. AttemptInv /\ IdsAgree => LedgerAgreement
  BY DEF AttemptInv, LedgerAgreement
<1> QED
  BY <1>1, AttemptInvHolds, IdsAgreeHolds, PTL

(* A terminal attempt is final, and the platform is not called for its     *)
(* publication again: no container, no post (state_machine.py:10-11,       *)
(* 73-76).                                                                 *)
THEOREM SilentOnceTerminal ==
  ASSUME SingleWorker, ~AgentClaims
  PROVE  Spec => TerminalIsSilent
BY SilentStep, AttemptInvHolds, TypeCorrect, PTL DEF Spec, TerminalIsSilent

(* A container the ledger recorded is reused by every retry: the record    *)
(* stays and no second container is made (instagram/publisher.py:95-103).  *)
THEOREM ContainerReused ==
  ASSUME SingleWorker, ~AgentClaims
  PROVE  Spec => ContainerKept
BY KeepStep, AttemptInvHolds, TypeCorrect, PTL DEF Spec, ContainerKept

-----------------------------------------------------------------------------
(* How many posts                                                          *)

(* A call that has no result yet has met no error.                         *)
CallClean ==
  \A w \in Workers : pc[w] \in Running \ {"save"} => job[w].err = NoError

(* The ledger knows of the post, or a worker is about to tell it.          *)
Recorded(p) ==
  \/ ledger[p].state = "published"
  \/ \E w \in Workers : pc[w] = "save" /\ job[w].err = NoError /\ job[w].pub = p

(* Every post but one recorded took a fault.                               *)
PostsCounted ==
  \A p \in Publications : posts[p] <= faults + (IF Recorded(p) THEN 1 ELSE 0)

CountInv == CallClean /\ PostsCounted

LEMMA InitCount == Init => CountInv
BY DEF Init, CountInv, CallClean, PostsCounted, Running, Calling

LEMMA CallCleanStep == TypeOK /\ CallClean /\ [Next]_vars => CallClean'
<1> SUFFICES ASSUME TypeOK, CallClean, [Next]_vars, NEW w \in Workers,
                    pc'[w] \in Running \ {"save"}
             PROVE  job'[w].err = NoError
  BY DEF CallClean
<1> USE DEF TypeOK, ProcTypeOK
<1>1. CASE pc'[w] = pc[w] /\ job'[w] = job[w]
  BY <1>1 DEF CallClean
<1>2. CASE LoadProceeds(w)
  BY <1>2 DEF LoadProceeds, CallClean, Running, Jobs
<1>3. CASE Begins(w)
  <2>1. ASSUME NEW p \in Publications, RowEnters(w, p) PROVE job'[w].err = NoError
    BY <2>1 DEF RowEnters, NoJob
  <2>2. ASSUME NEW p \in Publications, NEW pl \in Platforms, NEW k \in MediaKinds,
               AgentCall(w, p, pl, k)
        PROVE  job'[w].err = NoError
    BY <2>2 DEF AgentCall, NoJob
  <2> QED
    BY <1>3, <2>1, <2>2 DEF Begins
<1>4. CASE GoesOn(w)
  BY <1>4 DEF CallClean, GoesOn
<1> QED
  BY <1>1, <1>2, <1>3, <1>4, JobStep

(* A post that appears was made by a worker that either goes on to save it *)
(* or has met a fault.                                                     *)
LEMMA PostComes ==
  ASSUME TypeOK, [Next]_vars, NEW p \in Publications, posts'[p] # posts[p]
  PROVE  \E w \in Workers :
           /\ MakesPost(w) /\ job[w].pub = p /\ posts'[p] = posts[p] + 1
           /\ MediaPublish(w) \/ faults' = faults + 1
<1> DEFINE Goal == \E w \in Workers :
                     /\ MakesPost(w) /\ job[w].pub = p /\ posts'[p] = posts[p] + 1
                     /\ MediaPublish(w) \/ faults' = faults + 1
<1>1. posts' # posts
  OBVIOUS
<1>2. ASSUME NEW w \in Workers, MakesPost(w), MediaPublish(w) \/ faults' = faults + 1
      PROVE  Goal
  BY <1>2, MakesPostType DEF TypeOK
<1>3. ASSUME NEW w \in Workers, Calls(w) PROVE Goal
  <2>1. CASE MediaPublish(w)
    BY <1>2, <2>1 DEF MediaPublish
  <2>2. CASE CreateContainer(w)
    BY <1>1, <2>2 DEF CreateContainer
  <2>3. CASE ReplyLost(w)
    BY <1>1, <1>2, <2>3 DEF ReplyLost
  <2>4. CASE CallRaises(w)
    BY <1>1, <1>2, <2>4 DEF CallRaises, net
  <2> QED
    BY <1>3, <2>1, <2>2, <2>3, <2>4 DEF Calls
<1>4. ASSUME NEW q \in Publications, Environment(q) PROVE FALSE
  BY <1>1, <1>4 DEF Environment, Land, MarkClaimed, Approve, RenderAsset, net
<1>5. ASSUME NEW w \in Workers, NEW q \in Publications, RowRejected(w, q) PROVE FALSE
  BY <1>1, <1>5 DEF RowRejected, net
<1>6. ASSUME NEW w \in Workers, Save(w) PROVE FALSE
  BY <1>1, <1>6 DEF Save, net
<1>7. ~UNCHANGED <<db, net>>
  BY <1>1 DEF net
<1> HIDE DEF Goal
<1>8. Goal
  BY <1>3, <1>4, <1>5, <1>6, <1>7, StepKinds
<1> QED
  BY <1>8 DEF Goal

(* A result waits until it is saved, unless its worker dies.               *)
LEMMA ResultWaits ==
  ASSUME TypeOK, [Next]_vars, NEW w \in Workers, pc[w] = "save"
  PROVE  \/ pc'[w] = pc[w] /\ job'[w] = job[w]
         \/ Save(w)
         \/ faults' = faults + 1
<1> DEFINE Goal == \/ pc'[w] = pc[w] /\ job'[w] = job[w]
                   \/ Save(w)
                   \/ faults' = faults + 1
<1> USE DEF TypeOK, ProcTypeOK
<1>1. UNCHANGED <<pc, job>> => Goal
  OBVIOUS
<1>2. ASSUME NEW v \in Workers, v # w, Batch(v) \/ Agent(v) \/ Attempt(v) \/ Fault(v)
      PROVE  Goal
  <2>1. pc'[w] = pc[w] /\ job'[w] = job[w]
    BY <1>2 DEF Batch, StartBatch, RowWaits, RowRejected, RowEnters, Agent,
         AgentCall, Attempt, Answered, Fault, Resume, Stop, ReturnsError,
         LoadTerminal, LoadRaises, LoadProceeds, CreateContainer,
         WaitProcessed, MediaPublish, CallFails, Save, ReplyLost, CallRaises,
         Crash
  <2> QED
    BY <2>1
<1>3. Batch(w) \/ Agent(w) => FALSE
  BY DEF Batch, StartBatch, RowWaits, RowRejected, RowEnters, AtRow, Agent, AgentCall
<1>4. LoadTerminal(w) \/ LoadRaises(w) \/ LoadProceeds(w) \/ Answered(w) => FALSE
  BY DEF LoadTerminal, LoadRaises, LoadProceeds, Answered, CreateContainer,
         MakesContainer, WaitProcessed, MediaPublish, MakesPost
<1>5. ASSUME NEW e \in ErrorClasses, CallFails(w, e) PROVE FALSE
  BY <1>5 DEF CallFails, Calling
<1>6. Fault(w) => faults' = faults + 1
  BY DEF Fault, ReplyLost, CallRaises, Crash
<1>7. ASSUME NEW p \in Publications, Environment(p) PROVE Goal
  BY <1>1, <1>7 DEF Environment, Land, MarkClaimed, Approve, RenderAsset, proc
<1>8. UNCHANGED vars => Goal
  BY <1>1 DEF vars
<1>9. Save(w) \/ faults' = faults + 1 => Goal
  OBVIOUS
<1> HIDE DEF Goal
<1>10. Goal
  BY <1>2, <1>3, <1>4, <1>5, <1>6, <1>7, <1>8, <1>9 DEF Next, Attempt
<1> QED
  BY <1>10 DEF Goal

LEMMA RecordStays ==
  ASSUME TypeOK, AttemptInv, [Next]_vars, NEW p \in Publications, Recorded(p)
  PROVE  Recorded(p)' \/ faults' = faults + 1
<1>1. CASE ledger[p].state = "published"
  <2>1. ledger[p].state \in TERMINAL
    BY <1>1 DEF TERMINAL
  <2>2. ledger'[p] = ledger[p]
    <3>1. ASSUME NEW w \in Workers, Save(w) PROVE ledger'[p] = ledger[p]
      BY <2>1, <3>1, SaveEffect DEF AttemptInv, CallOpen, Running
    <3> QED
      BY <3>1, LedgerStep
  <2> QED
    BY <1>1, <2>2 DEF Recorded
<1>2. ASSUME NEW w \in Workers, pc[w] = "save", job[w].err = NoError, job[w].pub = p
      PROVE  Recorded(p)' \/ faults' = faults + 1
  <2>1. CASE pc'[w] = pc[w] /\ job'[w] = job[w]
    BY <1>2, <2>1 DEF Recorded
  <2>2. CASE Save(w)
    <3>1. ledger'[p].state = "published"
      BY <1>2, <2>2 DEF Save, TypeOK, DbTypeOK
    <3> QED
      BY <3>1 DEF Recorded
  <2> QED
    BY <1>2, <2>1, <2>2, ResultWaits
<1> QED
  BY <1>1, <1>2 DEF Recorded

(* Who posts finds nothing recorded.                                       *)
LEMMA NothingRecorded ==
  ASSUME TypeOK, AttemptInv, OneBusy, NEW w \in Workers, MakesPost(w)
  PROVE  ~Recorded(job[w].pub)
<1>1. pc[w] \in {"publish", "upload"}
  BY DEF MakesPost
<1>2. pc[w] \in Running \ {"load"} /\ pc[w] # "idle" /\ pc[w] # "save"
  BY <1>1 DEF Running, Calling
<1>3. ledger[job[w].pub].state \notin TERMINAL
  BY <1>2 DEF AttemptInv, CallOpen
<1>4. \A v \in Workers : pc[v] # "save"
  BY <1>2 DEF OneBusy
<1> QED
  BY <1>3, <1>4 DEF Recorded, TERMINAL

LEMMA PostsCountedStep ==
  TypeOK /\ AttemptInv /\ CountInv /\ OneBusy /\ [Next]_vars => PostsCounted'
<1> SUFFICES ASSUME TypeOK, AttemptInv, CountInv, OneBusy, [Next]_vars,
                    NEW p \in Publications
             PROVE  posts'[p] <= faults' + (IF Recorded(p)' THEN 1 ELSE 0)
  BY DEF PostsCounted, Recorded
<1>1. posts[p] \in Nat /\ posts'[p] \in Nat
  BY PostsGrow
<1>2. faults \in Nat /\ faults' \in Nat /\ (faults' = faults \/ faults' = faults + 1)
  BY FaultsMove, FaultsStep, BoundsAssumption DEF TypeOK
<1>3. posts[p] <= faults + (IF Recorded(p) THEN 1 ELSE 0)
  BY DEF CountInv, PostsCounted
<1>4. CASE posts'[p] = posts[p]
  <2>1. CASE Recorded(p)
    <3>1. Recorded(p)' \/ faults' = faults + 1
      BY <2>1, RecordStays
    <3> QED
      BY <1>1, <1>2, <1>3, <1>4, <2>1, <3>1
  <2>2. CASE ~Recorded(p)
    <3>1. posts[p] <= faults
      BY <1>1, <1>2, <1>3, <2>2
    <3> QED
      BY <1>1, <1>2, <1>4, <3>1
  <2> QED
    BY <2>1, <2>2
<1>5. CASE posts'[p] # posts[p]
  <2>1. PICK w \in Workers :
          /\ MakesPost(w) /\ job[w].pub = p /\ posts'[p] = posts[p] + 1
          /\ MediaPublish(w) \/ faults' = faults + 1
    BY <1>5, PostComes
  <2>2. posts[p] <= faults
    BY <1>1, <1>2, <1>3, <2>1, NothingRecorded
  <2>3. CASE faults' = faults + 1
    BY <1>1, <1>2, <2>1, <2>2, <2>3
  <2>4. CASE MediaPublish(w)
    <3>1. pc[w] \in Running \ {"save"} /\ job[w] \in Jobs
      BY <2>1 DEF MakesPost, Running, Calling, TypeOK, ProcTypeOK
    <3>2. pc'[w] = "save" /\ job'[w].err = job[w].err /\ job'[w].pub = p
      BY <2>1, <2>4, <3>1 DEF MediaPublish, Jobs, TypeOK, ProcTypeOK
    <3>3. Recorded(p)'
      BY <3>1, <3>2 DEF Recorded, CountInv, CallClean
    <3> QED
      BY <1>1, <1>2, <2>1, <2>2, <3>3
  <2> QED
    BY <2>1, <2>3, <2>4
<1> QED
  BY <1>4, <1>5

LEMMA CountInvHolds ==
  ASSUME SingleWorker, ~AgentClaims
  PROVE  Spec => []CountInv
<1>1. OneBusy
  BY DEF SingleWorker, OneBusy
<1>2. TypeOK /\ AttemptInv /\ CountInv /\ [Next]_vars => CountInv'
  BY <1>1, PostsCountedStep, CallCleanStep DEF CountInv
<1> QED
  BY <1>2, InitCount, AttemptInvHolds, TypeCorrect, PTL DEF Spec

(* Every post of a publication after its first took a fault, a crash, a    *)
(* lost reply or an exception of its own: whatever agents call, and        *)
(* however often a batch is run again (state_machine.py:73-81).            *)
RepostsTakeFaults == \A p \in Publications : posts[p] <= 1 + faults

LEMMA CountedIsBounded == TypeOK /\ CountInv => RepostsTakeFaults
<1> SUFFICES ASSUME TypeOK, CountInv, NEW p \in Publications
             PROVE  posts[p] <= 1 + faults
  BY DEF RepostsTakeFaults
<1>1. posts[p] \in Nat /\ faults \in Nat
  BY BoundsAssumption DEF TypeOK, NetTypeOK
<1> QED
  BY <1>1 DEF CountInv, PostsCounted

(* So it is for one worker, with every crash, lost reply and exception it  *)
(* may meet.                                                               *)
THEOREM RepostsAreFaults ==
  ASSUME SingleWorker, ~AgentClaims
  PROVE  Spec => []RepostsTakeFaults
BY CountedIsBounded, CountInvHolds, TypeCorrect, PTL

(* Without a fault a publication has at most one live post (FR-P3, NFR-2). *)
THEOREM PostedOnce ==
  ASSUME SingleWorker, ~AgentClaims, MaxFaults = 0
  PROVE  Spec => []AtMostOnePost
<1>1. TypeOK /\ RepostsTakeFaults => AtMostOnePost
  <2> SUFFICES ASSUME TypeOK, RepostsTakeFaults, NEW p \in Publications
               PROVE  posts[p] <= 1
    BY DEF AtMostOnePost
  <2>1. faults = 0 /\ posts[p] \in Nat
    BY DEF TypeOK, NetTypeOK
  <2>2. posts[p] <= 1 + faults
    BY DEF RepostsTakeFaults
  <2> QED
    BY <2>1, <2>2
<1> QED
  BY <1>1, RepostsAreFaults, TypeCorrect, PTL

-----------------------------------------------------------------------------
(* The path implements PublishOnce                                         *)

(* No worker serves a channel whose agent may publish by itself.           *)
HybridOnly == \A w \in Workers : Channel[w].mode = "hybrid"

(* Then a call is always for a row of the batch, which waits.              *)
CallWaits == \A w \in Workers : pc[w] \in Running => status[job[w].pub] = "pending"

OnceInv == TypeOK /\ GateInv /\ AttemptInv /\ LiveInv /\ CountInv /\ CallWaits

LEMMA CallWaitsStep ==
  ASSUME HybridOnly, OneBusy
  PROVE  TypeOK /\ AttemptInv /\ CallWaits /\ [Next]_vars => CallWaits'
<1> SUFFICES ASSUME TypeOK, AttemptInv, CallWaits, [Next]_vars, NEW w \in Workers,
                    pc'[w] \in Running
             PROVE  status'[job'[w].pub] = "pending"
  BY DEF CallWaits
<1> DEFINE p == job'[w].pub
<1>1. p \in Publications
  BY ProcTypeStep DEF ProcTypeOK
<1>2. ASSUME pc[w] \in Running, p = job[w].pub PROVE status'[p] = "pending"
  <2>1. status[p] = "pending" /\ pc[w] # "idle" /\ pc[w] # "row"
    BY <1>2 DEF CallWaits, Running, Calling
  <2>2. ASSUME NEW q \in Publications, Land(q) PROVE status'[p] = "pending"
    BY <1>1, <2>1, <2>2 DEF Land, TypeOK, DbTypeOK
  <2>3. ASSUME NEW v \in Workers, NEW q \in Publications, RowRejected(v, q)
        PROVE  FALSE
    BY <2>1, <2>3 DEF RowRejected, AtRow, OneBusy
  <2>4. ASSUME NEW v \in Workers, Save(v) PROVE FALSE
    BY <2>1, <2>4, SaveEffect DEF OneBusy
  <2> QED
    BY <2>1, <2>2, <2>3, <2>4, StatusStep DEF AttemptInv
<1>3. CASE LoadProceeds(w)
  BY <1>2, <1>3 DEF LoadProceeds, Running, TypeOK, ProcTypeOK, Jobs
<1>4. CASE Begins(w)
  <2>1. ASSUME NEW q \in Publications, RowEnters(w, q) PROVE status'[p] = "pending"
    <3>1. p = q /\ q \in DOMAIN rows[w] /\ status' = status
      BY <2>1 DEF RowEnters, AtRow, NoJob, TypeOK, ProcTypeOK, db
    <3> QED
      BY <3>1 DEF AttemptInv, SnapshotCurrent
  <2>2. ASSUME NEW q \in Publications, NEW pl \in Platforms, NEW k \in MediaKinds,
               AgentCall(w, q, pl, k)
        PROVE  FALSE
    BY <2>2 DEF AgentCall, HybridOnly
  <2> QED
    BY <1>4, <2>1, <2>2 DEF Begins
<1> QED
  BY <1>2, <1>3, <1>4, JobStep DEF GoesOn

(* Without faults a publication has the post that is recorded, and no      *)
(* other.                                                                  *)
LEMMA LiveIsRecorded ==
  ASSUME MaxFaults = 0, OnceInv, NEW p \in Publications
  PROVE  posts[p] = IF Recorded(p) THEN 1 ELSE 0
<1>1. posts[p] \in Nat /\ faults = 0
  BY DEF OnceInv, TypeOK, NetTypeOK
<1>2. posts[p] <= IF Recorded(p) THEN 1 ELSE 0
  BY <1>1 DEF OnceInv, CountInv, PostsCounted
<1>3. ASSUME ledger[p].state = "published" PROVE posts[p] >= 1
  <2>1. postId[p] \in 1..posts[p]
    BY <1>3 DEF OnceInv, LiveInv, PublishedIsLive, AttemptInv, NoClaims
  <2> QED
    BY <1>1, <2>1
<1>4. ASSUME NEW w \in Workers, pc[w] = "save", job[w].err = NoError, job[w].pub = p
      PROVE  posts[p] >= 1
  <2>1. job[w].post \in 1..posts[p]
    BY <1>4 DEF OnceInv, LiveInv, ResultLive
  <2> QED
    BY <1>1, <2>1
<1>5. Recorded(p) => posts[p] >= 1
  BY <1>3, <1>4 DEF Recorded
<1> QED
  BY <1>1, <1>2, <1>5

(* The phase of one publication follows its status.                        *)
PhaseOf(s) == IF s \in {"absent", "pending"} THEN "waiting" ELSE s

LEMMA PhaseStep ==
  ASSUME TypeOK, NEW p \in Publications,
         \A q \in Publications \ {p} : status'[q] = status[q]
  PROVE  /\ Phase[p] = PhaseOf(status[p])
         /\ Phase' = [Phase EXCEPT ![p] = PhaseOf(status'[p])]
BY DEF Phase, PhaseOf

LEMMA PhaseKept ==
  ASSUME \A q \in Publications : PhaseOf(status'[q]) = PhaseOf(status[q])
  PROVE  Phase' = Phase
BY DEF Phase, PhaseOf

LEMMA OnceSave ==
  ASSUME MaxFaults = 0, OneBusy, OnceInv, NEW w \in Workers, Save(w)
  PROVE  [Once!Next]_<<Phase, posts>>
<1> DEFINE p == job[w].pub
<1> USE DEF OnceInv
<1>1. /\ pc[w] = "save" /\ p \in Publications
      /\ status'[p] = IF ledger'[p].state \in TERMINAL
                      THEN ledger'[p].state ELSE status[p]
      /\ \A q \in Publications \ {p} : status'[q] = status[q]
  BY SaveEffect
<1>2. posts' = posts
  BY DEF Save, net
<1>3. status[p] = "pending"
  BY <1>1 DEF CallWaits, Running
<1>4. ledger[p].state \notin TERMINAL
  BY <1>1 DEF AttemptInv, CallOpen, Running
<1>5. Phase[p] = "waiting" /\ Phase' = [Phase EXCEPT ![p] = PhaseOf(status'[p])]
  BY <1>1, <1>3, PhaseStep DEF PhaseOf
<1>6. CASE job[w].err = NoError
  <2>1. ledger'[p].state = "published"
    BY <1>1, <1>6 DEF Save, TypeOK, DbTypeOK
  <2>2. PhaseOf(status'[p]) = "published"
    BY <1>1, <2>1 DEF TERMINAL, PhaseOf
  <2>3. posts[p] = 1
    BY <1>1, <1>6, LiveIsRecorded DEF Recorded
  <2>4. Once!Publish(p)
    BY <1>2, <1>5, <2>2, <2>3 DEF Once!Publish
  <2> QED
    BY <1>1, <2>4 DEF Once!Next
<1>7. CASE job[w].err # NoError
  <2>1. ledger'[p].state = StateAfterError(job[w].err, job[w].cid)
    BY <1>1, <1>7 DEF Save, TypeOK, DbTypeOK
  <2>2. ledger'[p].state \in AttemptStates \ {"published"}
    BY <2>1, StateAfterErrorType
  <2>3. ~Recorded(p)
    BY <1>1, <1>4, <1>7 DEF Recorded, TERMINAL, OneBusy
  <2>4. posts[p] = 0
    BY <1>1, <2>3, LiveIsRecorded
  <2>5. CASE ledger'[p].state \in TERMINAL
    <3>1. PhaseOf(status'[p]) = "failed"
      BY <1>1, <2>2, <2>5 DEF TERMINAL, PhaseOf
    <3>2. Once!GiveUp(p)
      BY <1>2, <1>5, <2>4, <3>1 DEF Once!GiveUp
    <3> QED
      BY <1>1, <3>2 DEF Once!Next
  <2>6. CASE ledger'[p].state \notin TERMINAL
    <3>1. Phase' = Phase
      BY <1>1, <2>6, PhaseKept
    <3> QED
      BY <1>2, <3>1
  <2> QED
    BY <2>5, <2>6
<1> QED
  BY <1>6, <1>7

LEMMA OnceRejected ==
  ASSUME MaxFaults = 0, OneBusy, OnceInv, NEW w \in Workers, NEW p \in Publications,
         RowRejected(w, p)
  PROVE  [Once!Next]_<<Phase, posts>>
<1> USE DEF OnceInv
<1>1. /\ pc[w] = "row" /\ p \in DOMAIN rows[w] /\ ~rows[w][p].entered
      /\ status' = [status EXCEPT ![p] = "skipped"]
      /\ posts' = posts
  BY DEF RowRejected, AtRow, Gated, net
<1>2. status[p] = "pending" /\ ledger[p] = NoAttempt
  BY <1>1 DEF AttemptInv, SnapshotCurrent
<1>3. \A q \in Publications \ {p} : status'[q] = status[q]
  BY <1>1
<1>4. status'[p] = "skipped"
  BY <1>1 DEF TypeOK, DbTypeOK
<1>5. Phase[p] = "waiting" /\ Phase' = [Phase EXCEPT ![p] = "skipped"]
  BY <1>2, <1>3, <1>4, PhaseStep DEF PhaseOf
<1>6. ~Recorded(p)
  BY <1>1, <1>2 DEF Recorded, NoAttempt, OneBusy
<1>7. posts[p] = 0
  BY <1>6, LiveIsRecorded
<1>8. Once!GiveUp(p)
  BY <1>1, <1>5, <1>7 DEF Once!GiveUp
<1> QED
  BY <1>8 DEF Once!Next

LEMMA OncePosts ==
  ASSUME MaxFaults = 0, OneBusy, OnceInv, NEW w \in Workers, Calls(w)
  PROVE  [Once!Next]_<<Phase, posts>>
<1> USE DEF OnceInv
<1>1. ~CanFault
  BY DEF CanFault, TypeOK
<1>2. status' = status
  BY CallEffect DEF db
<1>3. Phase' = Phase
  BY <1>2, PhaseKept
<1>4. CASE CreateContainer(w)
  BY <1>3, <1>4 DEF CreateContainer
<1>5. CASE MediaPublish(w)
  <2> DEFINE p == job[w].pub
  <2>1. MakesPost(w) /\ posts' = [posts EXCEPT ![p] = posts[p] + 1]
    BY <1>5 DEF MediaPublish, MakesPost
  <2>2. p \in Publications
    BY <2>1, MakesPostType DEF TypeOK
  <2>3. posts[p] = 0
    BY <2>1, <2>2, NothingRecorded, LiveIsRecorded
  <2>4. pc[w] \in Running
    BY <2>1 DEF MakesPost, Running, Calling
  <2>5. Phase[p] = "waiting"
    BY <2>2, <2>4 DEF CallWaits, Phase
  <2>6. Once!Post(p)
    BY <1>3, <2>1, <2>3, <2>5 DEF Once!Post
  <2> QED
    BY <2>2, <2>6 DEF Once!Next
<1> QED
  BY <1>1, <1>4, <1>5 DEF Calls, ReplyLost, CallRaises

LEMMA OnceStep ==
  ASSUME MaxFaults = 0, OneBusy, OnceInv, [Next]_vars
  PROVE  [Once!Next]_<<Phase, posts>>
<1> USE DEF OnceInv
<1>1. ASSUME NEW p \in Publications, Environment(p) PROVE UNCHANGED <<Phase, posts>>
  <2>1. posts' = posts
    BY <1>1 DEF Environment, Land, MarkClaimed, Approve, RenderAsset, net
  <2>2. \A q \in Publications : PhaseOf(status'[q]) = PhaseOf(status[q])
    BY <1>1 DEF Environment, Land, MarkClaimed, Approve, RenderAsset, PhaseOf,
                AttemptInv, NoClaims, TypeOK, DbTypeOK
  <2> QED
    BY <2>1, <2>2, PhaseKept
<1>2. UNCHANGED <<db, net>> => UNCHANGED <<Phase, posts>>
  BY PhaseKept DEF db, net
<1> QED
  BY <1>1, <1>2, OnceSave, OnceRejected, OncePosts, StepKinds

(* In the deployment that publishes by batch alone, with one worker and no *)
(* faults, the path is PublishOnce: one post, before the word "published", *)
(* none where it gives up, and that word is final (state_machine.py:64-121,*)
(* publish/runner.py:85-138).                                              *)
THEOREM PathImplementsOnce ==
  ASSUME SingleWorker, HybridOnly, ~AgentClaims, MaxFaults = 0
  PROVE  Spec => OnceSpec
<1>1. OneBusy
  BY DEF SingleWorker, OneBusy
<1>2. Init => Once!Init
  BY DEF Init, Once!Init, Phase
<1>3. Init => CallWaits
  BY DEF Init, CallWaits, Running, Calling
<1>4. TypeOK /\ AttemptInv /\ CallWaits /\ [Next]_vars => CallWaits'
  BY <1>1, CallWaitsStep
<1>5. OnceInv /\ [Next]_vars => [Once!Next]_<<Phase, posts>>
  BY <1>1, OnceStep
<1>6. Init => GateInv /\ LiveInv
  BY InitGate, InitLive
<1>7. TypeOK /\ GateInv /\ LiveInv /\ [Next]_vars => GateInv' /\ LiveInv'
  BY GateStep, LiveStep
<1>8. Spec => []OnceInv
  BY <1>3, <1>4, <1>6, <1>7, TypeCorrect, AttemptInvHolds, CountInvHolds, PTL
     DEF Spec, OnceInv
<1> QED
  BY <1>2, <1>5, <1>8, PTL DEF Spec, OnceSpec, Once!Spec
=============================================================================
