--------------------------- MODULE PublishSystem ---------------------------
(***************************************************************************)
(* The cycle runner and the publish path over one database.  A command of  *)
(* the CLI (bootstrap.py) runs a cycle and then the batch, or the batch    *)
(* alone; while the orchestrator runs, its publisher may drive the state   *)
(* machine.  CycleRunner has the posting as one step and PublishPipeline   *)
(* the rows of a cycle as something that lands: here each has the other.   *)
(* One process runs at a time, the deployment publish/runner.py asks for;  *)
(* the processes may serve different channels.                             *)
(***************************************************************************)
EXTENDS PublishPipeline

CONSTANTS
  MaxCycles,    \* bound: cycles opened, each with at most one publication
  Returned,     \* the results an orchestrator may return
  MaxEnds       \* bound: processes ended by a statement that raises or a crash

VARIABLES opened, cycle, mode, result, topic, content, note, events,
          stage,  \* where the command of each worker is
          mine, failures, crashes

cycleVars == <<opened, cycle, mode, result, topic, content, note, events,
               stage, mine, failures, crashes>>
systemVars == <<vars, cycleVars>>

(* A cycle has at most one media asset, no code renders it a second one.   *)
AssetOf == [c \in Publications |->
              IF assets[c] = <<>> THEN "absent" ELSE assets[c][Len(assets[c])]]

C == INSTANCE CycleRunner WITH
       Mode <- [w \in Workers |-> Channel[w].mode], Sandboxed <- Workers,
       MaxFailures <- MaxEnds, MaxCrashes <- MaxEnds,
       asset <- AssetOf, publication <- status, pc <- stage

ASSUME CyclesAssumption ==
  Publications = 1..MaxCycles /\ Returned \subseteq C!Results
ASSUME CountsAssumption == MaxCycles \in Nat /\ MaxEnds \in Nat
ASSUME NoClaimsAssumption == ~AgentClaims

SystemInit == Init /\ C!Init

-----------------------------------------------------------------------------
(* The command: a cycle, statement by statement, then the batch            *)

Alone(w) == \A v \in Workers \ {w} : stage[v] = "idle"

Command(w) == Alone(w) /\ (C!OpenCycle(w) \/ C!StartBatch(w))

(* The tool an agent called has returned before the agent does; a batch    *)
(* has visited its rows, or was ended by an exception, before it is over.  *)
Proceeds(w) ==
  \/ C!LogStarted(w)
  \/ \E r \in Returned : C!AgentReturns(w, r)
  \/ C!AgentRaises(w) \/ C!LogError(w) \/ C!CloseFailed(w)
  \/ C!SaveTopic(w) \/ C!SaveContent(w) \/ C!SaveNote(w)
  \/ C!CloseCycle(w) \/ C!LogCompleted(w) \/ C!BatchDone(w)

Ends(w) ==
  /\ failures + crashes < MaxEnds
  /\ C!StatementRaises(w) \/ C!Crash(w)

CycleStep(w) ==
  /\ pc[w] = "idle"
  /\ UNCHANGED vars
  /\ Command(w) \/ Proceeds(w) \/ Ends(w)

(* _persist: the media asset, and after it the publication.                *)
SaveAsset(w) ==
  /\ stage[w] = "asset"
  /\ assets' = [assets EXCEPT ![mine[w]] = <<"needs_review">>]
  /\ stage' = [stage EXCEPT ![w] = "publication"]
  /\ UNCHANGED <<status, postId, ledger, claims, net, proc, faults, opened, cycle,
                 mode, result, topic, content, note, events, mine, failures, crashes>>

CreatePublication(w) ==
  /\ stage[w] = "publication"
  /\ status' = [status EXCEPT ![mine[w]] = "pending"]
  /\ stage' = [stage EXCEPT ![w] = C!NoteStage(result[mine[w]])]
  /\ UNCHANGED <<postId, ledger, assets, claims, net, proc, faults, opened, cycle,
                 mode, result, topic, content, note, events, mine, failures, crashes>>

-----------------------------------------------------------------------------
(* The batch, the agent's tool, the operator, a crash in mid-call          *)

Publishes(w) ==
  /\ \/ stage[w] = "batch" /\ Batch(w)
     \/ stage[w] = "agent" /\ Agent(w)
     \/ stage[w] \in {"batch", "agent"} /\ (Attempt(w) \/ ReplyLost(w) \/ CallRaises(w))
  /\ UNCHANGED cycleVars

Approves(c) == Approve(c) /\ C!Approve(c)

Dies(w) == failures + crashes < MaxEnds /\ Crash(w) /\ C!Crash(w)

SystemNext ==
  \/ \E w \in Workers : \/ CycleStep(w) \/ SaveAsset(w) \/ CreatePublication(w)
                        \/ Publishes(w) \/ Dies(w)
  \/ \E c \in Publications : Approves(c)

SystemSpec == SystemInit /\ [][SystemNext]_systemVars

-----------------------------------------------------------------------------
(* Properties                                                              *)

(* Seen from the cycle runner's ledger, everything the batch and the tool  *)
(* do, over all their calls, faults and retries, is to settle publications *)
(* whose media passed: the whole implements CycleRunner.                   *)
CyclesSpec == C!Spec

(* Of what waits for the operator's review nothing reaches a platform or   *)
(* the publish ledger (FR-O2; runner.py:128-129 writes the status that     *)
(* holds content, publish/runner.py:118 asks for the media's): not from a  *)
(* batch, nor from the agent of another channel, whatever dies or is lost. *)
HeldOffPlatform ==
  \A c \in Publications : content[c] = "needs_review" =>
    containers[c] = 0 /\ posts[c] = 0 /\ ledger[c] = NoAttempt
=============================================================================
