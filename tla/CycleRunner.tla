----------------------------- MODULE CycleRunner -----------------------------
(***************************************************************************)
(* The cycle runner of nooa-sns (runner.py) and the ledger it owns         *)
(* (store.py): a slot opens a cycle, the orchestrator, an LLM agent,       *)
(* returns whatever it likes, what it returned is written row by row, and  *)
(* the cycle is closed.  Around it are the operator who approves           *)
(* (approval.py) and the batch that posts (bootstrap.py run_slot), seen    *)
(* from here as a single step per publication; PublishPipeline has it in   *)
(* full.  Every statement commits on its own.                              *)
(***************************************************************************)
EXTENDS PublishContract, Naturals, Sequences

CONSTANTS
  Workers,      \* the CLI processes
  Mode,         \* [Workers -> Modes] the mode of the channel they serve
  Sandboxed,    \* the workers that run inside the sandbox
  MaxCycles,    \* bound: cycles opened
  AgentClaims,  \* may the agent's result carry a post_id?
  MaxFailures,  \* bound: statements that raise
  MaxCrashes    \* bound: processes that die

ASSUME WorkersAssumption ==
  Mode \in [Workers -> Modes] /\ Sandboxed \subseteq Workers
ASSUME FlagsAssumption == AgentClaims \in BOOLEAN
ASSUME BoundsAssumption ==
  MaxCycles \in Nat /\ MaxFailures \in Nat /\ MaxCrashes \in Nat

Cycles == 1..MaxCycles

VARIABLES
  opened,       \* the cycles opened so far
  cycle,        \* cycle.status, "absent" before the row
  mode,         \* the mode of its channel
  result,       \* what the orchestrator returned
  topic,        \* is there a topic row?
  content,      \* content_item.status
  asset,        \* media_asset.quality_status
  publication,  \* publication.status
  note,         \* is there an analysis_note row?
  events,       \* the run_event rows of the runner itself, oldest first
  pc,           \* where each worker is
  mine,         \* the cycle it runs
  failures, crashes

ledger == <<opened, cycle, mode, result>>
landed == <<topic, content, asset, publication, note>>
proc   == <<pc, mine>>
vars   == <<opened, cycle, mode, result, topic, content, asset,
            publication, note, events, pc, mine, failures, crashes>>

-----------------------------------------------------------------------------
(* A result is the set of its fields that are not empty; "ok" is a status  *)
(* of completed or partial.                                                *)
Fields  == {"ok", "title", "body", "url", "post", "note"}
Results == IF AgentClaims THEN SUBSET Fields ELSE SUBSET (Fields \ {"post"})
NoResult == {"none"}

Closed == {"completed", "failed"}

(* The stages of run_cycle; at each of them but the first two and the      *)
(* batch a statement is executed.                                          *)
Stages == {"idle", "agent", "started", "error", "fail", "topic", "content",
           "asset", "publication", "mark", "note", "close", "closed", "batch"}
Statements == Stages \ {"idle", "agent", "batch"}

Init ==
  /\ opened = 0
  /\ cycle = [c \in Cycles |-> "absent"]
  /\ mode = [c \in Cycles |-> "auto"]
  /\ result = [c \in Cycles |-> NoResult]
  /\ topic = [c \in Cycles |-> FALSE]
  /\ content = [c \in Cycles |-> "absent"]
  /\ asset = [c \in Cycles |-> "absent"]
  /\ publication = [c \in Cycles |-> "absent"]
  /\ note = [c \in Cycles |-> FALSE]
  /\ events = [c \in Cycles |-> <<>>]
  /\ pc = [w \in Workers |-> "idle"]
  /\ mine = [w \in Workers |-> 0]
  /\ failures = 0 /\ crashes = 0

-----------------------------------------------------------------------------
(* run_cycle                                                               *)

GoTo(w, stage) == pc' = [pc EXCEPT ![w] = stage] /\ UNCHANGED mine
(* Mutant: the process that ends keeps its cycle.                          *)
EndsHolding(w) == pc' = [pc EXCEPT ![w] = "idle"] /\ UNCHANGED mine
Ends(w) == pc' = [pc EXCEPT ![w] = "idle"] /\ mine' = [mine EXCEPT ![w] = 0]
Log(c, kind) == events' = [events EXCEPT ![c] = Append(@, kind)]

(* The sandbox is checked before anything is written; then create_cycle.   *)
(* Nothing in the row names the slot it was triggered for.                 *)
OpenCycle(w) ==
  LET c == opened + 1 IN
  /\ pc[w] = "idle"
  /\ w \in Sandboxed
  /\ opened < MaxCycles
  /\ opened' = c
  /\ cycle' = [cycle EXCEPT ![c] = "running"]
  /\ mode' = [mode EXCEPT ![c] = Mode[w]]
  /\ pc' = [pc EXCEPT ![w] = "started"]
  /\ mine' = [mine EXCEPT ![w] = c]
  /\ UNCHANGED <<result, landed, events, failures, crashes>>

LogStarted(w) ==
  /\ pc[w] = "started"
  /\ Log(mine[w], "cycle_started")
  /\ GoTo(w, "agent")
  /\ UNCHANGED <<ledger, landed, failures, crashes>>

(* Mutant: the note is written inside the block of the media.              *)
NoteStageIndented(r) == IF {"url", "note"} \subseteq r THEN "note" ELSE "close"

NoteStage(r) == IF "note" \in r THEN "note" ELSE "close"

(* The order of _persist and its early returns.                            *)
NextStage(stage, r) ==
  CASE stage = "agent"       -> IF "title" \in r THEN "topic" ELSE "close"
    [] stage = "topic"       -> IF "body" \in r THEN "content" ELSE "close"
    [] stage = "content"     -> IF "url" \in r THEN "asset" ELSE NoteStage(r)
    [] stage = "asset"       -> "publication"
    [] stage = "publication" -> IF "post" \in r THEN "mark" ELSE NoteStage(r)
    [] stage = "mark"        -> NoteStage(r)
    [] stage = "note"        -> "close"

(* Mutant: the cycle is closed before what it returned is written.         *)
AgentReturnsClosed(w, r) ==
  /\ pc[w] = "agent"
  /\ result' = [result EXCEPT ![mine[w]] = r]
  /\ cycle' = [cycle EXCEPT ![mine[w]] = IF "ok" \in r THEN "completed" ELSE "failed"]
  /\ GoTo(w, NextStage("agent", r))
  /\ UNCHANGED <<opened, mode, landed, events, failures, crashes>>

(* The orchestrator returns any result at all.                             *)
AgentReturns(w, r) ==
  /\ pc[w] = "agent"
  /\ result' = [result EXCEPT ![mine[w]] = r]
  /\ GoTo(w, NextStage("agent", r))
  /\ UNCHANGED <<opened, cycle, mode, landed, events, failures, crashes>>

AgentRaises(w) ==
  /\ pc[w] = "agent"
  /\ GoTo(w, "error")
  /\ UNCHANGED <<ledger, landed, events, failures, crashes>>

(* Mutant: the exception does not go on, the cycle is closed as any other. *)
LogErrorSwallowed(w) ==
  /\ pc[w] = "error"
  /\ Log(mine[w], "error")
  /\ GoTo(w, "close")
  /\ UNCHANGED <<ledger, landed, failures, crashes>>

LogError(w) ==
  /\ pc[w] = "error"
  /\ Log(mine[w], "error")
  /\ GoTo(w, "fail")
  /\ UNCHANGED <<ledger, landed, failures, crashes>>

(* The exception goes on after complete_cycle and ends the process.        *)
CloseFailed(w) ==
  /\ pc[w] = "fail"
  /\ cycle' = [cycle EXCEPT ![mine[w]] = "failed"]
  /\ Ends(w)
  /\ UNCHANGED <<opened, mode, result, landed, events, failures, crashes>>

-----------------------------------------------------------------------------
(* _persist                                                                *)

Written(w) ==
  /\ GoTo(w, NextStage(pc[w], result[mine[w]]))
  /\ UNCHANGED <<ledger, events, failures, crashes>>

SaveTopic(w) ==
  /\ pc[w] = "topic"
  /\ topic' = [topic EXCEPT ![mine[w]] = TRUE]
  /\ Written(w)
  /\ UNCHANGED <<content, asset, publication, note>>

(* Hybrid and not posted: to be reviewed.                                  *)
SaveContent(w) ==
  LET c == mine[w]
      held == mode[c] = "hybrid" /\ "post" \notin result[c]
  IN
  /\ pc[w] = "content"
  /\ content' = [content EXCEPT ![c] = IF held THEN "needs_review" ELSE "approved"]
  /\ Written(w)
  /\ UNCHANGED <<topic, asset, publication, note>>

(* Always needs_review: the quality gate is not wired yet.                 *)
SaveAsset(w) ==
  /\ pc[w] = "asset"
  /\ asset' = [asset EXCEPT ![mine[w]] = "needs_review"]
  /\ Written(w)
  /\ UNCHANGED <<topic, content, publication, note>>

CreatePublication(w) ==
  /\ pc[w] = "publication"
  /\ publication' = [publication EXCEPT ![mine[w]] = "pending"]
  /\ Written(w)
  /\ UNCHANGED <<topic, content, asset, note>>

MarkPublished(w) ==
  /\ pc[w] = "mark"
  /\ publication' = [publication EXCEPT ![mine[w]] = "published"]
  /\ Written(w)
  /\ UNCHANGED <<topic, content, asset, note>>

SaveNote(w) ==
  /\ pc[w] = "note"
  /\ note' = [note EXCEPT ![mine[w]] = TRUE]
  /\ Written(w)
  /\ UNCHANGED <<topic, content, asset, publication>>

CloseCycle(w) ==
  LET c == mine[w] IN
  /\ pc[w] = "close"
  /\ cycle' = [cycle EXCEPT ![c] = IF "ok" \in result[c] THEN "completed" ELSE "failed"]
  /\ GoTo(w, "closed")
  /\ UNCHANGED <<opened, mode, result, landed, events, failures, crashes>>

LogCompleted(w) ==
  /\ pc[w] = "closed"
  /\ Log(mine[w], "cycle_completed")
  /\ pc' = [pc EXCEPT ![w] = "batch"]
  /\ mine' = [mine EXCEPT ![w] = 0]
  /\ UNCHANGED <<ledger, landed, failures, crashes>>

-----------------------------------------------------------------------------
(* The batch, the operator, failures                                       *)

(* The publish-pending command runs the batch alone.                       *)
StartBatch(w) ==
  /\ pc[w] = "idle"
  /\ GoTo(w, "batch")
  /\ UNCHANGED <<ledger, landed, events, failures, crashes>>

(* A reviewed publication may be posted, or refused for good: by a batch   *)
(* whose rows may have been selected before another worker settled them,   *)
(* and on an auto channel by the tool the agent was given.                 *)
Posting(w) == pc[w] = "batch" \/ (pc[w] = "agent" /\ Mode[w] = "auto")
Postable(c) == publication[c] # "absent" /\ asset[c] = "passed"

Post(w, c) ==
  /\ Posting(w)
  /\ Postable(c)
  /\ \E s \in {"published", "failed"} :
       publication' = [publication EXCEPT ![c] = s]
  /\ UNCHANGED <<ledger, topic, content, asset, note, events, proc, failures, crashes>>

(* A batch may leave rows pending, those it waits for and those that met a *)
(* transient error.                                                        *)
BatchDone(w) ==
  /\ pc[w] = "batch"
  /\ Ends(w)
  /\ UNCHANGED <<ledger, landed, events, failures, crashes>>

(* Mutant: the operator's approval reaches the media only.                 *)
ApproveMedia(c) ==
  /\ publication[c] # "absent"
  /\ asset' = [asset EXCEPT ![c] = IF @ = "needs_review" THEN "passed" ELSE @]
  /\ UNCHANGED <<ledger, topic, content, publication, note, events, proc, failures, crashes>>

(* approve_publication: content and media in one transaction.              *)
Approve(c) ==
  /\ publication[c] # "absent"
  /\ content' = [content EXCEPT ![c] = IF @ = "needs_review" THEN "approved" ELSE @]
  /\ asset' = [asset EXCEPT ![c] = IF @ = "needs_review" THEN "passed" ELSE @]
  /\ UNCHANGED <<ledger, topic, publication, note, events, proc, failures, crashes>>

(* A statement raises: nobody catches it, the process ends.                *)
StatementRaises(w) ==
  /\ failures < MaxFailures
  /\ pc[w] \in Statements
  /\ Ends(w)
  /\ failures' = failures + 1
  /\ UNCHANGED <<ledger, landed, events, crashes>>

Crash(w) ==
  /\ crashes < MaxCrashes
  /\ pc[w] # "idle"
  /\ Ends(w)
  /\ crashes' = crashes + 1
  /\ UNCHANGED <<ledger, landed, events, failures>>

-----------------------------------------------------------------------------
Persist(w) ==
  SaveTopic(w) \/ SaveContent(w) \/ SaveAsset(w) \/ CreatePublication(w)
    \/ MarkPublished(w) \/ SaveNote(w)

Run(w) ==
  \/ LogStarted(w)
  \/ \E r \in Results : AgentReturns(w, r)
  \/ AgentRaises(w) \/ LogError(w) \/ CloseFailed(w)
  \/ Persist(w) \/ CloseCycle(w) \/ LogCompleted(w)

Batch(w) == StartBatch(w) \/ BatchDone(w) \/ \E c \in Cycles : Post(w, c)

Next ==
  \/ \E w \in Workers :
       \/ OpenCycle(w) \/ Run(w) \/ Batch(w) \/ StatementRaises(w) \/ Crash(w)
  \/ \E c \in Cycles : Approve(c)

Spec == Init /\ [][Next]_vars

(* A process that runs goes on running, a batch is run again and again;    *)
(* an operator need not ever approve.                                      *)
FairSpec == Spec /\ \A w \in Workers : WF_vars(Run(w)) /\ WF_vars(Batch(w))

-----------------------------------------------------------------------------
(* Properties                                                              *)

(* Every variable stays in its type, and a worker inside run_cycle has a   *)
(* cycle of its own that is open.                                          *)
Running(w) == pc[w] \notin {"idle", "batch"}
TypeOK ==
  /\ opened \in 0..MaxCycles
  /\ cycle \in [Cycles -> {"absent", "running"} \cup Closed]
  /\ mode \in [Cycles -> Modes]
  /\ result \in [Cycles -> Results \cup {NoResult}]
  /\ topic \in [Cycles -> BOOLEAN] /\ note \in [Cycles -> BOOLEAN]
  /\ content \in [Cycles -> {"absent", "needs_review", "approved"}]
  /\ asset \in [Cycles -> {"absent", "needs_review", "passed"}]
  /\ publication \in [Cycles -> {"absent", "pending", "published", "failed"}]
  /\ events \in [Cycles -> Seq({"cycle_started", "error", "cycle_completed"})]
  /\ pc \in [Workers -> Stages]
  /\ mine \in [Workers -> 0..MaxCycles]
  /\ \A w \in Workers : Running(w) <=> mine[w] # 0
  /\ failures \in 0..MaxFailures /\ crashes \in 0..MaxCrashes

(* A closed cycle has landed what its result carried, all of it and no     *)
(* more, whatever fields were empty (runner.py:110-165); one that was      *)
(* closed because the agent raised has landed nothing.                     *)
ClosedIsWhole ==
  \A c \in Cycles : cycle[c] \in Closed =>
    LET r == result[c] IN
    /\ topic[c] <=> "title" \in r
    /\ content[c] # "absent" <=> {"title", "body"} \subseteq r
    /\ publication[c] # "absent" <=> {"title", "body", "url"} \subseteq r
    /\ asset[c] # "absent" <=> publication[c] # "absent"
    /\ note[c] <=> {"title", "body", "note"} \subseteq r
    /\ cycle[c] = "completed" => "ok" \in r

(* A closed cycle stays as it was closed, and lands nothing more; what an  *)
(* open one has landed stays, whatever fails later (store.py:4-6).         *)
StaysOf(c) ==
  /\ cycle[c] \in Closed =>
       /\ cycle'[c] = cycle[c]
       /\ topic'[c] = topic[c] /\ note'[c] = note[c]
       /\ (asset[c] = "absent" <=> asset'[c] = "absent")
       /\ (publication[c] = "absent" <=> publication'[c] = "absent")
  /\ topic[c] => topic'[c]
  /\ content[c] # "absent" => content'[c] # "absent"
  /\ publication[c] # "absent" => publication'[c] # "absent"
LandedStays == [][\A c \in Cycles : StaysOf(c)]_vars

(* The runner's events tell the story of the ledger: they begin with the   *)
(* start, "completed" comes last and only after the cycle was closed, and  *)
(* an error never precedes a completed cycle.                              *)
EventsTellStory ==
  \A c \in Cycles :
    LET e == events[c] IN
    /\ e # <<>> => e[1] = "cycle_started" /\ cycle[c] # "absent"
    /\ \A i \in DOMAIN e : e[i] = "cycle_completed" =>
         i = Len(e) /\ cycle[c] \in Closed /\ result[c] # NoResult
    /\ \A i \in DOMAIN e : e[i] = "error" =>
         cycle[c] # "completed" /\ result[c] = NoResult

(* What is held for review is not posted (FR-O2): content and media leave  *)
(* review together, and only a post the agent claims escapes it.           *)
HeldForReview ==
  \A c \in Cycles :
    /\ content[c] = "needs_review" =>
         asset[c] # "passed" /\ publication[c] \in {"absent", "pending"}
    /\ publication[c] \in {"published", "failed"} =>
         asset[c] = "passed" \/ "post" \in result[c]

(* Every cycle that is opened is closed (runner.py:54).                    *)
CyclesClose == \A c \in Cycles : cycle[c] = "running" ~> cycle[c] \in Closed
=============================================================================
