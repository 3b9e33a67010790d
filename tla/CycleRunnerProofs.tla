-------------------------- MODULE CycleRunnerProofs --------------------------
(***************************************************************************)
(* Proofs about CycleRunner, for any workers, channels, slots, results and *)
(* bounds.  The invariant follows each worker down _persist: at every      *)
(* stage it says which rows of its cycle have landed and what they tell of *)
(* the result, so that a cycle that reaches "close" has landed it whole.   *)
(***************************************************************************)
EXTENDS CycleRunner, SequenceTheorems, TLAPS

(* Which rows of cycle c there are.                                        *)
Rows(c, t, k, a, p, n) ==
  /\ topic[c] <=> t
  /\ content[c] # "absent" <=> k
  /\ asset[c] # "absent" <=> a
  /\ publication[c] # "absent" <=> p
  /\ note[c] <=> n

None(c) == Rows(c, FALSE, FALSE, FALSE, FALSE, FALSE)

Whole(c) ==
  LET r == result[c] IN
  Rows(c, "title" \in r, {"title", "body"} \subseteq r,
       {"title", "body", "url"} \subseteq r, {"title", "body", "url"} \subseteq r,
       {"title", "body", "note"} \subseteq r)

Early == {"started", "agent", "error", "fail"}

(* What holds of the cycle c of a worker that is at a stage.               *)
At(stage, c) ==
  LET r == result[c] IN
  /\ c \in 1..opened
  /\ cycle[c] = "running" <=> stage # "closed"
  /\ stage \in Early => r = NoResult /\ None(c)
  /\ stage \notin Early => r \in Results
  /\ stage = "topic" => "title" \in r /\ None(c)
  /\ stage \in {"content", "asset", "publication", "mark", "note"} =>
       {"title", "body"} \subseteq r
  /\ stage \in {"asset", "publication", "mark"} => "url" \in r
  /\ stage = "content" => Rows(c, TRUE, FALSE, FALSE, FALSE, FALSE)
  /\ stage = "asset" => Rows(c, TRUE, TRUE, FALSE, FALSE, FALSE)
  /\ stage = "publication" => Rows(c, TRUE, TRUE, TRUE, FALSE, FALSE)
  /\ stage = "mark" => "post" \in r /\ Rows(c, TRUE, TRUE, TRUE, TRUE, FALSE)
  /\ stage = "note" => "note" \in r
       /\ Rows(c, TRUE, TRUE, "url" \in r, "url" \in r, FALSE)
  /\ stage \in {"close", "closed"} => Whole(c)
  /\ cycle[c] = "completed" => "ok" \in r

Owned    == \A w \in Workers : Running(w) => At(pc[w], mine[w])
OwnedBy1 == \A v, w \in Workers : mine[v] = mine[w] /\ mine[v] # 0 => v = w
Unopened == \A c \in Cycles : c > opened =>
              /\ cycle[c] = "absent" /\ result[c] = NoResult /\ None(c)
              /\ events[c] = <<>>
ClosedWhole == \A c \in Cycles : cycle[c] \in Closed =>
                 Whole(c) /\ (cycle[c] = "completed" => "ok" \in result[c])

Inv == TypeOK /\ Owned /\ OwnedBy1 /\ Unopened /\ ClosedWhole

-----------------------------------------------------------------------------
LEMMA InitInv == Init => Inv
<1> SUFFICES ASSUME Init PROVE Inv
    OBVIOUS
<1> USE WorkersAssumption, BoundsAssumption
<1>1. TypeOK
  <2>1. mode \in [Cycles -> Modes] /\ result \in [Cycles -> Results \cup {NoResult}]
    BY DEF Init, Modes
  <2>2. events \in [Cycles -> Seq({"cycle_started", "error", "cycle_completed"})]
    BY DEF Init
  <2> QED
    BY <2>1, <2>2 DEF Init, TypeOK, Running, Closed, Stages
<1>2. Owned /\ OwnedBy1
  BY DEF Init, Owned, OwnedBy1, Running
<1>3. Unopened /\ ClosedWhole
  BY DEF Init, Unopened, ClosedWhole, None, Rows, Closed, Cycles
<1> QED
  BY <1>1, <1>2, <1>3 DEF Inv

LEMMA MineIsCycle ==
  ASSUME TypeOK, NEW w \in Workers, Running(w) PROVE mine[w] \in Cycles
BY BoundsAssumption DEF TypeOK, Cycles

LEMMA LogTyped ==
  ASSUME TypeOK, NEW c \in Cycles,
         NEW kind \in {"cycle_started", "error", "cycle_completed"}, Log(c, kind)
  PROVE  events' \in [Cycles -> Seq({"cycle_started", "error", "cycle_completed"})]
<1>1. Append(events[c], kind) \in Seq({"cycle_started", "error", "cycle_completed"})
  BY DEF TypeOK
<1> QED
  BY <1>1 DEF TypeOK, Log

LEMMA TypeStep == ASSUME TypeOK, [Next]_vars PROVE TypeOK'
<1> USE WorkersAssumption, BoundsAssumption DEF TypeOK, Running, Cycles
<1>1. CASE UNCHANGED vars
  BY <1>1 DEF vars
<1>2. ASSUME NEW w \in Workers, OpenCycle(w) PROVE TypeOK'
  BY <1>2 DEF OpenCycle, landed, Stages, Closed
<1>3. ASSUME NEW w \in Workers, LogStarted(w) PROVE TypeOK'
  <2>1. events' \in [Cycles -> Seq({"cycle_started", "error", "cycle_completed"})]
    BY <1>3, MineIsCycle, LogTyped DEF LogStarted
  <2> QED
    BY <1>3, <2>1 DEF LogStarted, GoTo, ledger, landed, Stages
<1>4. ASSUME NEW w \in Workers, NEW r \in Results, AgentReturns(w, r) PROVE TypeOK'
  BY <1>4 DEF AgentReturns, NextStage, GoTo, landed, Stages
<1>5. ASSUME NEW w \in Workers, AgentRaises(w) PROVE TypeOK'
  BY <1>5 DEF AgentRaises, GoTo, ledger, landed, Stages
<1>6. ASSUME NEW w \in Workers, LogError(w) PROVE TypeOK'
  <2>1. events' \in [Cycles -> Seq({"cycle_started", "error", "cycle_completed"})]
    BY <1>6, MineIsCycle, LogTyped DEF LogError
  <2> QED
    BY <1>6, <2>1 DEF LogError, GoTo, ledger, landed, Stages
<1>7. ASSUME NEW w \in Workers, CloseFailed(w) PROVE TypeOK'
  <2>1. cycle' \in [Cycles -> {"absent", "running"} \cup Closed]
    BY <1>7, MineIsCycle DEF CloseFailed, Closed
  <2>2. pc' \in [Workers -> Stages] /\ mine' \in [Workers -> 0..MaxCycles]
        /\ \A v \in Workers : Running(v)' <=> mine'[v] # 0
    BY <1>7 DEF CloseFailed, Ends, Stages
  <2> QED
    BY <1>7, <2>1, <2>2 DEF CloseFailed, landed
<1>8. ASSUME NEW w \in Workers, SaveTopic(w) PROVE TypeOK'
  BY <1>8 DEF SaveTopic, Written, GoTo, NextStage, ledger, landed, Stages
<1>9. ASSUME NEW w \in Workers, SaveContent(w) PROVE TypeOK'
  BY <1>9 DEF SaveContent, Written, GoTo, NextStage, NoteStage, ledger, landed, Stages
<1>10. ASSUME NEW w \in Workers, SaveAsset(w) PROVE TypeOK'
  BY <1>10 DEF SaveAsset, Written, GoTo, NextStage, ledger, landed, Stages
<1>11. ASSUME NEW w \in Workers, CreatePublication(w) PROVE TypeOK'
  BY <1>11 DEF CreatePublication, Written, GoTo, NextStage, NoteStage, ledger, landed, Stages
<1>12. ASSUME NEW w \in Workers, MarkPublished(w) PROVE TypeOK'
  BY <1>12 DEF MarkPublished, Written, GoTo, NextStage, NoteStage, ledger, landed, Stages
<1>13. ASSUME NEW w \in Workers, SaveNote(w) PROVE TypeOK'
  BY <1>13 DEF SaveNote, Written, GoTo, NextStage, ledger, landed, Stages
<1>14. ASSUME NEW w \in Workers, CloseCycle(w) PROVE TypeOK'
  BY <1>14 DEF CloseCycle, GoTo, landed, Stages, Closed
<1>15. ASSUME NEW w \in Workers, LogCompleted(w) PROVE TypeOK'
  <2>1. events' \in [Cycles -> Seq({"cycle_started", "error", "cycle_completed"})]
    BY <1>15, MineIsCycle, LogTyped DEF LogCompleted
  <2> QED
    BY <1>15, <2>1 DEF LogCompleted, ledger, landed, Stages
<1>16. ASSUME NEW w \in Workers, StartBatch(w) PROVE TypeOK'
  BY <1>16 DEF StartBatch, GoTo, ledger, landed, Stages
<1>17. ASSUME NEW w \in Workers, NEW c \in Cycles, Post(w, c) PROVE TypeOK'
  BY <1>17 DEF Post, ledger, proc
<1>18. ASSUME NEW w \in Workers, BatchDone(w) PROVE TypeOK'
  BY <1>18 DEF BatchDone, Ends, ledger, landed, Stages
<1>19. ASSUME NEW c \in Cycles, Approve(c) PROVE TypeOK'
  BY <1>19 DEF Approve, ledger, proc
<1>20. ASSUME NEW w \in Workers, StatementRaises(w) PROVE TypeOK'
  BY <1>20 DEF StatementRaises, Ends, ledger, landed, Stages, Statements
<1>21. ASSUME NEW w \in Workers, Crash(w) PROVE TypeOK'
  BY <1>21 DEF Crash, Ends, ledger, landed, Stages
<1> QED
  BY <1>1, <1>2, <1>3, <1>4, <1>5, <1>6, <1>7, <1>8, <1>9, <1>10, <1>11, <1>12,
     <1>13, <1>14, <1>15, <1>16, <1>17, <1>18, <1>19, <1>20, <1>21
     DEF Next, Run, Persist, Batch

-----------------------------------------------------------------------------
(* A step of a worker at its own cycle leaves the others' as they were.    *)
LEMMA OwnCycle ==
  ASSUME Inv, NEW w \in Workers, NEW c \in Cycles, Running(w), c = mine[w],
         opened' = opened,
         \A v \in Workers \ {w} : pc'[v] = pc[v] /\ mine'[v] = mine[v],
         mine'[w] \in {0, c}, Running(w)' <=> mine'[w] # 0,
         \A d \in Cycles \ {c} :
           /\ cycle'[d] = cycle[d] /\ result'[d] = result[d]
           /\ topic'[d] = topic[d] /\ content'[d] = content[d]
           /\ asset'[d] = asset[d] /\ publication'[d] = publication[d]
           /\ note'[d] = note[d] /\ (events'[d] = events[d]),
         Running(w)' => At(pc[w], c)',
         cycle'[c] \in Closed =>
           Whole(c)' /\ (cycle'[c] = "completed" => "ok" \in result'[c])
  PROVE  Owned' /\ OwnedBy1' /\ Unopened' /\ ClosedWhole'
<1>1. OwnedBy1'
  BY DEF Inv, OwnedBy1
<1>2. ASSUME NEW v \in Workers, v # w, Running(v)' PROVE At(pc[v], mine[v])'
  <2>1. Running(v) /\ At(pc[v], mine[v]) /\ mine[v] # c /\ mine[v] \in Cycles
    BY <1>2, MineIsCycle DEF Inv, TypeOK, Owned, OwnedBy1, Running
  <2> QED
    BY <1>2, <2>1 DEF At, Rows, None, Whole
<1>3. Running(w)' => At(pc[w], mine[w])'
  BY DEF At, Rows, None, Whole, Cycles
<1>4. Owned'
  BY <1>2, <1>3 DEF Owned
<1>5. c <= opened /\ opened \in Nat
  <2>1. At(pc[w], c)
    BY DEF Inv, Owned
  <2>2. opened \in Nat
    BY BoundsAssumption DEF Inv, TypeOK
  <2> QED
    BY <2>1, <2>2 DEF At
<1>6. Unopened'
  BY <1>5, BoundsAssumption DEF Inv, Unopened, None, Rows, Cycles
<1>7. ClosedWhole'
  <2>1. ASSUME NEW d \in Cycles, d # c, cycle'[d] \in Closed
        PROVE  Whole(d)' /\ (cycle'[d] = "completed" => "ok" \in result'[d])
    BY <2>1 DEF Inv, ClosedWhole, Whole, Rows
  <2> QED
    BY <2>1 DEF ClosedWhole
<1> QED
  BY <1>1, <1>4, <1>6, <1>7

-----------------------------------------------------------------------------
(* The invariant but for the types, and the step of each kind.             *)
Strong == Owned /\ OwnedBy1 /\ Unopened /\ ClosedWhole

LEMMA OpenStep ==
  ASSUME Inv, NEW w \in Workers, OpenCycle(w) PROVE Strong'
<1> DEFINE c == opened + 1
<1>1. c \in Cycles /\ opened \in Nat /\ opened' = c
  BY BoundsAssumption DEF Inv, TypeOK, OpenCycle, Cycles
<1>2. None(c) /\ result[c] = NoResult /\ cycle[c] = "absent"
  BY <1>1 DEF Inv, Unopened
<1>3. ASSUME NEW v \in Workers, v # w, Running(v)' PROVE At(pc[v], mine[v])' /\ mine[v] # c
  <2>1. Running(v) /\ At(pc[v], mine[v]) /\ mine[v] \in Cycles
    BY <1>3, MineIsCycle DEF Inv, TypeOK, Owned, OpenCycle, Running
  <2>2. mine[v] # c
    BY <1>1, <2>1 DEF At
  <2> QED
    BY <1>1, <1>3, <2>1, <2>2 DEF At, Rows, None, Whole, OpenCycle, landed, Inv, TypeOK
<1>4. At(pc[w], mine[w])'
  BY <1>1, <1>2 DEF At, Rows, None, Early, OpenCycle, landed, Inv, TypeOK
<1>5. Owned'
  BY <1>3, <1>4 DEF Owned
<1>6. OwnedBy1'
  BY <1>1, <1>3 DEF Inv, TypeOK, OwnedBy1, OpenCycle, Running
<1>7. Unopened'
  BY <1>1 DEF Inv, TypeOK, Unopened, OpenCycle, landed, None, Rows, Cycles
<1>8. ClosedWhole'
  BY <1>1 DEF Inv, TypeOK, ClosedWhole, OpenCycle, landed, Whole, Rows, Closed
<1> QED
  BY <1>5, <1>6, <1>7, <1>8 DEF Strong

(* A step that leaves the worker in run_cycle with its cycle: what is left *)
(* to show is where it stands now.                                         *)
OnlyRowsOf(c) ==
  \A d \in Cycles \ {c} :
    /\ cycle'[d] = cycle[d] /\ result'[d] = result[d]
    /\ topic'[d] = topic[d] /\ content'[d] = content[d]
    /\ asset'[d] = asset[d] /\ publication'[d] = publication[d]
    /\ note'[d] = note[d] /\ events'[d] = events[d]

LEMMA StageStep ==
  ASSUME Inv, NEW w \in Workers, NEW c \in Cycles, Running(w), c = mine[w],
         NEW stage \in Stages \ {"idle", "batch"}, GoTo(w, stage),
         opened' = opened, OnlyRowsOf(c), At(stage, c)',
         cycle'[c] \in Closed => stage = "closed"
  PROVE  Strong'
<1>1. pc' = [pc EXCEPT ![w] = stage] /\ mine' = mine /\ pc'[w] = stage
  BY DEF GoTo, Inv, TypeOK
<1>2. Running(w)' /\ mine'[w] # 0
  BY <1>1 DEF Running, Cycles
<1>3. At(pc[w], c)'
  BY <1>1 DEF At, Rows, None, Whole
<1>4. cycle'[c] \in Closed =>
        Whole(c)' /\ (cycle'[c] = "completed" => "ok" \in result'[c])
  BY DEF At
<1>5. \A v \in Workers \ {w} : pc'[v] = pc[v] /\ mine'[v] = mine[v]
  BY <1>1 DEF Inv, TypeOK
<1> QED
  BY <1>1, <1>2, <1>3, <1>4, <1>5, OwnCycle DEF OnlyRowsOf, Strong

LEMMA Where ==
  ASSUME Inv, NEW w \in Workers, Running(w)
  PROVE  \E c \in Cycles : c = mine[w] /\ At(pc[w], c)
BY MineIsCycle DEF Inv, Owned

(* The steps before anything is written.                                   *)
LEMMA EarlyStep ==
  ASSUME Inv, NEW w \in Workers,
         LogStarted(w) \/ AgentRaises(w) \/ LogError(w)
           \/ \E r \in Results : AgentReturns(w, r)
  PROVE  Strong'
<1>1. Running(w)
  BY DEF Running, LogStarted, AgentRaises, LogError, AgentReturns
<1>2. PICK c \in Cycles : c = mine[w] /\ At(pc[w], c)
  BY <1>1, Where
<1>3. ASSUME NEW stage \in {"agent", "error", "fail"}, GoTo(w, stage), pc[w] \in Early,
             UNCHANGED ledger, UNCHANGED landed,
             \A d \in Cycles \ {c} : events'[d] = events[d]
      PROVE  Strong'
  <2>1. At(stage, c)' /\ (cycle'[c] \in Closed => stage = "closed")
    BY <1>2, <1>3 DEF At, Early, None, Rows, ledger, landed, Closed
  <2>2. OnlyRowsOf(c) /\ opened' = opened
    BY <1>3 DEF OnlyRowsOf, ledger, landed
  <2>3. stage \in Stages \ {"idle", "batch"}
    BY <1>3 DEF Stages
  <2> QED
    BY <1>1, <1>2, <1>3, <2>1, <2>2, <2>3, StageStep
<1>4. CASE LogStarted(w) \/ AgentRaises(w) \/ LogError(w)
  BY <1>2, <1>3, <1>4 DEF LogStarted, AgentRaises, LogError, Log, Early, Inv, TypeOK
<1>5. ASSUME NEW r \in Results, AgentReturns(w, r) PROVE Strong'
  <2> DEFINE stage == NextStage("agent", r)
  <2>1. stage \in {"topic", "close"} /\ GoTo(w, stage) /\ stage \in Stages \ {"idle", "batch"}
    BY <1>5 DEF NextStage, AgentReturns, Stages
  <2>2. At(stage, c)' /\ (cycle'[c] \in Closed => stage = "closed")
    BY <1>2, <1>5, <2>1 DEF At, Early, None, Rows, Whole, NextStage, AgentReturns,
       landed, Inv, TypeOK, Closed
  <2>3. OnlyRowsOf(c) /\ opened' = opened
    BY <1>2, <1>5 DEF OnlyRowsOf, AgentReturns, landed, Inv, TypeOK
  <2> HIDE DEF stage
  <2> QED
    BY <1>1, <1>2, <2>1, <2>2, <2>3, StageStep
<1> QED
  BY <1>4, <1>5

(* The steps of _persist.                                                  *)
LEMMA PersistStep ==
  ASSUME Inv, NEW w \in Workers, Persist(w) PROVE Strong'
<1>1. Running(w)
  BY DEF Running, Persist, SaveTopic, SaveContent, SaveAsset, CreatePublication,
     MarkPublished, SaveNote
<1>2. PICK c \in Cycles : c = mine[w] /\ At(pc[w], c)
  BY <1>1, Where
<1>3. NextStage(pc[w], result[c]) \in Stages \ {"idle", "batch", "closed"}
  BY DEF NextStage, NoteStage, Stages, Persist, SaveTopic, SaveContent, SaveAsset,
     CreatePublication, MarkPublished, SaveNote
<1>4. PICK stage \in Stages \ {"idle", "batch", "closed"} :
        stage = NextStage(pc[w], result[c])
  BY <1>3
<1>5. GoTo(w, stage) /\ UNCHANGED ledger /\ UNCHANGED events
  BY <1>2, <1>4 DEF Persist, SaveTopic, SaveContent, SaveAsset, CreatePublication,
     MarkPublished, SaveNote, Written
<1>6. OnlyRowsOf(c) /\ opened' = opened
  BY <1>2, <1>5 DEF OnlyRowsOf, ledger, Inv, TypeOK, Persist, SaveTopic, SaveContent,
     SaveAsset, CreatePublication, MarkPublished, SaveNote
<1>7. At(stage, c)' /\ (cycle'[c] \in Closed => stage = "closed")
  <2> USE <1>2, <1>4, <1>5 DEF At, Early, None, Rows, Whole, NextStage, NoteStage, Inv, TypeOK,
      ledger, Closed
  <2>1. CASE SaveTopic(w)
    BY <2>1 DEF SaveTopic
  <2>2. CASE SaveContent(w)
    BY <2>2 DEF SaveContent
  <2>3. CASE SaveAsset(w)
    BY <2>3 DEF SaveAsset
  <2>4. CASE CreatePublication(w)
    BY <2>4 DEF CreatePublication
  <2>5. CASE MarkPublished(w)
    BY <2>5 DEF MarkPublished
  <2>6. CASE SaveNote(w)
    BY <2>6 DEF SaveNote
  <2> QED
    BY <2>1, <2>2, <2>3, <2>4, <2>5, <2>6 DEF Persist
<1> QED
  BY <1>1, <1>2, <1>4, <1>5, <1>6, <1>7, StageStep

(* The ends of run_cycle.                                                  *)
LEMMA CloseStep ==
  ASSUME Inv, NEW w \in Workers, CloseCycle(w) PROVE Strong'
<1>1. Running(w) /\ pc[w] = "close"
  BY DEF Running, CloseCycle
<1>2. PICK c \in Cycles : c = mine[w] /\ At(pc[w], c)
  BY <1>1, Where
<1>3. At("closed", c)'
  BY <1>1, <1>2 DEF CloseCycle, At, Early, Rows, Whole, landed, Inv, TypeOK
<1>4. OnlyRowsOf(c) /\ opened' = opened /\ GoTo(w, "closed")
  BY <1>2 DEF CloseCycle, OnlyRowsOf, landed, Inv, TypeOK
<1> QED
  BY <1>1, <1>2, <1>3, <1>4, StageStep DEF Stages

(* A worker that leaves run_cycle leaves its cycle as it is, or failed.    *)
LEMMA LeaveStep ==
  ASSUME Inv, NEW w \in Workers, NEW c \in Cycles, Running(w), c = mine[w],
         opened' = opened, OnlyRowsOf(c), ~Running(w)', mine'[w] = 0,
         \A v \in Workers \ {w} : pc'[v] = pc[v] /\ mine'[v] = mine[v],
         cycle'[c] \in Closed =>
           Whole(c)' /\ (cycle'[c] = "completed" => "ok" \in result'[c])
  PROVE  Strong'
BY OwnCycle DEF OnlyRowsOf, Strong

LEMMA FailStep ==
  ASSUME Inv, NEW w \in Workers, CloseFailed(w) PROVE Strong'
<1>1. Running(w) /\ pc[w] = "fail"
  BY DEF Running, CloseFailed
<1>2. PICK c \in Cycles : c = mine[w] /\ At(pc[w], c)
  BY <1>1, Where
<1>3. Whole(c)' /\ cycle'[c] = "failed"
  BY <1>1, <1>2 DEF CloseFailed, At, Early, None, Rows, Whole, NoResult, landed, Inv, TypeOK
<1>4. OnlyRowsOf(c) /\ opened' = opened
  BY <1>2 DEF CloseFailed, OnlyRowsOf, landed, Inv, TypeOK
<1>5. ~Running(w)' /\ mine'[w] = 0
      /\ \A v \in Workers \ {w} : pc'[v] = pc[v] /\ mine'[v] = mine[v]
  BY DEF CloseFailed, Ends, Running, Inv, TypeOK
<1> QED
  BY <1>1, <1>2, <1>3, <1>4, <1>5, LeaveStep

LEMMA DropStep ==
  ASSUME Inv, NEW w \in Workers, Running(w),
         LogCompleted(w) \/ StatementRaises(w) \/ Crash(w)
  PROVE  Strong'
<1>1. PICK c \in Cycles : c = mine[w] /\ At(pc[w], c)
  BY Where
<1>2. UNCHANGED ledger /\ UNCHANGED landed
  BY DEF LogCompleted, StatementRaises, Crash
<1>3. OnlyRowsOf(c) /\ opened' = opened
  BY <1>1, <1>2 DEF LogCompleted, StatementRaises, Crash, OnlyRowsOf, Log, ledger, landed,
     Inv, TypeOK
<1>4. ~Running(w)' /\ mine'[w] = 0
      /\ \A v \in Workers \ {w} : pc'[v] = pc[v] /\ mine'[v] = mine[v]
  BY DEF LogCompleted, StatementRaises, Crash, Ends, Running, Inv, TypeOK
<1>5. cycle'[c] \in Closed =>
        Whole(c)' /\ (cycle'[c] = "completed" => "ok" \in result'[c])
  BY <1>2 DEF Inv, ClosedWhole, Whole, Rows, ledger, landed
<1> QED
  BY <1>1, <1>3, <1>4, <1>5, LeaveStep

(* Steps outside run_cycle: no row comes or goes.                          *)
LEMMA OutsideStep ==
  ASSUME Inv, UNCHANGED <<ledger, topic, note, events>>,
         \A c \in Cycles :
           /\ content'[c] = "absent" <=> content[c] = "absent"
           /\ asset'[c] = "absent" <=> asset[c] = "absent"
           /\ publication'[c] = "absent" <=> publication[c] = "absent",
         \A w \in Workers : mine'[w] = mine[w]
           /\ (Running(w)' => pc'[w] = pc[w] /\ Running(w))
  PROVE  Strong'
<1>1. ASSUME NEW w \in Workers, Running(w)' PROVE At(pc[w], mine[w])'
  <2>1. At(pc[w], mine[w]) /\ mine[w] \in Cycles /\ pc'[w] = pc[w] /\ mine'[w] = mine[w]
    BY <1>1, MineIsCycle DEF Inv, Owned
  <2> QED
    BY <2>1 DEF At, None, Rows, Whole, ledger
<1>2. Owned' /\ OwnedBy1'
  BY <1>1 DEF Inv, Owned, OwnedBy1
<1>3. Unopened' /\ ClosedWhole'
  BY DEF Inv, Unopened, ClosedWhole, None, Rows, Whole, ledger
<1> QED
  BY <1>2, <1>3 DEF Strong

LEMMA InvStep == Inv /\ [Next]_vars => Inv'
<1> SUFFICES ASSUME Inv, [Next]_vars PROVE Strong'
  BY TypeStep DEF Inv, Strong
<1>1. CASE UNCHANGED vars
  BY <1>1, OutsideStep DEF vars, ledger, Running
<1>2. ASSUME NEW w \in Workers, OpenCycle(w) PROVE Strong'
  BY <1>2, OpenStep
<1>3. ASSUME NEW w \in Workers, Run(w) PROVE Strong'
  <2>1. CASE LogCompleted(w)
    BY <2>1, DropStep DEF LogCompleted, Running
  <2> QED
    BY <1>3, <2>1, EarlyStep, PersistStep, CloseStep, FailStep DEF Run
<1>4. ASSUME NEW w \in Workers, StartBatch(w) \/ BatchDone(w) PROVE Strong'
  BY <1>4, OutsideStep DEF StartBatch, BatchDone, GoTo, Ends, Running, ledger, landed,
     Inv, TypeOK
<1>5. ASSUME NEW w \in Workers, NEW c \in Cycles, Post(w, c) PROVE Strong'
  BY <1>5, OutsideStep DEF Post, Postable, ledger, proc, Running, Inv, TypeOK
<1>6. ASSUME NEW c \in Cycles, Approve(c) PROVE Strong'
  BY <1>6, OutsideStep DEF Approve, ledger, proc, Running, Inv, TypeOK
<1>7. ASSUME NEW w \in Workers, StatementRaises(w) \/ Crash(w) PROVE Strong'
  <2>1. CASE Running(w)
    BY <1>7, <2>1, DropStep
  <2>2. CASE ~Running(w)
    BY <1>7, <2>2, OutsideStep DEF StatementRaises, Crash, Ends, Running, ledger, landed,
       Inv, TypeOK
  <2> QED
    BY <2>1, <2>2
<1> QED
  BY <1>1, <1>2, <1>3, <1>4, <1>5, <1>6, <1>7 DEF Next, Batch

THEOREM InvHolds == Spec => []Inv
<1> QED
  BY InitInv, InvStep, PTL DEF Spec

(* Every variable of the cycle runner stays in its type.                   *)
THEOREM CycleTypeCorrect == Spec => []TypeOK
<1>1. Inv => TypeOK
  BY DEF Inv
<1> QED
  BY <1>1, InvHolds, PTL

(* However many workers run, and whatever raises or dies, a closed cycle   *)
(* has landed exactly what the agent returned (runner.py:110-165).         *)
THEOREM ClosedCyclesAreWhole == Spec => []ClosedIsWhole
<1>1. Inv => ClosedIsWhole
  BY DEF Inv, ClosedWhole, ClosedIsWhole, Whole, Rows
<1> QED
  BY <1>1, InvHolds, PTL

-----------------------------------------------------------------------------
(* What has landed stays.                                                  *)
LEMMA StaysStep ==
  ASSUME Inv, [Next]_vars, NEW c \in Cycles PROVE StaysOf(c)
<1> USE DEF StaysOf
<1>1. CASE UNCHANGED vars
  BY <1>1 DEF vars
<1>2. ASSUME NEW w \in Workers, OpenCycle(w) PROVE StaysOf(c)
  <2>1. opened + 1 \in Cycles /\ cycle[opened + 1] = "absent"
    BY <1>2, BoundsAssumption DEF Inv, TypeOK, Unopened, OpenCycle, Cycles
  <2> QED
    BY <1>2, <2>1 DEF OpenCycle, landed, Inv, TypeOK, Closed
<1>3. ASSUME NEW w \in Workers, Persist(w) PROVE StaysOf(c)
  <2>1. Running(w) /\ pc[w] \notin Early \cup {"close", "closed"}
    BY <1>3 DEF Running, Early, Persist, SaveTopic, SaveContent, SaveAsset,
       CreatePublication, MarkPublished, SaveNote
  <2>2. PICK d \in Cycles : d = mine[w] /\ At(pc[w], d)
    BY <2>1, Where
  <2>3. cycle[d] = "running" /\ UNCHANGED cycle
    BY <1>3, <2>1, <2>2 DEF At, Persist, SaveTopic, SaveContent, SaveAsset,
       CreatePublication, MarkPublished, SaveNote, Written, ledger
  <2> QED
    BY <1>3, <2>2, <2>3 DEF Persist, SaveTopic, SaveContent, SaveAsset,
       CreatePublication, MarkPublished, SaveNote, Inv, TypeOK, Closed
<1>4. ASSUME NEW w \in Workers, CloseCycle(w) \/ CloseFailed(w) PROVE StaysOf(c)
  <2>1. Running(w) /\ pc[w] # "closed"
    BY <1>4 DEF Running, CloseCycle, CloseFailed
  <2>2. PICK d \in Cycles : d = mine[w] /\ At(pc[w], d)
    BY <2>1, Where
  <2>3. cycle[d] = "running"
    BY <2>1, <2>2 DEF At
  <2> QED
    BY <1>4, <2>2, <2>3 DEF CloseCycle, CloseFailed, landed, Inv, TypeOK, Closed
<1>5. ASSUME NEW w \in Workers,
             LogStarted(w) \/ AgentRaises(w) \/ LogError(w) \/ LogCompleted(w)
               \/ \E r \in Results : AgentReturns(w, r)
      PROVE  StaysOf(c)
  BY <1>5 DEF LogStarted, AgentRaises, LogError, LogCompleted, AgentReturns, ledger, landed
<1>6. ASSUME NEW w \in Workers,
             StartBatch(w) \/ BatchDone(w) \/ StatementRaises(w) \/ Crash(w)
      PROVE  StaysOf(c)
  BY <1>6 DEF StartBatch, BatchDone, StatementRaises, Crash, ledger, landed
<1>7. ASSUME NEW w \in Workers, NEW d \in Cycles, Post(w, d) PROVE StaysOf(c)
  BY <1>7 DEF Post, Postable, ledger, Inv, TypeOK
<1>8. ASSUME NEW d \in Cycles, Approve(d) PROVE StaysOf(c)
  BY <1>8 DEF Approve, ledger, Inv, TypeOK
<1> QED
  BY <1>1, <1>2, <1>3, <1>4, <1>5, <1>6, <1>7, <1>8 DEF Next, Run, Batch

(* A closed cycle stays as it was closed and nothing landed is lost, for   *)
(* any workers, failures and crashes (store.py:4-6).                       *)
THEOREM LandedRowsStay == Spec => LandedStays
<1>1. Inv /\ [Next]_vars => [\A c \in Cycles : StaysOf(c)]_vars
  BY StaysStep
<1> QED
  BY <1>1, InvHolds, PTL DEF Spec, LandedStays

-----------------------------------------------------------------------------
(* What is held for review.  A post the agent claims is what keeps a       *)
(* content item out of review, so mark never meets one that is held.       *)
Held(c) ==
  /\ content[c] = "needs_review" =>
       /\ "post" \notin result[c]
       /\ asset[c] # "passed" /\ publication[c] \in {"absent", "pending"}
  /\ publication[c] \in {"published", "failed"} =>
       asset[c] = "passed" \/ "post" \in result[c]

LEMMA HeldStep ==
  ASSUME Inv, NEW c \in Cycles, Held(c), [Next]_vars PROVE Held(c)'
<1> USE DEF Held
<1>1. CASE UNCHANGED vars
  BY <1>1 DEF vars
<1>2. ASSUME NEW w \in Workers, OpenCycle(w) PROVE Held(c)'
  BY <1>2 DEF OpenCycle, landed
<1>3. ASSUME NEW w \in Workers, Running(w),
             Persist(w) \/ \E r \in Results : AgentReturns(w, r)
      PROVE  Held(c)'
  <2>1. PICK d \in Cycles : d = mine[w] /\ At(pc[w], d)
    BY <1>3, Where
  <2> USE <2>1 DEF At, Early, None, Rows, Inv, TypeOK, Written, ledger
  <2>2. CASE SaveTopic(w) \/ SaveNote(w)
    BY <2>2 DEF SaveTopic, SaveNote
  <2>3. CASE SaveContent(w)
    BY <2>3 DEF SaveContent
  <2>4. CASE SaveAsset(w)
    BY <2>4 DEF SaveAsset
  <2>5. CASE CreatePublication(w)
    BY <2>5 DEF CreatePublication
  <2>6. CASE MarkPublished(w)
    BY <2>6 DEF MarkPublished
  <2>7. ASSUME NEW r \in Results, AgentReturns(w, r) PROVE Held(c)'
    BY <2>7 DEF AgentReturns, landed
  <2> QED
    BY <1>3, <2>2, <2>3, <2>4, <2>5, <2>6, <2>7 DEF Persist
<1>4. ASSUME NEW w \in Workers,
             LogStarted(w) \/ AgentRaises(w) \/ LogError(w) \/ LogCompleted(w)
               \/ CloseCycle(w) \/ CloseFailed(w) \/ StartBatch(w) \/ BatchDone(w)
               \/ StatementRaises(w) \/ Crash(w)
      PROVE  Held(c)'
  BY <1>4 DEF LogStarted, AgentRaises, LogError, LogCompleted, CloseCycle, CloseFailed,
     StartBatch, BatchDone, StatementRaises, Crash, ledger, landed
<1>5. ASSUME NEW w \in Workers, NEW d \in Cycles, Post(w, d) PROVE Held(c)'
  BY <1>5 DEF Post, Postable, ledger, Inv, TypeOK
<1>6. ASSUME NEW d \in Cycles, Approve(d) PROVE Held(c)'
  BY <1>6 DEF Approve, ledger, Inv, TypeOK
<1>7. \A w \in Workers : (Persist(w) \/ \E r \in Results : AgentReturns(w, r)) => Running(w)
  BY DEF Running, Persist, AgentReturns, SaveTopic, SaveContent, SaveAsset,
     CreatePublication, MarkPublished, SaveNote
<1> QED
  BY <1>1, <1>2, <1>3, <1>4, <1>5, <1>6, <1>7 DEF Next, Run, Batch

(* Nothing that is held for review is posted, and nothing unreviewed is    *)
(* but what the agent claims to have posted itself (FR-O2).                *)
THEOREM ReviewIsKept == Spec => []HeldForReview
<1> DEFINE AllHeld == \A c \in Cycles : Held(c)
<1>1. Init => AllHeld
  BY DEF Init, Held
<1>2. Inv /\ AllHeld /\ [Next]_vars => AllHeld'
  BY HeldStep
<1>3. AllHeld => HeldForReview
  BY DEF Held, HeldForReview
<1> HIDE DEF AllHeld
<1> QED
  BY <1>1, <1>2, <1>3, InvHolds, PTL DEF Spec

-----------------------------------------------------------------------------
(* The three stories a cycle's events can tell.                            *)
Begun  == <<"cycle_started">>
Broken == <<"cycle_started", "error">>
Done   == <<"cycle_started", "cycle_completed">>

LEMMA AppendToOne ==
  ASSUME NEW a, NEW b PROVE Append(<<a>>, b) = <<a, b>>
<1>1. <<a>> \in Seq({a, b}) /\ <<a, b>> \in Seq({a, b})
  OBVIOUS
<1>2. /\ Append(<<a>>, b) \in Seq({a, b}) /\ Len(Append(<<a>>, b)) = 2
      /\ Append(<<a>>, b)[1] = a /\ Append(<<a>>, b)[2] = b
  BY <1>1
<1>3. Len(<<a, b>>) = 2 /\ <<a, b>>[1] = a /\ <<a, b>>[2] = b
  OBVIOUS
<1>4. \A i \in 1..2 : Append(<<a>>, b)[i] = <<a, b>>[i]
  BY <1>2, <1>3
<1> QED
  BY <1>1, <1>2, <1>3, <1>4, SeqEqual

LEMMA Stories ==
  /\ Append(<<>>, "cycle_started") = Begun
  /\ Append(Begun, "error") = Broken /\ Append(Begun, "cycle_completed") = Done
  /\ Begun # <<>> /\ Broken # <<>> /\ Done # <<>>
  /\ Begun # Broken /\ Begun # Done /\ Broken # Done
<1>1. Len(Begun) = 1 /\ Len(Broken) = 2 /\ Len(Done) = 2 /\ Len(<<>>) = 0
  BY DEF Begun, Broken, Done
<1>2. Broken[2] = "error" /\ Done[2] = "cycle_completed"
  BY DEF Broken, Done
<1>3. Append(<<>>, "cycle_started") = Begun
  BY DEF Begun
<1>4. Append(Begun, "error") = Broken /\ Append(Begun, "cycle_completed") = Done
  BY AppendToOne DEF Begun, Broken, Done
<1>5. Begun # <<>> /\ Broken # <<>> /\ Done # <<>> /\ Begun # Broken /\ Begun # Done
  BY <1>1
<1>6. Broken # Done
  BY <1>2
<1> QED
  BY <1>3, <1>4, <1>5, <1>6

Story(c) ==
  /\ events[c] \in {<<>>, Begun, Broken, Done}
  /\ events[c] # <<>> => cycle[c] # "absent"
  /\ events[c] = Broken => cycle[c] # "completed" /\ result[c] = NoResult
  /\ events[c] = Done => cycle[c] \in Closed /\ result[c] # NoResult

Told(w) ==
  Running(w) => events[mine[w]] = IF pc[w] = "started" THEN <<>>
                                  ELSE IF pc[w] = "fail" THEN Broken ELSE Begun

EventInv == (\A c \in Cycles : Story(c)) /\ (\A w \in Workers : Told(w))

(* A step of one worker: its own story and place, the others' are as were. *)
LEMMA TellStep ==
  ASSUME Inv, EventInv, NEW w \in Workers, NEW c \in Cycles, Running(w), c = mine[w],
         \A v \in Workers \ {w} : pc'[v] = pc[v] /\ mine'[v] = mine[v],
         \A d \in Cycles \ {c} :
           cycle'[d] = cycle[d] /\ result'[d] = result[d] /\ events'[d] = events[d],
         Story(c)', Told(w)'
  PROVE  EventInv'
<1>1. ASSUME NEW v \in Workers, v # w PROVE Told(v)'
  <2> SUFFICES ASSUME Running(v)' PROVE Told(v)'
    BY DEF Told
  <2>1. Running(v) /\ mine[v] \in Cycles /\ mine[v] # c
    BY <1>1, MineIsCycle DEF Running, Inv, OwnedBy1, Cycles
  <2> QED
    BY <1>1, <2>1 DEF EventInv, Told
<1>2. ASSUME NEW d \in Cycles, d # c PROVE Story(d)'
  BY <1>2 DEF EventInv, Story
<1> QED
  BY <1>1, <1>2 DEF EventInv

LEMMA RunTells ==
  ASSUME Inv, EventInv, NEW w \in Workers, Running(w),
         Run(w) \/ StatementRaises(w) \/ Crash(w)
  PROVE  EventInv'
<1>1. PICK c \in Cycles : c = mine[w] /\ At(pc[w], c)
  BY Where
<1>2. /\ \A v \in Workers \ {w} : pc'[v] = pc[v] /\ mine'[v] = mine[v]
      /\ \A d \in Cycles \ {c} :
           cycle'[d] = cycle[d] /\ result'[d] = result[d] /\ events'[d] = events[d]
  BY <1>1 DEF Run, LogStarted, AgentReturns, AgentRaises, LogError, CloseFailed, Persist,
     SaveTopic, SaveContent, SaveAsset, CreatePublication, MarkPublished, SaveNote, Written,
     CloseCycle, LogCompleted, StatementRaises, Crash, Log, GoTo, Ends, ledger, Inv, TypeOK
<1>3. Story(c) /\ Told(w)
  BY DEF EventInv
<1>4. Story(c)' /\ Told(w)'
  <2> USE <1>1, <1>3, Stories DEF Story, Told, Running, Inv, TypeOK, ledger, Stages
  <2>1. CASE LogStarted(w)
    BY <2>1 DEF LogStarted, Log, GoTo, At, Early
  <2>2. ASSUME NEW r \in Results, AgentReturns(w, r) PROVE Story(c)' /\ Told(w)'
    BY <2>2 DEF AgentReturns, GoTo, NextStage, At
  <2>3. CASE AgentRaises(w)
    BY <2>3 DEF AgentRaises, GoTo
  <2>4. CASE LogError(w)
    BY <2>4 DEF LogError, Log, GoTo, At, Early
  <2>5. CASE CloseFailed(w)
    BY <2>5 DEF CloseFailed, Ends, At, Early
  <2>6. CASE Persist(w)
    BY <2>6 DEF Persist, SaveTopic, SaveContent, SaveAsset, CreatePublication,
       MarkPublished, SaveNote, Written, GoTo, NextStage, NoteStage
  <2>7. CASE CloseCycle(w)
    BY <2>7 DEF CloseCycle, GoTo, At, Early
  <2>8. CASE LogCompleted(w)
    <3>1. result[c] \in Results /\ NoResult \notin Results
      BY <2>8 DEF LogCompleted, At, Early, Results, NoResult, Fields
    <3> QED
      BY <2>8, <3>1 DEF LogCompleted, Log, At, Closed
  <2>9. CASE StatementRaises(w) \/ Crash(w)
    BY <2>9 DEF StatementRaises, Crash, Ends
  <2> QED
    BY <2>1, <2>2, <2>3, <2>4, <2>5, <2>6, <2>7, <2>8, <2>9 DEF Run
<1> QED
  BY <1>1, <1>2, <1>4, TellStep

LEMMA EventStep == ASSUME Inv, EventInv, [Next]_vars PROVE EventInv'
<1>1. ASSUME UNCHANGED <<cycle, result, events>>,
             \A w \in Workers : Running(w)' =>
               Running(w) /\ pc'[w] = pc[w] /\ mine'[w] = mine[w]
      PROVE  EventInv'
  BY <1>1 DEF EventInv, Story, Told
<1>2. CASE UNCHANGED vars
  BY <1>1, <1>2 DEF vars, Running
<1>3. ASSUME NEW w \in Workers, OpenCycle(w) PROVE EventInv'
  <2>1. opened + 1 \in Cycles
    BY <1>3, BoundsAssumption DEF Inv, TypeOK, OpenCycle, Cycles
  <2>2. events[opened + 1] = <<>>
    BY <2>1 DEF Inv, TypeOK, Unopened
  <2>3. ASSUME NEW c \in Cycles PROVE Story(c)'
    BY <1>3, <2>1, <2>2, Stories DEF OpenCycle, EventInv, Story, Inv, TypeOK
  <2>4. ASSUME NEW v \in Workers PROVE Told(v)'
    BY <1>3, <2>1, <2>2 DEF OpenCycle, EventInv, Told, Running, Inv, TypeOK
  <2> QED
    BY <2>3, <2>4 DEF EventInv
<1>4. ASSUME NEW w \in Workers, Run(w) PROVE EventInv'
  <2>1. Running(w)
    BY <1>4 DEF Running, Run, LogStarted, AgentReturns, AgentRaises, LogError, CloseFailed,
       Persist, SaveTopic, SaveContent, SaveAsset, CreatePublication, MarkPublished,
       SaveNote, CloseCycle, LogCompleted
  <2> QED
    BY <1>4, <2>1, RunTells
<1>5. ASSUME NEW w \in Workers, StartBatch(w) \/ BatchDone(w) PROVE EventInv'
  BY <1>1, <1>5 DEF StartBatch, BatchDone, GoTo, Ends, Running, ledger, Inv, TypeOK
<1>6. ASSUME NEW w \in Workers, NEW c \in Cycles, Post(w, c) PROVE EventInv'
  BY <1>1, <1>6 DEF Post, ledger, proc, Running
<1>7. ASSUME NEW c \in Cycles, Approve(c) PROVE EventInv'
  BY <1>1, <1>7 DEF Approve, ledger, proc, Running
<1>8. ASSUME NEW w \in Workers, StatementRaises(w) \/ Crash(w) PROVE EventInv'
  <2>1. CASE Running(w)
    BY <1>8, <2>1, RunTells
  <2>2. CASE ~Running(w)
    BY <1>1, <1>8, <2>2 DEF StatementRaises, Crash, Ends, Running, ledger, Inv, TypeOK
  <2> QED
    BY <2>1, <2>2
<1> QED
  BY <1>2, <1>3, <1>4, <1>5, <1>6, <1>7, <1>8 DEF Next, Batch

(* The events of a cycle never contradict its row, wherever its process    *)
(* dies: "completed" is last and only of a closed cycle, an error never    *)
(* precedes a completed one.                                               *)
THEOREM EventsAgree == Spec => []EventsTellStory
<1>1. Init => EventInv
  BY Stories DEF Init, EventInv, Story, Told, Running
<1>2. Inv /\ EventInv /\ [Next]_vars => EventInv'
  BY EventStep
<1>3. EventInv => EventsTellStory
  <2> SUFFICES ASSUME EventInv, NEW c \in Cycles
               PROVE  LET e == events[c] IN
                      /\ e # <<>> => e[1] = "cycle_started" /\ cycle[c] # "absent"
                      /\ \A i \in DOMAIN e : e[i] = "cycle_completed" =>
                           i = Len(e) /\ cycle[c] \in Closed /\ result[c] # NoResult
                      /\ \A i \in DOMAIN e : e[i] = "error" =>
                           cycle[c] # "completed" /\ result[c] = NoResult
    BY DEF EventsTellStory
  <2>1. Story(c)
    BY DEF EventInv
  <2>2. CASE events[c] = <<>>
    BY <2>2
  <2>3. CASE events[c] = Begun
    BY <2>1, <2>3, Stories DEF Story, Begun
  <2>4. CASE events[c] = Broken
    BY <2>1, <2>4, Stories DEF Story, Broken
  <2>5. CASE events[c] = Done
    BY <2>1, <2>5, Stories DEF Story, Done
  <2> QED
    BY <2>1, <2>2, <2>3, <2>4, <2>5 DEF Story
<1> QED
  BY <1>1, <1>2, <1>3, InvHolds, PTL DEF Spec

=============================================================================
