-------------------------- MODULE PublishPipeline --------------------------
(***************************************************************************)
(* The publish path of nooa-sns: the pending-publication batch             *)
(* (publish/runner.py), the agent's publish tool (publish/tool.py), the    *)
(* idempotent state machine both drive (publish/state_machine.py), its     *)
(* PostgreSQL ledger (publish/stores.py), the platform dispatch and the    *)
(* Instagram and YouTube adapters, and what they leave on the platform.    *)
(*                                                                         *)
(* A worker is one process of the operations CLI (bootstrap.py).  Every    *)
(* database statement or transaction and every platform call is a step of  *)
(* its own, so other workers, the operator and a crash come between them.  *)
(***************************************************************************)
EXTENDS PublishContract, Naturals, Sequences, Functions

CONSTANTS
  Publications,        \* publication ids, in the order of ORDER BY p.id
  Workers,             \* the CLI processes that may publish
  Platform,            \* [Publications -> Platforms]  channel.platform
  Format,              \* [Publications -> Formats]    content_item.format
  Channel,             \* [Workers -> [platform, mode]] the channel a worker serves
  ContainerSingleUse,  \* does the platform refuse a container already posted?
  AgentClaims,         \* may an agent report a post_id for a fresh publication?
  MaxAssets,           \* bound: media assets per publication
  MaxContainers,       \* bound: containers per publication
  MaxPosts,            \* bound: posts per publication
  MaxFaults            \* bound: crashes, lost replies and escaping exceptions

ASSUME PublicationsAssumption ==
  /\ Publications \subseteq Nat \ {0}
  /\ Platform \in [Publications -> Platforms]
  /\ Format \in [Publications -> Formats]
ASSUME ChannelAssumption ==
  Channel \in [Workers -> [platform : Platforms, mode : Modes]]
ASSUME FlagsAssumption ==
  ContainerSingleUse \in BOOLEAN /\ AgentClaims \in BOOLEAN
ASSUME BoundsAssumption ==
  /\ MaxAssets \in Nat
  /\ MaxContainers \in Nat
  /\ MaxPosts \in Nat
  /\ MaxFaults \in Nat

VARIABLES
  status,      \* publication.status, "absent" before the row is inserted
  postId,      \* publication.external_post_id, 0 is NULL
  ledger,      \* the publish_attempt row, NoAttempt when there is none
  assets,      \* quality_status of the matching media assets, oldest first
  claims,      \* the post_id an agent reported: none, due to be recorded, made
  containers,  \* platform: number of containers made for a publication
  spent,       \* platform: the containers that have been posted
  posts,       \* platform: number of live posts of a publication
  pc,          \* where each worker is
  rows,        \* the rows of the batch's SELECT still to handle
  job,         \* the locals of the run_publish call in progress
  faults       \* faults spent so far

db   == <<status, postId, ledger, assets, claims>>
net  == <<containers, spent, posts>>
proc == <<pc, rows, job>>
vars == <<status, postId, ledger, assets, claims, containers, spent, posts,
          pc, rows, job, faults>>

-----------------------------------------------------------------------------
(* State                                                                   *)

NoError   == "none"
NoAttempt == [state |-> "absent", cid |-> 0, err |-> NoError]
NoJob     == [pub |-> 0, gate |-> FALSE, platform |-> "instagram",
              kind |-> "image", cid |-> 0, err |-> NoError, post |-> 0]

Attempts == [state : AttemptStates \cup {"absent"}, cid : Nat,
             err : ErrorClasses \cup {NoError}]
Jobs     == [pub : Publications \cup {0}, gate : BOOLEAN,
             platform : Platforms, kind : MediaKinds, cid : Nat,
             err : ErrorClasses \cup {NoError}, post : Nat]
Rows     == [quality : Qualities \cup {"no_media"}, entered : BOOLEAN]

(* Calls to a platform that may raise past the adapter: an Instagram reply *)
(* without an id, a token that cannot be decrypted.  The YouTube adapter   *)
(* catches every exception.                                                *)
Calling == {"create", "wait", "publish", "upload"}
Running == {"load", "save"} \cup Calling
PCs     == {"idle", "row"} \cup Running
RowMaps == UNION {[S -> Rows] : S \in SUBSET Publications}
NoRows  == [p \in {} |-> NoAttempt]

HasPassed(p) == \E i \in DOMAIN assets[p] : assets[p][i] = "passed"

(* A row of the SELECT: the newest matching asset and whether an attempt   *)
(* exists, both as of the SELECT.                                          *)
Row(p) ==
  [quality |-> IF assets[p] = <<>> THEN "no_media"
               ELSE assets[p][Len(assets[p])],
   entered |-> ledger[p] # NoAttempt]

Init ==
  /\ status = [p \in Publications |-> "absent"]
  /\ postId = [p \in Publications |-> 0]
  /\ ledger = [p \in Publications |-> NoAttempt]
  /\ assets = [p \in Publications |-> <<>>]
  /\ claims = [p \in Publications |-> "none"]
  /\ containers = [p \in Publications |-> 0]
  /\ spent = [p \in Publications |-> {}]
  /\ posts = [p \in Publications |-> 0]
  /\ pc = [w \in Workers |-> "idle"]
  /\ rows = [w \in Workers |-> NoRows]
  /\ job = [w \in Workers |-> NoJob]
  /\ faults = 0

-----------------------------------------------------------------------------
(* The cycle runner and the operator                                       *)

(* _persist inserts the asset, always needs_review, and then the           *)
(* publication; a row seeded before its asset is rendered has none yet.    *)
(* The result that is persisted may carry a post_id for the row.           *)
Land(p) ==
  /\ status[p] = "absent"
  /\ status' = [status EXCEPT ![p] = "pending"]
  /\ \E a \in {<<>>, <<"needs_review">>}, c \in {"none", "due"} :
       /\ c = "due" => AgentClaims /\ a # <<>>
       /\ assets' = [assets EXCEPT ![p] = a]
       /\ claims' = [claims EXCEPT ![p] = c]
  /\ UNCHANGED <<postId, ledger, net, proc, faults>>

(* A post_id no adapter of this program was given.                         *)
Claimed == MaxPosts + 1

(* mark_published, the statement after the one that inserted the row: with *)
(* the post_id reported, whatever the row's status is by then.             *)
MarkClaimed(p) ==
  /\ claims[p] = "due"
  /\ claims' = [claims EXCEPT ![p] = "made"]
  /\ status' = [status EXCEPT ![p] = "published"]
  /\ postId' = [postId EXCEPT ![p] = Claimed]
  /\ UNCHANGED <<ledger, assets, net, proc, faults>>

(* A later render adds a newer asset with the verdict of the gate.         *)
RenderAsset(p, q) ==
  /\ status[p] # "absent"
  /\ Len(assets[p]) < MaxAssets
  /\ assets' = [assets EXCEPT ![p] = Append(@, q)]
  /\ UNCHANGED <<status, postId, ledger, claims, net, proc, faults>>

(* approve_publication: every asset that waits for review passes, whatever *)
(* the publication's status.                                               *)
Approve(p) ==
  /\ status[p] # "absent"
  /\ assets' = [assets EXCEPT ![p] =
       [i \in DOMAIN @ |-> IF @[i] = "needs_review" THEN "passed" ELSE @[i]]]
  /\ UNCHANGED <<status, postId, ledger, claims, net, proc, faults>>

-----------------------------------------------------------------------------
(* Workers: the batch                                                      *)

(* Mutants of Pending: the WHERE clause is dropped, or keeps only the rows *)
(* whose container has not been made.                                      *)
PendingAll   == {p \in Publications : status[p] # "absent"}
PendingFresh == {p \in Publications : /\ status[p] = "pending"
                                      /\ ledger[p].state # "container_created"}

Pending == {p \in Publications : status[p] = "pending"}

(* The worker goes back to its batch, or is done when no row is left.      *)
Resume(w, left) ==
  /\ pc' = [pc EXCEPT ![w] = IF DOMAIN left = {} THEN "idle" ELSE "row"]
  /\ rows' = [rows EXCEPT ![w] = left]
  /\ job' = [job EXCEPT ![w] = NoJob]

(* An exception nobody catches, or a crash, ends the process: what it held *)
(* in memory is gone and the remaining rows are not visited.               *)
Stop(w) ==
  /\ pc' = [pc EXCEPT ![w] = "idle"]
  /\ rows' = [rows EXCEPT ![w] = NoRows]
  /\ job' = [job EXCEPT ![w] = NoJob]

Without(w, p) == Restrict(rows[w], DOMAIN rows[w] \ {p})

(* The batch snapshots the pending rows of every channel.                  *)
StartBatch(w) ==
  /\ pc[w] = "idle"
  /\ Pending # {}
  /\ pc' = [pc EXCEPT ![w] = "row"]
  /\ rows' = [rows EXCEPT ![w] = [p \in Pending |-> Row(p)]]
  /\ UNCHANGED <<db, net, job, faults>>

AtRow(w, p) ==
  /\ pc[w] = "row"
  /\ p \in DOMAIN rows[w]
  /\ \A q \in DOMAIN rows[w] : p <= q

(* The gate guards entry only: an attempt under way is not judged again.   *)
Gated(r) == ~r.entered /\ r.quality # "passed"

(* no_media and awaiting_review: a notice, the row stays pending.          *)
RowWaits(w, p) ==
  /\ AtRow(w, p)
  /\ LET r == rows[w][p] IN
       r.quality = "no_media" \/ (Gated(r) /\ r.quality = "needs_review")
  /\ Resume(w, Without(w, p))
  /\ UNCHANGED <<db, net, faults>>

(* quality_failed: the publication is skipped, without a look at its       *)
(* present status.                                                         *)
RowRejected(w, p) ==
  /\ AtRow(w, p)
  /\ Gated(rows[w][p]) /\ rows[w][p].quality = "failed"
  /\ status' = [status EXCEPT ![p] = "skipped"]
  /\ Resume(w, Without(w, p))
  /\ UNCHANGED <<postId, ledger, assets, claims, net, faults>>

RowEnters(w, p) ==
  /\ AtRow(w, p)
  /\ rows[w][p].quality # "no_media" /\ ~Gated(rows[w][p])
  /\ pc' = [pc EXCEPT ![w] = "load"]
  /\ rows' = [rows EXCEPT ![w] = Without(w, p)]
  /\ job' = [job EXCEPT ![w] =
       [NoJob EXCEPT !.pub = p, !.gate = rows[w][p].quality = "passed",
                     !.platform = Platform[p], !.kind = KindOf(Format[p])]]
  /\ UNCHANGED <<db, net, faults>>

(* StateMachinePublish, called by an agent with a key, platform and media  *)
(* of its own choosing.  The approval gate lets it through in auto mode;   *)
(* in hybrid mode nothing in production ever approves a key.  The quality  *)
(* query has no ORDER BY: it sees any one of the assets.                   *)
AgentCall(w, p, platform, kind) ==
  /\ pc[w] = "idle"
  /\ Channel[w].mode = "auto"
  /\ status[p] # "absent"
  /\ \E gate \in IF assets[p] = <<>> THEN {FALSE}
                 ELSE {assets[p][i] = "passed" : i \in DOMAIN assets[p]} :
       job' = [job EXCEPT ![w] =
                 [NoJob EXCEPT !.pub = p, !.gate = gate,
                               !.platform = platform, !.kind = kind]]
  /\ pc' = [pc EXCEPT ![w] = "load"]
  /\ UNCHANGED <<db, net, rows, faults>>

-----------------------------------------------------------------------------
(* Workers: run_publish and the adapters                                   *)

(* The dispatcher knows the worker's own platform and no other; the        *)
(* adapter refuses the kinds it cannot post.                               *)
Routable(w) ==
  /\ job[w].platform = Channel[w].platform
  /\ job[w].kind \in Accepted(job[w].platform)

(* The container half of an Instagram post is over: a video waits for      *)
(* processing, an image is posted at once.                                 *)
AfterContainer(kind) == IF kind = "video" THEN "wait" ELSE "publish"

(* Mutant: the container of the ledger is not handed to the adapter.       *)
FirstCallForgetful(w, cid) ==
  IF job[w].platform = "youtube" THEN "upload" ELSE "create"

FirstCall(w, cid) ==
  IF job[w].platform = "youtube" THEN "upload"
  ELSE IF cid = 0 THEN "create" ELSE AfterContainer(job[w].kind)

(* run_publish reads the ledger.  A terminal attempt is returned as it is. *)
LoadTerminal(w) ==
  /\ pc[w] = "load"
  /\ ledger[job[w].pub].state \in TERMINAL
  /\ Resume(w, rows[w])
  /\ UNCHANGED <<db, net, faults>>

(* QualityGateError for an entry that has not passed, or ValueError for a  *)
(* platform or kind nobody serves.                                         *)
LoadRaises(w) ==
  /\ pc[w] = "load"
  /\ LET a == ledger[job[w].pub] IN
       /\ a.state \notin TERMINAL
       /\ (a = NoAttempt /\ ~job[w].gate) \/ ~Routable(w)
  /\ Stop(w)
  /\ UNCHANGED <<db, net, faults>>

(* Mutants: the gate is not asked, or a terminal attempt starts anew.      *)
LoadProceedsUngated(w) ==
  /\ pc[w] = "load"
  /\ LET a == ledger[job[w].pub] IN
       /\ a.state \notin TERMINAL
       /\ Routable(w)
       /\ job' = [job EXCEPT ![w].cid = a.cid]
       /\ pc' = [pc EXCEPT ![w] = FirstCall(w, a.cid)]
  /\ UNCHANGED <<db, net, rows, faults>>
LoadProceedsAnew(w) ==
  /\ pc[w] = "load"
  /\ LET a == ledger[job[w].pub] IN
       /\ a # NoAttempt \/ job[w].gate
       /\ Routable(w)
       /\ job' = [job EXCEPT ![w].cid = a.cid]
       /\ pc' = [pc EXCEPT ![w] = FirstCall(w, a.cid)]
  /\ UNCHANGED <<db, net, rows, faults>>

(* Otherwise the call starts with the container the ledger kept.           *)
LoadProceeds(w) ==
  /\ pc[w] = "load"
  /\ LET a == ledger[job[w].pub] IN
       /\ a.state \notin TERMINAL
       /\ a # NoAttempt \/ job[w].gate
       /\ Routable(w)
       /\ job' = [job EXCEPT ![w].cid = a.cid]
       /\ pc' = [pc EXCEPT ![w] = FirstCall(w, a.cid)]
  /\ UNCHANGED <<db, net, rows, faults>>

(* The call returns with a result for run_publish to save.                 *)
ReturnsError(w, err) ==
  /\ pc' = [pc EXCEPT ![w] = "save"]
  /\ job' = [job EXCEPT ![w].err = err]

CanFault == faults < MaxFaults

(* POST /media: one more container exists on the platform.                 *)
MakesContainer(w) ==
  /\ pc[w] = "create"
  /\ containers[job[w].pub] < MaxContainers
  /\ containers' = [containers EXCEPT ![job[w].pub] = @ + 1]

CreateContainer(w) ==
  /\ MakesContainer(w)
  /\ job' = [job EXCEPT ![w].cid = containers[job[w].pub] + 1]
  /\ pc' = [pc EXCEPT ![w] = AfterContainer(job[w].kind)]
  /\ UNCHANGED <<db, spent, posts, rows, faults>>

(* _wait_processed polls until FINISHED; its other ends are errors.        *)
WaitProcessed(w) ==
  /\ pc[w] = "wait"
  /\ pc' = [pc EXCEPT ![w] = "publish"]
  /\ UNCHANGED <<db, net, rows, job, faults>>

(* POST /media_publish of the container, or the last chunk of an upload:   *)
(* one more post is live.  The idempotency key is in neither request.      *)
MakesPost(w) ==
  LET p == job[w].pub IN
  /\ pc[w] \in {"publish", "upload"}
  /\ pc[w] = "publish" => (ContainerSingleUse => job[w].cid \notin spent[p])
  /\ posts[p] < MaxPosts
  /\ posts' = [posts EXCEPT ![p] = @ + 1]
  /\ spent' = IF pc[w] = "publish"
              THEN [spent EXCEPT ![p] = @ \cup {job[w].cid}] ELSE spent
  /\ UNCHANGED containers

(* Mutant: the result carries the number of the post before.               *)
MediaPublishStale(w) ==
  /\ MakesPost(w)
  /\ pc' = [pc EXCEPT ![w] = "save"]
  /\ job' = [job EXCEPT ![w].post = posts[job[w].pub]]
  /\ UNCHANGED <<db, rows, faults>>

MediaPublish(w) ==
  /\ MakesPost(w)
  /\ pc' = [pc EXCEPT ![w] = "save"]
  /\ job' = [job EXCEPT ![w].post = posts[job[w].pub] + 1]
  /\ UNCHANGED <<db, rows, faults>>

(* The platform refuses, or the network fails before the request arrives.  *)
CallFails(w, err) ==
  /\ pc[w] \in Calling
  /\ err \in ErrorsOf(job[w].platform)
  /\ ReturnsError(w, err)
  /\ UNCHANGED <<db, net, rows, faults>>

(* The request takes effect but its reply is lost.  A timeout is transient;*)
(* a reply to an upload that is cut short or holds no id is not, since any *)
(* exception is caught there.                                              *)
ReplyLost(w) ==
  /\ CanFault
  /\ \/ MakesContainer(w) /\ UNCHANGED <<spent, posts>>
     \/ MakesPost(w)
  /\ \/ ReturnsError(w, "transient")
     \/ pc[w] = "upload" /\ ReturnsError(w, "permanent_unknown")
  /\ faults' = faults + 1
  /\ UNCHANGED <<db, rows>>

(* An exception passes the Instagram adapter, whether or not the request   *)
(* took effect, and with it ends the batch.                                *)
CallRaises(w) ==
  /\ CanFault
  /\ pc[w] \in Calling \ {"upload"}
  /\ \/ UNCHANGED net
     \/ MakesContainer(w) /\ UNCHANGED <<spent, posts>>
     \/ MakesPost(w)
  /\ Stop(w)
  /\ faults' = faults + 1
  /\ UNCHANGED db

(* Mutants: the publication follows every state of the attempt, or only    *)
(* the published one.                                                      *)
SaveEveryState(w) ==
  LET j == job[w]
      state == IF j.err = NoError THEN "published"
               ELSE StateAfterError(j.err, j.cid)
  IN
  /\ pc[w] = "save"
  /\ ledger' = [ledger EXCEPT ![j.pub] =
                  [state |-> state, cid |-> j.cid, err |-> j.err]]
  /\ status' = [status EXCEPT ![j.pub] = state]
  /\ postId' = IF state = "published"
               THEN [postId EXCEPT ![j.pub] = j.post] ELSE postId
  /\ Resume(w, rows[w])
  /\ UNCHANGED <<assets, claims, net, faults>>
SaveOnlyPublished(w) ==
  LET j == job[w]
      state == IF j.err = NoError THEN "published"
               ELSE StateAfterError(j.err, j.cid)
  IN
  /\ pc[w] = "save"
  /\ ledger' = [ledger EXCEPT ![j.pub] =
                  [state |-> state, cid |-> j.cid, err |-> j.err]]
  /\ status' = IF state = "published"
               THEN [status EXCEPT ![j.pub] = state] ELSE status
  /\ postId' = IF state = "published"
               THEN [postId EXCEPT ![j.pub] = j.post] ELSE postId
  /\ Resume(w, rows[w])
  /\ UNCHANGED <<assets, claims, net, faults>>

(* store.save: one transaction writes the attempt, whatever row is there,  *)
(* and with a terminal state the publication too.                          *)
Save(w) ==
  LET j == job[w]
      state == IF j.err = NoError THEN "published"
               ELSE StateAfterError(j.err, j.cid)
  IN
  /\ pc[w] = "save"
  /\ ledger' = [ledger EXCEPT ![j.pub] =
                  [state |-> state, cid |-> j.cid, err |-> j.err]]
  /\ status' = IF state \in TERMINAL
               THEN [status EXCEPT ![j.pub] = state] ELSE status
  /\ postId' = IF state = "published"
               THEN [postId EXCEPT ![j.pub] = j.post] ELSE postId
  /\ Resume(w, rows[w])
  /\ UNCHANGED <<assets, claims, net, faults>>

(* The process dies between two steps.                                     *)
Crash(w) ==
  /\ CanFault
  /\ pc[w] # "idle"
  /\ Stop(w)
  /\ faults' = faults + 1
  /\ UNCHANGED <<db, net>>

-----------------------------------------------------------------------------
Batch(w) ==
  \/ StartBatch(w)
  \/ \E p \in Publications : RowWaits(w, p) \/ RowRejected(w, p) \/ RowEnters(w, p)

Agent(w) ==
  \E p \in Publications, platform \in Platforms, kind \in MediaKinds :
    AgentCall(w, p, platform, kind)

Answered(w) == CreateContainer(w) \/ WaitProcessed(w) \/ MediaPublish(w)

Attempt(w) ==
  \/ LoadTerminal(w) \/ LoadRaises(w) \/ LoadProceeds(w)
  \/ Answered(w)
  \/ \E err \in ErrorClasses : CallFails(w, err)
  \/ Save(w)

Fault(w) == ReplyLost(w) \/ CallRaises(w) \/ Crash(w)

Environment(p) ==
  \/ Land(p) \/ MarkClaimed(p) \/ Approve(p)
  \/ \E q \in Qualities : RenderAsset(p, q)

Next ==
  \/ \E p \in Publications : Environment(p)
  \/ \E w \in Workers : Batch(w) \/ Agent(w) \/ Attempt(w) \/ Fault(w)

Spec == Init /\ [][Next]_vars

(* A scheduled process keeps running its batch and takes its next step; a  *)
(* platform that is asked the same again and again gives an answer other   *)
(* than a transient error at last.                                         *)
WorkerStep(w) == Batch(w) \/ Attempt(w)
Answers(w, call) ==
  /\ pc[w] = call
  /\ Answered(w) \/ \E err \in ErrorClasses \ RETRYABLE : CallFails(w, err)
FairSpec ==
  /\ Spec
  /\ \A w \in Workers :
       /\ WF_vars(WorkerStep(w))
       /\ \A call \in Calling : SF_vars(Answers(w, call))

-----------------------------------------------------------------------------
(* Properties                                                              *)

(* Every variable stays in its type, and a worker inside run_publish works *)
(* on a publication.                                                       *)
DbTypeOK ==
  /\ status \in [Publications -> PublicationStatuses \cup {"absent"}]
  /\ postId \in [Publications -> Nat]
  /\ ledger \in [Publications -> Attempts]
  /\ assets \in [Publications -> Seq(Qualities)]
  /\ claims \in [Publications -> {"none", "due", "made"}]
NetTypeOK ==
  /\ containers \in [Publications -> Nat]
  /\ spent \in [Publications -> SUBSET Nat]
  /\ posts \in [Publications -> Nat]
ProcTypeOK ==
  /\ pc \in [Workers -> PCs]
  /\ rows \in [Workers -> RowMaps]
  /\ job \in [Workers -> Jobs]
  /\ \A w \in Workers : pc[w] \in Running => job[w].pub \in Publications
TypeOK == DbTypeOK /\ NetTypeOK /\ ProcTypeOK /\ faults \in 0..MaxFaults

(* Nothing of a publication reaches the platform or the ledger unless one  *)
(* of its assets has passed the gate (state_machine.py:78-81): through     *)
(* stale snapshots, agent calls, crashes and any number of workers.        *)
NothingUngated ==
  \A p \in Publications :
    (containers[p] > 0 \/ posts[p] > 0 \/ ledger[p] # NoAttempt) => HasPassed(p)

(* The ledger and the publication agree on every terminal state, an        *)
(* attempt still open belongs to a publication that is not terminal, and a *)
(* publication has the id of a post exactly if its attempt ended published *)
(* (stores.py:4-6, 64-66; 38).                                             *)
StatesAgree ==
  \A p \in Publications :
    LET s == ledger[p].state IN
    IF s \in TERMINAL \/ status[p] \in TERMINAL
    THEN s = status[p]
    ELSE s # "absent" => status[p] \in {"pending", "skipped"}
IdsAgree == \A p \in Publications : postId[p] # 0 <=> ledger[p].state = "published"
LedgerAgreement == StatesAgree /\ IdsAgree

(* A terminal attempt never changes again (state_machine.py:73-76), and no *)
(* later step, of a batch, a retry or an agent, adds a container or a post *)
(* to its publication (state_machine.py:10-11).                            *)
TerminalIsSilent ==
  [][\A p \in Publications :
       ledger[p].state \in TERMINAL
         => /\ ledger'[p] = ledger[p]
            /\ containers'[p] = containers[p]
            /\ posts'[p] = posts[p]]_vars

(* A container the ledger has recorded is the one every retry uses: the    *)
(* record is never replaced and no second container is made.               *)
ContainerKept ==
  [][\A p \in Publications :
       ledger[p].cid # 0
         => /\ ledger'[p].cid = ledger[p].cid
            /\ containers'[p] = containers[p]]_vars

(* A publication has at most one live post (FR-P3, NFR-2).                 *)
AtMostOnePost == \A p \in Publications : posts[p] <= 1

(* The post recorded for an attempt that ended published is one that is    *)
(* live on the platform (state_machine.py:106-115, stores.py:96-103),      *)
(* unless a post_id that an agent reported was written over it.            *)
PublishedIsLive ==
  \A p \in Publications :
    ledger[p].state = "published" =>
      \/ postId[p] \in 1..posts[p]
      \/ claims[p] = "made" /\ postId[p] = Claimed

(* Every publication that some worker can post, that waits and whose       *)
(* newest asset has passed and stays the newest, is settled in the end: by *)
(* a post, a failure or a skip.  No other publication's trouble may stop   *)
(* that (runner.py:85).                                                    *)
Servable(p) ==
  \E w \in Workers : /\ Channel[w].platform = Platform[p]
                     /\ KindOf(Format[p]) \in Accepted(Platform[p])
Due(p) == status[p] = "pending" /\ Row(p).quality = "passed"
Settles == \A p \in {q \in Publications : Servable(q)} : Due(p) ~> ~Due(p)

(* The path implements PublishOnce.                                        *)
Phase == [p \in Publications |->
            IF status[p] \in {"absent", "pending"} THEN "waiting" ELSE status[p]]
Once == INSTANCE PublishOnce WITH phase <- Phase, live <- posts
OnceSpec == Once!Spec
=============================================================================
