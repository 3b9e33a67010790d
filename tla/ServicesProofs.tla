--------------------------- MODULE ServicesProofs ---------------------------
(***************************************************************************)
(* What the services promise for every value of their constants: however   *)
(* many runners of whatever releases race over the migrations, however     *)
(* many sources a trend request names, and however many processes store    *)
(* and read media, whatever slides a video is made of, however long the    *)
(* texts of an alert are, whatever posts a scoreboard compares, and        *)
(* whatever texts are set on a card.                                       *)
(***************************************************************************)
EXTENDS Migrations, ResearchTrends, MediaStore, VideoTimeline, Alerts,
        Scoreboard, CardQuality, SequenceTheorems, FiniteSetTheorems,
        WellFoundedInduction, TLAPS

(* A runner's place: everything below the file it looks at is applied, and *)
(* what it reports it found missing.                                       *)
Progress(r) ==
  /\ applied[r] \subseteq versions
  /\ runner[r] \in {"loop", "insert"} => /\ at[r] >= 1
                                         /\ 1..(at[r] - 1) \subseteq versions
  /\ runner[r] = "insert" => at[r] <= Release[r] /\ at[r] \notin applied[r]
  /\ runner[r] = "table" => done[r] = <<>>

(* The report of a runner is about files it has been through, in order.    *)
Report(r) ==
  /\ \A i \in 1..Len(done[r]) :
       done[r][i] \notin applied[r] /\ done[r][i] \in Files
  /\ runner[r] \in {"loop", "insert"} =>
       \A i \in 1..Len(done[r]) : done[r][i] < at[r]
  /\ \A i, j \in 1..Len(done[r]) : i < j => done[r][i] < done[r][j]
  /\ runner[r] = "returned" => 1..Release[r] \subseteq versions

MigrationsInv ==
  /\ MigrationsTypeOK /\ AppliedOnce /\ NoGap
  /\ \A r \in Runners : Progress(r) /\ Report(r)

LEMMA OwnFiles ==
  ASSUME NEW r \in Runners PROVE 1..Release[r] \subseteq Files /\ Release[r] \in Nat
BY ReleaseAssumption DEF Files

LEMMA MigrationsStart == MigrationsInit => MigrationsInv
<1> SUFFICES ASSUME MigrationsInit PROVE MigrationsInv
  OBVIOUS
<1> USE DEF MigrationsInit
<1>1. MigrationsTypeOK
  BY ReleaseAssumption, KilledAssumption DEF MigrationsTypeOK
<1>2. AppliedOnce /\ NoGap
  BY DEF AppliedOnce, NoGap
<1>3. \A r \in Runners : Progress(r) /\ Report(r)
  <2> TAKE r \in Runners
  <2>1. /\ runner[r] = "idle" /\ applied[r] = {}
        /\ done[r] = <<>> /\ Len(done[r]) = 0
    OBVIOUS
  <2>2. 1..Len(done[r]) = {}
    BY <2>1
  <2> QED
    BY <2>1, <2>2 DEF Progress, Report
<1> QED
  BY <1>1, <1>2, <1>3 DEF MigrationsInv

LEMMA MigrateStep ==
  ASSUME MigrationsInv, NEW r \in Runners, Migrate(r)
  PROVE  MigrationsInv'
<1> USE KilledAssumption
<1> USE DEF MigrationsInv, Becomes, Ends
<1>0. 1..Release[r] \subseteq Files /\ Release[r] \in Nat
  BY OwnFiles
<1>1. CASE StartRun(r)
  BY <1>0, <1>1 DEF StartRun, MigrationsTypeOK, AppliedOnce, NoGap, Progress, Report
<1>2. CASE ReadApplied(r)
  <2>1. MigrationsTypeOK' /\ AppliedOnce' /\ NoGap'
    BY <1>0, <1>2 DEF ReadApplied, MigrationsTypeOK, AppliedOnce, NoGap
  <2>2. ASSUME NEW p \in Runners PROVE Progress(p)'
    BY <1>0, <1>2 DEF ReadApplied, MigrationsTypeOK, Progress
  <2>3. ASSUME NEW p \in Runners PROVE Report(p)'
    <3>1. CASE p = r
      BY <1>0, <1>2, <3>1 DEF ReadApplied, MigrationsTypeOK, Progress, Report
    <3>2. CASE p # r
      BY <1>0, <1>2, <3>2 DEF ReadApplied, MigrationsTypeOK, Report
    <3> QED
      BY <3>1, <3>2
  <2> QED
    BY <2>1, <2>2, <2>3
<1>3. CASE Skip(r)
  <2>1. MigrationsTypeOK' /\ AppliedOnce' /\ NoGap'
    BY <1>0, <1>3 DEF Skip, MigrationsTypeOK, AppliedOnce, NoGap
  <2>2. ASSUME NEW p \in Runners PROVE Progress(p)'
    BY <1>0, <1>3 DEF Skip, MigrationsTypeOK, Progress
  <2>3. ASSUME NEW p \in Runners PROVE Report(p)'
    <3>1. CASE p = r
      <4>1. /\ at'[p] = at[p] + 1 /\ at[p] \in Nat /\ runner[p] = "loop"
            /\ runner' = runner /\ done' = done /\ applied' = applied
        BY <1>3, <3>1 DEF Skip, MigrationsTypeOK
      <4>2. \A i \in 1..Len(done[p]) : done[p][i] \in Nat
        BY ReleaseAssumption DEF Report, Files
      <4> QED
        BY <4>1, <4>2 DEF Report
    <3>2. CASE p # r
      BY <1>0, <1>3, <3>2 DEF Skip, MigrationsTypeOK, Report
    <3> QED
      BY <3>1, <3>2
  <2> QED
    BY <2>1, <2>2, <2>3
<1>4. CASE Execute(r)
  BY <1>0, <1>4 DEF Execute, MigrationsTypeOK, AppliedOnce, NoGap, Progress, Report
<1>5. CASE Commit(r)
  <2> DEFINE f == open[r]
  <2>1. f = at[r] /\ f \in Files /\ f >= 1 /\ 1..f \subseteq versions \cup {f}
    BY <1>0, <1>5 DEF Commit, MigrationsTypeOK, Progress
  <2>2. versions' = versions \cup {f}
    BY <1>5 DEF Commit
  <2>3. MigrationsTypeOK'
    BY <1>0, <1>5, <2>1 DEF Commit, MigrationsTypeOK
  <2>4. AppliedOnce'
    BY <1>5, <2>1 DEF Commit, MigrationsTypeOK, AppliedOnce
  <2>5. NoGap'
    BY <2>1, <2>2 DEF NoGap
  <2>6. ASSUME NEW p \in Runners PROVE Progress(p)'
    BY <1>5, <2>1, <2>2 DEF Commit, MigrationsTypeOK, Progress
  <2>7. ASSUME NEW p \in Runners PROVE Report(p)'
    <3>1. CASE p = r
      <4>1. done'[p] = Append(done[p], f) /\ done[p] \in Seq(Files)
        BY <1>5, <3>1 DEF Commit, MigrationsTypeOK
      <4>2. /\ Len(done'[p]) = Len(done[p]) + 1
            /\ done'[p][Len(done[p]) + 1] = f
            /\ \A i \in 1..Len(done[p]) : done'[p][i] = done[p][i]
        BY <4>1
      <4>3. /\ runner[p] = "insert" /\ runner'[p] = "loop"
            /\ at'[p] = f + 1 /\ f \notin applied[p] /\ applied' = applied
        BY <1>5, <2>1, <3>1 DEF Commit, MigrationsTypeOK, Progress
      <4>4. Len(done[p]) \in Nat /\ f \in Nat
        BY <2>1, <4>1, ReleaseAssumption DEF Files
      <4>5. \A i \in 1..Len(done[p]) : done[p][i] \in Nat /\ done[p][i] < f
        BY <2>1, <3>1, <4>3, ReleaseAssumption DEF Report, Files
      <4> QED
        <5>1. \A i \in 1..(Len(done[p]) + 1) :
                i \in 1..Len(done[p]) \/ i = Len(done[p]) + 1
          BY <4>4
        <5>2. \A i \in 1..Len(done'[p]) :
                done'[p][i] \notin applied[p] /\ done'[p][i] \in Files
          BY <2>1, <4>2, <4>3, <5>1 DEF Report
        <5>3. \A i \in 1..Len(done'[p]) : done'[p][i] < at'[p]
          <6> SUFFICES ASSUME NEW i \in 1..(Len(done[p]) + 1)
                       PROVE  done'[p][i] < f + 1
            BY <4>2, <4>3
          <6>1. CASE i \in 1..Len(done[p])
            <7>1. done'[p][i] \in Nat /\ done'[p][i] < f
              BY <4>2, <4>5, <6>1
            <7> QED
              BY <4>4, <7>1
          <6>2. CASE i = Len(done[p]) + 1
            BY <4>2, <4>4, <6>2
          <6> QED
            BY <5>1, <6>1, <6>2
        <5>4. ASSUME NEW i \in 1..Len(done'[p]), NEW j \in 1..Len(done'[p]), i < j
              PROVE  done'[p][i] < done'[p][j]
          <6>1. i \in 1..Len(done[p])
            BY <4>2, <4>4, <5>4
          <6>2. CASE j = Len(done[p]) + 1
            BY <4>2, <4>5, <6>1, <6>2
          <6>3. CASE j \in 1..Len(done[p])
            BY <4>2, <5>4, <6>1, <6>3 DEF Report
          <6> QED
            BY <4>2, <5>1, <6>2, <6>3
        <5> QED
          BY <4>3, <5>2, <5>3, <5>4 DEF Report
    <3>2. CASE p # r
      BY <1>0, <1>5, <3>2 DEF Commit, MigrationsTypeOK, Report
    <3> QED
      BY <3>1, <3>2
  <2> QED
    BY <2>3, <2>4, <2>5, <2>6, <2>7
<1>6. CASE Duplicate(r)
  BY <1>0, <1>6 DEF Duplicate, MigrationsTypeOK, AppliedOnce, NoGap, Progress, Report
<1>7. CASE Breaks(r)
  BY <1>0, <1>7 DEF Breaks, MigrationsTypeOK, AppliedOnce, NoGap, Progress, Report
<1>8. CASE Return(r)
  BY <1>0, <1>8 DEF Return, MigrationsTypeOK, AppliedOnce, NoGap, Progress, Report
<1>9. CASE Killed(r)
  BY <1>0, <1>9 DEF Killed, MigrationsTypeOK, AppliedOnce, NoGap, Progress, Report
<1> QED
  BY <1>1, <1>2, <1>3, <1>4, <1>5, <1>6, <1>7, <1>8, <1>9 DEF Migrate

LEMMA MigrationsStutter ==
  ASSUME MigrationsInv, UNCHANGED migrationVars PROVE MigrationsInv'
BY DEF MigrationsInv, migrationVars, MigrationsTypeOK, AppliedOnce, NoGap, Progress,
       Report

THEOREM MigrationsCorrect == MigrationsSpec => []MigrationsInv
<1>1. MigrationsInit => MigrationsInv
  BY MigrationsStart
<1>2. MigrationsInv /\ [MigrationsNext]_migrationVars => MigrationsInv'
  BY MigrateStep, MigrationsStutter DEF MigrationsNext
<1> QED
  BY <1>1, <1>2, PTL DEF MigrationsSpec

(* However many runners there are and wherever they die, the statements of *)
(* a file take effect once, together with its row.                         *)
THEOREM FilesApplyOnce == MigrationsSpec => []AppliedOnce
<1>1. MigrationsInv => AppliedOnce
  BY DEF MigrationsInv
<1> QED
  BY <1>1, MigrationsCorrect, PTL

(* No release, however old, leaves a gap in the schema.                    *)
THEOREM SchemaHasNoGap == MigrationsSpec => []NoGap
<1>1. MigrationsInv => NoGap
  BY DEF MigrationsInv
<1> QED
  BY <1>1, MigrationsCorrect, PTL

(* A runner that returns has its whole release applied, and reports what   *)
(* it found missing, in order.                                             *)
THEOREM ReportsAreHonest == MigrationsSpec => []ReportHonest
<1>1. MigrationsInv => ReportHonest
  BY DEF MigrationsInv, Report, ReportHonest
<1> QED
  BY <1>1, MigrationsCorrect, PTL

(* All of it, as the run checks it (migrate.py:15-44).                     *)
THEOREM SchemaIsSound == MigrationsSpec => []SchemaSound
<1>1. AppliedOnce /\ NoGap /\ ReportHonest => SchemaSound
  BY DEF SchemaSound
<1> QED
  BY <1>1, FilesApplyOnce, SchemaHasNoGap, ReportsAreHonest, PTL

-----------------------------------------------------------------------------
(* Trend research                                                          *)

(* A result that is not ok: its source raised, or it was given up, which   *)
(* takes at least one timeout, and did not answer before.                  *)
Excused(s) ==
  \/ future[s] = "raised"
  \/ clock >= Timeout /\ (future[s] = "running" \/ answered[s] >= Timeout)

TrendsInv ==
  /\ TrendsTypeOK /\ CallBounded
  /\ \A i \in 1..Len(results) : ~results[i].ok => Excused(results[i].source)

LEMMA RequestsAreSequences == ASSUME NEW q \in Requests PROVE q \in Seq(Sources)
BY DEF Requests

LEMMA Comparison ==
  ASSUME NEW x, NEW a \in Int, NEW b \in Int, x = (a < b)
  PROVE  x \in BOOLEAN /\ (x <=> a < b)
<1>1. (a < b) \in BOOLEAN
  OBVIOUS
<1> QED
  BY <1>1

LEMMA ResultsAreTyped ==
  ASSUME TrendsTypeOK, NEW i \in 1..Len(results)
  PROVE  /\ results[i].source \in Sources /\ results[i].ok \in BOOLEAN
         /\ results[i].source = asked[i]
<1>1. results[i] \in [source : Sources, ok : BOOLEAN, items : BOOLEAN]
  BY ElementOfSeq DEF TrendsTypeOK
<1> QED
  BY <1>1 DEF TrendsTypeOK

LEMMA TrendsStart == TrendsInit => TrendsInv
<1> SUFFICES ASSUME TrendsInit PROVE TrendsInv
  OBVIOUS
<1>1. <<>> \in Requests
  <2>1. <<>> \in [1..0 -> Sources] /\ 0 \in 0..MaxAsked
    BY TimesAssumption
  <2> QED
    BY <2>1 DEF Requests
<1>2. asked = <<>> /\ results = <<>> /\ Len(asked) = 0 /\ Len(results) = 0
  BY DEF TrendsInit
<1>3. TrendsTypeOK
  <2>1. asking = FALSE /\ since = 0 /\ clock = 0
    BY DEF TrendsInit
  <2>2. \A i \in 1..Len(results) : FALSE
    BY <1>2
  <2>3. results \in Seq([source : Sources, ok : BOOLEAN, items : BOOLEAN])
    BY <1>2
  <2>4. /\ future \in [Sources -> Outcomes \cup {"none", "running"}]
        /\ answered \in [Sources -> Nat \cup {Never}]
    BY DEF TrendsInit
  <2>5. ~(Len(results) < Len(asked)) /\ Len(results) <= Len(asked)
    BY <1>2
  <2>6. asking \in BOOLEAN /\ (asking <=> Len(results) < Len(asked))
    BY <2>1, <2>5
  <2>7. asked \in Requests /\ clock \in Nat /\ since \in 0..clock
    BY <1>1, <1>2, <2>1
  <2> QED
    BY <2>2, <2>3, <2>4, <2>5, <2>6, <2>7 DEF TrendsTypeOK
<1>4. CallBounded
  BY <1>2, TimesAssumption DEF TrendsInit, CallBounded
<1> QED
  BY <1>2, <1>3, <1>4 DEF TrendsInv

LEMMA TrendsStep ==
  ASSUME TrendsInv, TrendsNext
  PROVE  TrendsInv'
<1> USE TimesAssumption
<1> USE DEF TrendsInv
<1>0. /\ asked \in Seq(Sources) /\ Len(asked) \in Nat /\ Len(results) \in Nat
      /\ clock \in Nat /\ since \in Nat /\ since <= clock
  BY RequestsAreSequences DEF TrendsTypeOK
<1>1. ASSUME NEW request \in Requests, Ask(request)
      PROVE  TrendsInv'
  <2>1. request \in Seq(Sources) /\ Len(request) \in Nat
    BY RequestsAreSequences
  <2>2. results' = <<>> /\ Len(results') = 0 /\ asked' = request
    BY <1>1 DEF Ask
  <2>3. asking' \in BOOLEAN /\ (asking' <=> Len(results') < Len(asked'))
    <3>1. asking' = (request # <<>>)
      BY <1>1 DEF Ask
    <3>2. asking' \in BOOLEAN /\ (asking' <=> request # <<>>)
      BY <3>1
    <3>3. request # <<>> <=> 0 < Len(request)
      BY <2>1
    <3> QED
      BY <2>2, <3>2, <3>3
  <2>4. TrendsTypeOK'
    BY <1>1, <2>1, <2>2, <2>3 DEF Ask, TrendsTypeOK, Outcomes
  <2>5. CallBounded'
    BY <1>1, <2>2 DEF Ask, CallBounded
  <2> QED
    BY <2>2, <2>4, <2>5
<1>2. ASSUME NEW s \in Sources, NEW outcome \in Outcomes, Answer(s, outcome)
      PROVE  TrendsInv'
  <2>1. TrendsTypeOK'
    BY <1>2 DEF Answer, TrendsTypeOK
  <2>2. CallBounded'
    BY <1>2 DEF Answer, CallBounded
  <2>3. ASSUME NEW i \in 1..Len(results'), ~results'[i].ok
        PROVE  Excused(results[i].source)'
    <3> DEFINE t == results[i].source
    <3>1. results' = results /\ clock' = clock
      BY <1>2 DEF Answer
    <3>2. t \in Sources /\ Excused(t)
      BY <2>3, <3>1, ResultsAreTyped
    <3>3. CASE t = s
      BY <1>0, <1>2, <3>1, <3>2, <3>3 DEF Answer, TrendsTypeOK, Excused
    <3>4. CASE t # s
      BY <1>2, <3>1, <3>2, <3>4 DEF Answer, TrendsTypeOK, Excused
    <3> QED
      BY <3>3, <3>4
  <2> QED
    BY <2>1, <2>2, <2>3
<1>3. ASSUME NEW ok \in BOOLEAN, NEW items \in BOOLEAN, asking,
             Collected([source |-> Turn, ok |-> ok, items |-> items]),
             ~ok => Excused(Turn)
      PROVE  TrendsInv'
  <2> DEFINE reply == [source |-> Turn, ok |-> ok, items |-> items]
             n == Len(results) + 1
  <2>1. n \in 1..Len(asked) /\ Turn = asked[n] /\ Turn \in Sources
    <3>1. n \in 1..Len(asked)
      <4>1. Len(results) < Len(asked)
        BY <1>3 DEF TrendsTypeOK
      <4> QED
        BY <1>0, <4>1
    <3> QED
      BY <1>0, <3>1, ElementOfSeq DEF Turn
  <2>2. /\ results' = Append(results, reply)
        /\ results \in Seq([source : Sources, ok : BOOLEAN, items : BOOLEAN])
        /\ reply \in [source : Sources, ok : BOOLEAN, items : BOOLEAN]
    BY <1>3, <2>1 DEF Collected, TrendsTypeOK
  <2>3. /\ Len(results') = n /\ results'[n] = reply
        /\ \A i \in 1..Len(results) : results'[i] = results[i]
        /\ results' \in Seq([source : Sources, ok : BOOLEAN, items : BOOLEAN])
    BY <2>2
  <2>4. \A i \in 1..n : i \in 1..Len(results) \/ i = n
    BY <1>0
  <2>5. /\ since' = clock /\ asking' = (n < Len(asked))
        /\ UNCHANGED <<asked, future, answered, clock>>
    BY <1>3 DEF Collected
  <2>6. TrendsTypeOK'
    <3>1. \A i \in 1..n : results'[i].source = asked[i]
      BY <2>1, <2>3, <2>4 DEF TrendsTypeOK
    <3>2. n <= Len(asked) /\ since' \in 0..clock'
      BY <1>0, <2>1, <2>5
    <3>3. asking' \in BOOLEAN /\ (asking' <=> Len(results') < Len(asked'))
      <4>1. n \in Int /\ Len(asked) \in Int
        BY <1>0
      <4>2. asking' = (n < Len(asked))
        BY <2>5
      <4> HIDE DEF n
      <4>3. asking' \in BOOLEAN /\ (asking' <=> n < Len(asked))
        BY <4>1, <4>2, Comparison
      <4> QED
        BY <2>3, <2>5, <4>3
    <3> QED
      BY <2>3, <2>5, <3>1, <3>2, <3>3 DEF TrendsTypeOK
  <2>7. CallBounded'
    <3>1. Timeout * n = Timeout * Len(results) + Timeout
      BY <1>0
    <3>2. clock <= Timeout * Len(results) + Timeout
      <4> DEFINE m == Timeout * Len(results)
      <4>1. m \in Nat
        BY <1>0
      <4>2. since <= m /\ clock - since <= Timeout
        BY DEF CallBounded
      <4> HIDE DEF m
      <4>3. clock <= m + Timeout
        BY <1>0, <4>1, <4>2
      <4> QED
        BY <4>3 DEF m
    <3> QED
      BY <1>0, <2>3, <2>5, <3>1, <3>2 DEF CallBounded
  <2>8. ASSUME NEW i \in 1..Len(results'), ~results'[i].ok
        PROVE  Excused(results[i].source)'
    <3>1. CASE i = n
      BY <1>3, <2>3, <2>5, <2>8, <3>1 DEF Excused
    <3>2. CASE i \in 1..Len(results)
      BY <2>3, <2>5, <2>8, <3>2 DEF Excused
    <3> QED
      BY <2>3, <2>4, <3>1, <3>2
  <2> QED
    BY <2>6, <2>7, <2>8
<1>4. CASE Collect
  <2>1. future[Turn] = "raised" => Excused(Turn)
    BY DEF Excused
  <2> QED
    BY <1>3, <1>4, <2>1 DEF Collect
<1>5. CASE GiveUp
  <2>1. Excused(Turn)
    BY <1>0, <1>5 DEF GiveUp, Overdue, Excused
  <2> QED
    BY <1>3, <1>5, <2>1 DEF GiveUp
<1>6. CASE Tick
  <2>1. TrendsTypeOK'
    <3>1. clock' \in Nat /\ since' \in 0..clock'
      BY <1>0, <1>6 DEF Tick
    <3> QED
      BY <1>6, <3>1 DEF Tick, TrendsTypeOK
  <2>2. CallBounded'
    BY <1>0, <1>6 DEF Tick, Overdue, CallBounded
  <2>3. \A s : Excused(s) => Excused(s)'
    BY <1>0, <1>6 DEF Tick, Excused
  <2> QED
    BY <1>6, <2>1, <2>2, <2>3 DEF Tick
<1> QED
  BY <1>1, <1>2, <1>4, <1>5, <1>6 DEF TrendsNext

LEMMA TrendsStutter ==
  ASSUME TrendsInv, UNCHANGED trendsVars PROVE TrendsInv'
BY DEF TrendsInv, trendsVars, TrendsTypeOK, CallBounded, Excused

THEOREM TrendsCorrect == TrendsSpec => []TrendsInv
<1>1. TrendsInit => TrendsInv
  BY TrendsStart
<1>2. TrendsInv /\ [TrendsNext]_trendsVars => TrendsInv'
  BY TrendsStep, TrendsStutter
<1> QED
  BY <1>1, <1>2, PTL DEF TrendsSpec

(* A source that answers within the timeout is never reported as failed.   *)
THEOREM PromptSourcesKept == TrendsSpec => []PromptKept
<1>1. TrendsInv => PromptKept
  <2> SUFFICES ASSUME TrendsInv, NEW i \in 1..Len(results),
                      Prompt(results[i].source)
               PROVE  results[i].ok
    BY DEF PromptKept
  <2>1. results[i].source \in Sources /\ results[i].ok \in BOOLEAN
    BY ResultsAreTyped DEF TrendsInv
  <2>2. ~Excused(results[i].source)
    <3>1. /\ future[results[i].source] \notin {"raised", "running"}
          /\ answered[results[i].source] < Timeout
      BY DEF Prompt
    <3>2. answered[results[i].source] \in Int /\ Timeout \in Nat
      BY <2>1, TimesAssumption DEF TrendsInv, TrendsTypeOK, Never
    <3> QED
      BY <3>1, <3>2 DEF Excused
  <2> QED
    BY <2>1, <2>2 DEF TrendsInv
<1> QED
  BY <1>1, TrendsCorrect, PTL

(* A call lasts at most one timeout for each name it asks.                 *)
THEOREM CallsAreBounded == TrendsSpec => []CallBounded
<1>1. TrendsInv => CallBounded
  BY DEF TrendsInv
<1> QED
  BY <1>1, TrendsCorrect, PTL

(* Both, as the run checks them (trends.py:62-67).                         *)
THEOREM DelayIsContained == TrendsSpec => []DelayContained
<1>1. PromptKept /\ CallBounded => DelayContained
  BY DEF DelayContained
<1> QED
  BY <1>1, PromptSourcesKept, CallsAreBounded, PTL

-----------------------------------------------------------------------------
(* The media stores.  A writer is past "open" until the file is whole; the *)
(* last one to open it writes both halves after that, so a file that       *)
(* nobody is in and nobody died in is whole, whoever overlapped.           *)
WritingIn(c) == \E p \in Processes : putting[p] = [content |-> c, at |-> "write"]
ClosingIn(c) == \E p \in Processes : putting[p] = [content |-> c, at |-> "close"]

OneKind ==
  /\ store = "memory" =>
       (\A c \in Media : halves[c] = Missing) /\ (\A p \in Processes : putting[p] = Resting)
  /\ store = "directory" => \A p \in Processes : held[p] = {}
OpenedExists ==
  /\ \A c \in Media : WritingIn(c) \/ ClosingIn(c) => Exists(c)
  /\ store = "directory" => \A c \in recorded : Exists(c)
LastWritesAll ==
  \A c \in Media \ interrupted : ~WritingIn(c) =>
    /\ ClosingIn(c) => 1 \in halves[c]
    /\ ~ClosingIn(c) => halves[c] \in {Missing, Whole}
OneAtATime ==
  \A c \in Media \ (overlapped \cup interrupted) :
    /\ \A p, q \in PuttersOf(c) : p = q
    /\ c \in recorded => PuttersOf(c) = {}
ServedBefore ==
  \A r \in served :
    /\ r.bytes \in {Whole, Missing} \/ r.content \in overlapped \cup interrupted
    /\ r.bytes = Missing => store = "memory" /\ ~r.own

MediaInv ==
  MediaTypeOK /\ OneKind /\ OpenedExists /\ LastWritesAll /\ OneAtATime /\ ServedBefore

LEMMA MediaStart == MediaInit => MediaInv
<1> SUFFICES ASSUME MediaInit PROVE MediaInv
  OBVIOUS
<1> USE DEF MediaInit
<1>1. MediaTypeOK /\ OneKind
  BY DEF MediaTypeOK, OneKind
<1>2. \A c \in Media : ~WritingIn(c) /\ ~ClosingIn(c)
  BY DEF WritingIn, ClosingIn, Resting
<1>3. OpenedExists /\ LastWritesAll
  BY <1>2 DEF OpenedExists, LastWritesAll
<1>4. \A c \in Media : PuttersOf(c) = {}
  BY NoneAssumption DEF PuttersOf, Resting
<1>5. OneAtATime /\ ServedBefore
  BY <1>4 DEF OneAtATime, ServedBefore
<1> QED
  BY <1>1, <1>3, <1>5 DEF MediaInv

LEMMA InFile ==
  ASSUME MediaTypeOK, NEW p \in Processes
  PROVE  /\ putting[p] = Resting \/ putting[p] \in [content : Media, at : {"open", "write", "close"}]
         /\ putting[p].at \in {"open", "write", "close"} =>
              putting[p].content \in Media /\ p \in PuttersOf(putting[p].content)
         /\ putting[p].at = "write" => WritingIn(putting[p].content)
         /\ putting[p].at = "close" => ClosingIn(putting[p].content)
<1>1. CASE putting[p] = Resting
  BY <1>1 DEF Resting
<1>2. CASE putting[p] \in [content : Media, at : {"open", "write", "close"}]
  <2>1. putting[p] = [content |-> putting[p].content, at |-> putting[p].at]
    BY <1>2
  <2> QED
    BY <1>2, <2>1 DEF PuttersOf, WritingIn, ClosingIn
<1> QED
  BY <1>1, <1>2 DEF MediaTypeOK

LEMMA MediaPutStep ==
  ASSUME MediaInv, NEW p \in Processes, NEW c \in Media, PutInMemory(p, c) \/ LookForFile(p, c)
  PROVE  MediaInv'
<1>1. CASE PutInMemory(p, c)
  <2>1. /\ store = "memory" /\ recorded' = recorded \cup {c}
        /\ held' = [held EXCEPT ![p] = @ \cup {c}]
        /\ UNCHANGED <<store, tts, halves, putting, served, overlapped, interrupted>>
    BY <1>1 DEF PutInMemory
  <2>2. \A d \in Media : PuttersOf(d) = {}
    BY <2>1, NoneAssumption DEF MediaInv, OneKind, PuttersOf, Resting
  <2>3. MediaTypeOK' /\ OneKind' /\ ServedBefore'
    BY <2>1 DEF MediaInv, MediaTypeOK, OneKind, ServedBefore
  <2>4. OpenedExists' /\ LastWritesAll'
    BY <2>1 DEF MediaInv, OpenedExists, LastWritesAll, WritingIn, ClosingIn, Exists
  <2>5. OneAtATime'
    BY <2>1, <2>2 DEF OneAtATime, PuttersOf
  <2> QED
    BY <2>3, <2>4, <2>5 DEF MediaInv
<1>2. CASE LookForFile(p, c) /\ Exists(c)
  BY <1>2 DEF LookForFile, MediaInv, MediaTypeOK, OneKind, OpenedExists, LastWritesAll, OneAtATime,
     ServedBefore, WritingIn, ClosingIn, Exists, PuttersOf
<1>3. CASE LookForFile(p, c) /\ ~Exists(c)
  <2>1. /\ putting[p] = Resting /\ store = "directory"
        /\ putting' = [putting EXCEPT ![p] = [content |-> c, at |-> "open"]]
        /\ overlapped' = IF PuttersOf(c) = {} THEN overlapped ELSE overlapped \cup {c}
        /\ UNCHANGED <<store, tts, halves, held, recorded, served, interrupted>>
    BY <1>3 DEF LookForFile, Renders
  <2>2. MediaTypeOK' /\ OneKind' /\ ServedBefore'
    BY <2>1 DEF MediaInv, MediaTypeOK, OneKind, ServedBefore
  <2>3. \A d \in Media : WritingIn(d)' <=> WritingIn(d)
    BY <2>1 DEF WritingIn, Resting, MediaInv, MediaTypeOK
  <2>4. \A d \in Media : ClosingIn(d)' <=> ClosingIn(d)
    BY <2>1 DEF ClosingIn, Resting, MediaInv, MediaTypeOK
  <2>5. OpenedExists' /\ LastWritesAll'
    BY <2>1, <2>3, <2>4 DEF MediaInv, OpenedExists, LastWritesAll, Exists, MediaTypeOK
  <2>6. \A d \in Media : PuttersOf(d)' = IF d = c THEN PuttersOf(d) \cup {p} ELSE PuttersOf(d) \ {p}
    BY <2>1 DEF PuttersOf, MediaInv, MediaTypeOK
  <2>7. OneAtATime'
    BY <1>3, <2>1, <2>6 DEF MediaInv, OneAtATime, OpenedExists
  <2> QED
    BY <2>2, <2>5, <2>7 DEF MediaInv
<1> QED
  BY <1>1, <1>2, <1>3

(* A step of a writer: its file and its place, nobody else's.              *)
LEMMA MediaWriteStep ==
  ASSUME MediaInv, NEW p \in Processes, OpenFile(p) \/ WriteHalf(p) \/ WriteRest(p)
  PROVE  MediaInv'
<1>1. PICK c \in Media :
        /\ c = putting[p].content /\ p \in PuttersOf(c) /\ putting[p] # Resting
        /\ putting[p] \in [content : Media, at : {"open", "write", "close"}]
  BY InFile DEF OpenFile, WriteHalf, WriteRest, MediaInv, Resting
<1>2. putting[p] = [content |-> c, at |-> putting[p].at]
  BY <1>1
<1>3. putting \in [Processes -> [content : Media, at : {"open", "write", "close"}] \cup {Resting}]
      /\ halves \in [Media -> (SUBSET Whole) \cup {Missing}]
  BY DEF MediaInv, MediaTypeOK
<1>4. store = "directory"
  BY <1>1 DEF MediaInv, MediaTypeOK, OneKind
<1>5. /\ \A q \in Processes \ {p} : putting'[q] = putting[q]
      /\ \/ putting'[p] = Resting
         \/ putting'[p] \in [content : {c}, at : {"write", "close"}]
      /\ \A d \in Media \ {c} : halves'[d] = halves[d]
  BY <1>1, <1>2, <1>3 DEF OpenFile, WriteHalf, WriteRest
<1>6. ASSUME NEW d \in Media, d # c
      PROVE  /\ WritingIn(d)' <=> WritingIn(d)
             /\ ClosingIn(d)' <=> ClosingIn(d)
             /\ PuttersOf(d)' = PuttersOf(d)
  <2>1. putting'[p].content # d /\ putting[p].content # d
    BY <1>1, <1>5, <1>6, NoneAssumption DEF Resting
  <2> QED
    BY <1>5, <2>1 DEF WritingIn, ClosingIn, PuttersOf
<1>7. PuttersOf(c)' \subseteq PuttersOf(c)
  BY <1>1, <1>5 DEF PuttersOf
<1>8. UNCHANGED <<store, tts, held, served, overlapped, interrupted>>
  BY DEF OpenFile, WriteHalf, WriteRest
<1>9. CASE OpenFile(p)
  <2>1. /\ halves'[c] = {} /\ recorded' = recorded
        /\ putting'[p] = [content |-> c, at |-> "write"]
    BY <1>1, <1>2, <1>3, <1>9 DEF OpenFile
  <2>2. WritingIn(c)' /\ Exists(c)'
    BY <2>1 DEF WritingIn, Exists, Missing
  <2>3. OpenedExists' /\ LastWritesAll'
    BY <1>5, <1>6, <1>8, <2>1, <2>2 DEF MediaInv, OpenedExists, LastWritesAll, Exists, MediaTypeOK
  <2>4. halves' \in [Media -> (SUBSET Whole) \cup {Missing}] /\ putting' \in [Processes -> [content : Media, at : {"open", "write", "close"}] \cup {Resting}]
    BY <1>1, <1>3, <1>9 DEF OpenFile
  <2> QED
    BY <1>1, <1>4, <1>6, <1>7, <1>8, <2>1, <2>3, <2>4
       DEF MediaInv, MediaTypeOK, OneKind, OneAtATime, ServedBefore
<1>10. CASE WriteHalf(p)
  <2>1. /\ halves'[c] = halves[c] \cup {1} /\ recorded' = recorded
        /\ putting'[p] = [content |-> c, at |-> "close"]
        /\ WritingIn(c)
    BY <1>1, <1>2, <1>3, <1>10, InFile DEF WriteHalf, MediaInv
  <2>2. halves[c] \subseteq Whole /\ 1 \in Whole
    BY <1>1, <1>3, <2>1 DEF MediaInv, OpenedExists, Exists, Whole
  <2>3. Exists(c)' /\ ClosingIn(c)'
    BY <2>1, <2>2 DEF Exists, Missing, Whole, ClosingIn
  <2>4. OpenedExists' /\ LastWritesAll'
    BY <1>5, <1>6, <1>8, <2>1, <2>3 DEF MediaInv, OpenedExists, LastWritesAll, Exists, MediaTypeOK
  <2>5. halves' \in [Media -> (SUBSET Whole) \cup {Missing}] /\ putting' \in [Processes -> [content : Media, at : {"open", "write", "close"}] \cup {Resting}]
    BY <1>1, <1>3, <1>10, <2>2 DEF WriteHalf
  <2> QED
    BY <1>1, <1>4, <1>6, <1>7, <1>8, <2>1, <2>4, <2>5
       DEF MediaInv, MediaTypeOK, OneKind, OneAtATime, ServedBefore
<1>11. CASE WriteRest(p)
  <2>1. /\ halves'[c] = halves[c] \cup {2} /\ recorded' = recorded \cup {c}
        /\ putting'[p] = Resting
        /\ ClosingIn(c)
    BY <1>1, <1>2, <1>3, <1>11, InFile DEF WriteRest, MediaInv
  <2>2. halves[c] \subseteq Whole /\ 2 \in Whole
    BY <1>1, <1>3, <2>1 DEF MediaInv, OpenedExists, Exists, Whole
  <2>3. Exists(c)'
    BY <2>1, <2>2 DEF Exists, Missing, Whole
  <2>4. WritingIn(c) => WritingIn(c)'
    <3>1. putting[p].at = "close"
      BY <1>11 DEF WriteRest
    <3> QED
      BY <1>5, <3>1 DEF WritingIn
  <2>5. ClosingIn(c)' => ClosingIn(c)
    BY <2>1
  <2>6. c \notin interrupted /\ ~WritingIn(c)' => halves'[c] = Whole
    BY <1>1, <2>1, <2>2, <2>4 DEF MediaInv, LastWritesAll, Whole
  <2>7. OpenedExists'
    BY <1>5, <1>6, <1>8, <2>1, <2>3 DEF MediaInv, OpenedExists, Exists, MediaTypeOK
  <2>8. LastWritesAll'
    BY <1>5, <1>6, <1>8, <2>6 DEF MediaInv, LastWritesAll, Whole
  <2>9. halves' \in [Media -> (SUBSET Whole) \cup {Missing}] /\ putting' \in [Processes -> [content : Media, at : {"open", "write", "close"}] \cup {Resting}]
    BY <1>1, <1>3, <1>11, <2>2 DEF WriteRest
  <2>10. OneAtATime'
    <3>1. p \notin PuttersOf(c)'
      BY <1>1, <2>1, NoneAssumption DEF PuttersOf, Resting
    <3> QED
      BY <1>1, <1>6, <1>7, <1>8, <2>1, <3>1 DEF MediaInv, OneAtATime
  <2> QED
    BY <1>1, <1>4, <1>8, <2>1, <2>7, <2>8, <2>9, <2>10
       DEF MediaInv, MediaTypeOK, OneKind, ServedBefore
<1> QED
  BY <1>9, <1>10, <1>11

LEMMA MediaEndStep ==
  ASSUME MediaInv, NEW p \in Processes, ProcessEnds(p) PROVE MediaInv'
<1>1. /\ held' = [held EXCEPT ![p] = {}] /\ putting' = [putting EXCEPT ![p] = Resting]
      /\ interrupted' = interrupted \cup
           IF putting[p].at \in {"write", "close"} THEN {putting[p].content} ELSE {}
      /\ UNCHANGED <<store, tts, halves, recorded, served, overlapped>>
  BY DEF ProcessEnds
<1>2. putting \in [Processes -> [content : Media, at : {"open", "write", "close"}] \cup {Resting}]
  BY DEF MediaInv, MediaTypeOK
<1>3. interrupted \subseteq interrupted' /\ interrupted' \subseteq Media
  BY <1>1, InFile DEF MediaInv, MediaTypeOK
<1>4. MediaTypeOK' /\ OneKind'
  BY <1>1, <1>2, <1>3 DEF MediaInv, MediaTypeOK, OneKind
<1>5. ASSUME NEW c \in Media
      PROVE  /\ WritingIn(c)' => WritingIn(c)
             /\ ClosingIn(c)' => ClosingIn(c)
             /\ PuttersOf(c)' \subseteq PuttersOf(c)
             /\ c \notin interrupted' =>
                  (WritingIn(c) => WritingIn(c)') /\ (ClosingIn(c) => ClosingIn(c)')
  <2>1. putting'[p] = Resting /\ \A q \in Processes \ {p} : putting'[q] = putting[q]
    BY <1>1, <1>2
  <2>2. \A a \in {"write", "close"} : putting[p] = [content |-> c, at |-> a] => c \in interrupted'
    BY <1>1
  <2>3. \A a \in {"write", "close"} : putting'[p] # [content |-> c, at |-> a]
    BY <2>1 DEF Resting
  <2>4. putting'[p].content # c
    BY <2>1, NoneAssumption DEF Resting
  <2>5. PuttersOf(c)' \subseteq PuttersOf(c)
    BY <2>1, <2>4 DEF PuttersOf
  <2> QED
    BY <2>1, <2>2, <2>3, <2>5 DEF WritingIn, ClosingIn
<1>6. OpenedExists'
  BY <1>1, <1>5 DEF MediaInv, MediaTypeOK, OpenedExists, Exists
<1>7. LastWritesAll'
  BY <1>1, <1>3, <1>5 DEF MediaInv, LastWritesAll
<1>8. OneAtATime'
  BY <1>1, <1>3, <1>5 DEF MediaInv, OneAtATime
<1>9. ServedBefore'
  BY <1>1, <1>3 DEF MediaInv, ServedBefore
<1> QED
  BY <1>4, <1>6, <1>7, <1>8, <1>9 DEF MediaInv

(* What a reader gets of a recorded content.                               *)
LEMMA RecordedWhole ==
  ASSUME MediaInv, NEW c \in recorded, store = "directory"
  PROVE  /\ halves[c] # Missing
         /\ PuttersOf(c) # {} \/ halves[c] = Whole \/ c \in interrupted
         /\ halves[c] = Whole \/ c \in overlapped \cup interrupted
<1>1. c \in Media /\ halves[c] # Missing
  BY DEF MediaInv, MediaTypeOK, OpenedExists, Exists
<1>2. WritingIn(c) \/ ClosingIn(c) => PuttersOf(c) # {}
  BY DEF WritingIn, ClosingIn, PuttersOf
<1>3. c \notin interrupted => PuttersOf(c) # {} \/ halves[c] = Whole
  BY <1>1, <1>2 DEF MediaInv, LastWritesAll
<1>4. c \notin overlapped \cup interrupted => PuttersOf(c) = {}
  BY <1>1 DEF MediaInv, OneAtATime
<1> QED
  BY <1>1, <1>3, <1>4

LEMMA MediaReadStep ==
  ASSUME MediaInv,
         NEW c \in Media,
         FetchUrl(c) \/ \E p \in Processes : UploadVideo(p, c)
  PROVE  MediaInv'
<1>1. /\ c \in recorded
      /\ UNCHANGED <<store, tts, halves, held, putting, recorded, overlapped, interrupted>>
  BY DEF FetchUrl, UploadVideo
<1>2. PICK r :
        /\ served' = served \cup {r}
        /\ r \in [content : Media, to : Processes \cup {Instagram},
                  bytes : (SUBSET Whole) \cup {Missing}, own : BOOLEAN]
        /\ r.bytes \in {Whole, Missing} \/ r.content \in overlapped \cup interrupted
        /\ r.bytes = Missing => store = "memory" /\ ~r.own
  <2>1. Missing # Whole /\ store \in {"memory", "directory"}
        /\ halves[c] \in (SUBSET Whole) \cup {Missing}
    BY DEF MediaInv, MediaTypeOK, Missing, Whole
  <2>2. CASE FetchUrl(c)
    <3> DEFINE r == [content |-> c, to |-> Instagram, own |-> FALSE,
                     bytes |-> IF store = "memory" THEN Missing ELSE halves[c]]
    <3>1. served' = served \cup {r}
      BY <2>2 DEF FetchUrl
    <3>2. r \in [content : Media, to : Processes \cup {Instagram},
                 bytes : (SUBSET Whole) \cup {Missing}, own : BOOLEAN]
      BY <2>1
    <3>3. /\ r.bytes \in {Whole, Missing} \/ r.content \in overlapped \cup interrupted
          /\ r.bytes = Missing => store = "memory" /\ ~r.own
      BY <1>1, <2>1, RecordedWhole
    <3> QED
      BY <3>1, <3>2, <3>3
  <2>3. ASSUME NEW p \in Processes, UploadVideo(p, c)
        PROVE  \E r :
                 /\ served' = served \cup {r}
                 /\ r \in [content : Media, to : Processes \cup {Instagram},
                           bytes : (SUBSET Whole) \cup {Missing}, own : BOOLEAN]
                 /\ r.bytes \in {Whole, Missing} \/ r.content \in overlapped \cup interrupted
                 /\ r.bytes = Missing => store = "memory" /\ ~r.own
    <3> DEFINE r == [content |-> c, to |-> p, bytes |-> BytesFor(p, c), own |-> c \in held[p]]
    <3>1. served' = served \cup {r}
      BY <2>3 DEF UploadVideo
    <3>2. BytesFor(p, c) \in (SUBSET Whole) \cup {Missing}
      BY <2>1 DEF BytesFor
    <3>3. r \in [content : Media, to : Processes \cup {Instagram},
                 bytes : (SUBSET Whole) \cup {Missing}, own : BOOLEAN]
      BY <2>1, <3>2
    <3>4. /\ r.bytes \in {Whole, Missing} \/ r.content \in overlapped \cup interrupted
          /\ r.bytes = Missing => store = "memory" /\ ~r.own
      BY <1>1, <2>1, RecordedWhole DEF BytesFor
    <3> QED
      BY <3>1, <3>3, <3>4
  <2> QED
    BY <2>2, <2>3
<1>3. MediaTypeOK' /\ ServedBefore'
  BY <1>1, <1>2 DEF MediaInv, MediaTypeOK, ServedBefore
<1>4. OneKind' /\ OpenedExists' /\ LastWritesAll' /\ OneAtATime'
  BY <1>1 DEF MediaInv, OneKind, OpenedExists, LastWritesAll, OneAtATime, WritingIn,
     ClosingIn, PuttersOf, Exists
<1> QED
  BY <1>3, <1>4 DEF MediaInv

LEMMA MediaInvStep == MediaInv /\ [MediaNext]_mediaVars => MediaInv'
<1> SUFFICES ASSUME MediaInv, [MediaNext]_mediaVars PROVE MediaInv'
  OBVIOUS
<1>1. CASE UNCHANGED mediaVars
  BY <1>1 DEF mediaVars, MediaInv, MediaTypeOK, OneKind, OpenedExists, LastWritesAll,
     OneAtATime, ServedBefore, WritingIn, ClosingIn, PuttersOf, Exists
<1> QED
  BY <1>1, MediaPutStep, MediaWriteStep, MediaEndStep, MediaReadStep DEF MediaNext

(* However many commands store and read media, a URL leads to the whole    *)
(* file once nobody writes it and nobody died in it, and a reader gets     *)
(* part of a file only where writers met or one died.                      *)
THEOREM MediaAreServed == MediaSpec => []ServedAsRendered
<1>1. MediaInv => ServedAsRendered
  BY RecordedWhole DEF MediaInv, ServedBefore, ServedAsRendered
<1> QED
  BY <1>1, MediaStart, MediaInvStep, PTL DEF MediaSpec
-----------------------------------------------------------------------------
(* The time line of a video: arithmetic of its rounding                    *)

LEMMA DivMod ==
  ASSUME NEW n \in Nat, NEW d \in Nat \ {0}
  PROVE  /\ n \div d \in Nat /\ n % d \in 0..(d - 1)
         /\ n = d * (n \div d) + (n % d)
OBVIOUS

LEMMA RoundedNear ==
  ASSUME NEW n \in Nat, NEW d \in Nat \ {0}
  PROVE  /\ Rounded(n, d) \in Nat
         /\ 2 * Distance(Rounded(n, d) * d, n) <= d
<1> DEFINE q == n \div d
           r == n % d
<1>1. q \in Nat /\ r \in 0..(d - 1) /\ n = d * q + r
  BY DivMod
<1>2. Rounded(n, d) = IF 2 * r > d \/ (2 * r = d /\ q % 2 = 1) THEN q + 1 ELSE q
  BY DEF Rounded
<1> HIDE DEF q, r
<1> DEFINE m == d * q
<1>3. m \in Nat /\ q * d = m /\ (q + 1) * d = m + d /\ n = m + r
  BY <1>1
<1> HIDE DEF m
<1>4. CASE 2 * r > d \/ (2 * r = d /\ q % 2 = 1)
  <2>1. Rounded(n, d) = q + 1 /\ 2 * r >= d
    BY <1>1, <1>2, <1>4
  <2> QED
    BY <1>1, <1>3, <2>1 DEF Distance
<1>5. CASE ~(2 * r > d \/ (2 * r = d /\ q % 2 = 1))
  <2>1. Rounded(n, d) = q /\ 2 * r <= d
    BY <1>1, <1>2, <1>5
  <2> QED
    BY <1>1, <1>3, <2>1 DEF Distance
<1> QED
  BY <1>4, <1>5

LEMMA RoundedMonotone ==
  ASSUME NEW a \in Nat, NEW b \in Nat, a <= b, NEW d \in Nat \ {0}
  PROVE  Rounded(a, d) <= Rounded(b, d)
<1> DEFINE q == a \div d
           r == a % d
           s == b \div d
           t == b % d
<1>1. /\ q \in Nat /\ r \in 0..(d - 1) /\ a = d * q + r
      /\ s \in Nat /\ t \in 0..(d - 1) /\ b = d * s + t
  BY DivMod
<1>2. /\ Rounded(a, d) = IF 2 * r > d \/ (2 * r = d /\ q % 2 = 1) THEN q + 1 ELSE q
      /\ Rounded(b, d) = IF 2 * t > d \/ (2 * t = d /\ s % 2 = 1) THEN s + 1 ELSE s
  BY DEF Rounded
<1> HIDE DEF q, r, s, t
<1>3. q <= s
  <2> SUFFICES ASSUME s + 1 <= q PROVE FALSE
    BY <1>1
  <2>1. d * (s + 1) <= d * q
    BY <1>1
  <2>2. d * (s + 1) = d * s + d /\ d * s \in Int /\ d * q \in Int
    BY <1>1
  <2> QED
    BY <1>1, <2>1, <2>2
<1>4. CASE q = s
  <2>1. r <= t
    <3>1. d * q \in Int
      BY <1>1
    <3> QED
      BY <1>1, <1>4, <3>1
  <2> QED
    BY <1>1, <1>2, <1>4, <2>1
<1>5. CASE q < s
  BY <1>1, <1>2, <1>5
<1> QED
  BY <1>1, <1>3, <1>4, <1>5

(* A slide is shown at most a frame longer or shorter than it is spoken,   *)
(* and half a frame unless it is spoken in less than that.                 *)
LEMMA FramesNear ==
  ASSUME NEW n \in Nat
  PROVE  /\ Frames(n) \in Nat \ {0}
         /\ Distance(Frames(n) * PerFrame, n) <= PerFrame
         /\ PerFrame <= 2 * n => 2 * Distance(Frames(n) * PerFrame, n) <= PerFrame
<1> DEFINE d == PerFrame
           f == Rounded(n, d)
<1>1. d \in Nat \ {0}
  BY SamplesAssumption
<1>2. f \in Nat /\ 2 * Distance(f * d, n) <= d
  BY <1>1, RoundedNear
<1>3. Frames(n) = IF f = 0 THEN 1 ELSE f
  BY DEF Frames
<1> HIDE DEF d, f
<1>4. CASE f = 0
  <2>1. f * d = 0 /\ Frames(n) * d = d
    BY <1>1, <1>3, <1>4
  <2>2. 2 * n <= d
    BY <1>1, <1>2, <2>1 DEF Distance
  <2> QED
    BY <1>1, <1>3, <1>4, <2>1, <2>2 DEF Distance, d
<1>5. CASE f # 0
  <2> DEFINE m == f * d
  <2>1. m \in Nat
    BY <1>1, <1>2
  <2> HIDE DEF m
  <2>2. Distance(m, n) <= d
    BY <1>1, <1>2, <2>1 DEF Distance, m
  <2> QED
    BY <1>2, <1>3, <1>5, <2>2 DEF m, d
<1> QED
  BY <1>4, <1>5

(* Pictures that begin before the narration ends end before a limit that   *)
(* is a whole number of frames.                                            *)
LEMMA BegunFits ==
  ASSUME NEW n \in Nat, n <= MaxTotal
  PROVE  /\ (n + PerFrame - 1) \div PerFrame \in Nat
         /\ ((n + PerFrame - 1) \div PerFrame) * PerFrame <= MaxTotal
<1> DEFINE d == PerFrame
           b == (n + d - 1) \div d
           k == MaxTotal \div d
<1>1. d \in Nat \ {0} /\ MaxTotal \in Nat /\ MaxTotal % d = 0
  BY SamplesAssumption
<1>2. n + d - 1 \in Nat
  BY <1>1
<1>3. b \in Nat /\ d * b <= n + d - 1
  <2>1. /\ b \in Nat /\ (n + d - 1) % d \in 0..(d - 1)
        /\ n + d - 1 = d * b + ((n + d - 1) % d)
    BY <1>1, <1>2, DivMod
  <2> QED
    BY <1>1, <2>1
<1>4. k \in Nat /\ MaxTotal = d * k
  BY <1>1, DivMod
<1> HIDE DEF d, b, k
<1>5. b <= k
  <2> SUFFICES ASSUME k + 1 <= b PROVE FALSE
    BY <1>3, <1>4
  <2>1. d * (k + 1) <= d * b
    BY <1>1, <1>3, <1>4
  <2>2. d * (k + 1) = d * k + d /\ d * k \in Int /\ d * b \in Int
    BY <1>1, <1>3, <1>4
  <2> QED
    BY <1>1, <1>3, <1>4, <2>1, <2>2
<1>6. b * d <= MaxTotal
  <2>1. d * b <= d * k /\ b * d = d * b
    BY <1>1, <1>3, <1>4, <1>5
  <2> QED
    BY <1>4, <2>1
<1> QED
  BY <1>3, <1>6 DEF b, d

-----------------------------------------------------------------------------
(* Screen, voice and subtitles in step                                     *)

Ratio == picture[1] \in Nat /\ picture[2] \in Nat /\ picture[1] * 16 = picture[2] * 9

(* What each stage may rely on.                                            *)
StageInv ==
  /\ stage \in {"idle", "speak", "refused"} => screenAt = <<>> /\ cues = <<>>
  /\ stage = "idle" => wavs = <<>>
  /\ stage # "checked" => refusals = {}
  /\ stage \in {"speak", "segments", "subtitles", "video"} => Ratio
  /\ stage \in {"segments", "subtitles", "video"} =>
       Len(wavs) = slides /\ 0 < Total /\ Total <= MaxTotal
  /\ stage \in {"subtitles", "video"} => Len(screenAt) = slides

(* The ends of the narration are the sums of its lengths, and the printed  *)
(* times those of the narration.                                           *)
VoiceSums ==
  \A n \in 1..Len(wavs) : spoken[n] = Until(spoken, n - 1) + wavs[n].len
CuesTold ==
  /\ cursor = Until(spoken, Len(cues))
  /\ \A n \in 1..Len(cues) :
       /\ cues[n].start = Printed(Until(spoken, n - 1))
       /\ cues[n].end = Printed(spoken[n])

VideoInv ==
  /\ VideoTypeOK /\ StageInv /\ VoiceSums /\ CuesTold
  /\ ScreenFollowsVoice /\ GateAgrees

LEMMA VideoStart == VideoInit => VideoInv
<1> SUFFICES ASSUME VideoInit PROVE VideoInv
  OBVIOUS
<1> USE DEF VideoInit
<1>1. VideoTypeOK
  BY DEF VideoTypeOK, Stages
<1>2. StageInv
  BY DEF StageInv
<1>3. VoiceSums /\ CuesTold /\ ScreenFollowsVoice
  BY DEF VoiceSums, CuesTold, ScreenFollowsVoice, Until
<1>4. GateAgrees
  BY DEF GateAgrees
<1> QED
  BY <1>1, <1>2, <1>3, <1>4 DEF VideoInv

LEMMA LengthTyped == ASSUME NEW wav \in Wavs PROVE wav.len \in Nat
<1>1. wav.len \in Lengths
  BY DEF Wavs
<1> QED
  BY <1>1, SamplesAssumption

LEMMA UntilTyped ==
  ASSUME NEW s \in Seq(Nat), NEW n \in 0..Len(s)
  PROVE  Until(s, n) \in Nat
BY DEF Until

LEMMA UntilGrows ==
  ASSUME NEW s \in Seq(Nat), NEW e, NEW n \in 0..Len(s)
  PROVE  Until(Append(s, e), n) = Until(s, n)
BY DEF Until

LEMMA ParseKeeps ==
  ASSUME VideoInv, NEW shape \in Shapes, NEW n \in Nat, NEW titles \in [1..n -> BOOLEAN],
         Parse(shape, titles)
  PROVE  VideoInv'
<1> USE DEF VideoInv, Parse
<1>1. wavs = <<>> /\ screenAt = <<>> /\ cues = <<>> /\ refusals = {}
  BY DEF StageInv
<1>2. Len(titles) \in Nat
  <2>1. titles \in Seq(BOOLEAN)
    OBVIOUS
  <2> QED
    BY <2>1
<1>3. shape \in Int \X Int
  BY SamplesAssumption
<1>4. VideoTypeOK'
  BY <1>1, <1>2, <1>3 DEF VideoTypeOK, Stages
<1>5. StageInv'
  BY <1>1 DEF StageInv, Admissible, Ratio
<1>6. VoiceSums' /\ CuesTold' /\ ScreenFollowsVoice'
  BY <1>1 DEF VoiceSums, CuesTold, ScreenFollowsVoice, Until
<1>7. GateAgrees'
  BY <1>1 DEF GateAgrees
<1> QED
  BY <1>4, <1>5, <1>6, <1>7

LEMMA SpeakKeeps ==
  ASSUME VideoInv, NEW wav \in Wavs, Speak(wav)
  PROVE  VideoInv'
<1> USE DEF VideoInv, Speak
<1> DEFINE k == Len(wavs)
<1>1. screenAt = <<>> /\ cues = <<>> /\ refusals = {}
  BY DEF StageInv
<1>2. /\ wavs \in Seq(Wavs) /\ spoken \in Seq(Nat) /\ Len(spoken) = k /\ k \in Nat
      /\ wav.len \in Nat /\ slides \in Nat
  BY LengthTyped DEF VideoTypeOK
<1>3. Total \in Nat /\ Total = Until(spoken, k)
  BY <1>2, UntilTyped DEF Total
<1>4. /\ wavs' \in Seq(Wavs) /\ Len(wavs') = k + 1
      /\ spoken' \in Seq(Nat) /\ Len(spoken') = k + 1
      /\ \A n \in 1..k : wavs'[n] = wavs[n] /\ spoken'[n] = spoken[n]
      /\ wavs'[k + 1] = wav /\ spoken'[k + 1] = Total + wav.len
  BY <1>2, <1>3
<1>5. VideoTypeOK'
  BY <1>1, <1>2, <1>4 DEF VideoTypeOK
<1>6. StageInv'
  BY <1>1 DEF StageInv, Ratio
<1>7. VoiceSums'
  <2> SUFFICES ASSUME NEW n \in 1..(k + 1)
               PROVE  spoken'[n] = Until(spoken', n - 1) + wavs'[n].len
    BY <1>4 DEF VoiceSums
  <2>1. Until(spoken', n - 1) = Until(spoken, n - 1)
    BY <1>2, UntilGrows
  <2>2. CASE n = k + 1
    BY <1>2, <1>3, <1>4, <2>1, <2>2
  <2>3. CASE n \in 1..k
    BY <1>4, <2>1, <2>3 DEF VoiceSums
  <2> QED
    BY <1>2, <2>2, <2>3
<1>8. CuesTold' /\ ScreenFollowsVoice'
  BY <1>1 DEF CuesTold, ScreenFollowsVoice, Until
<1>9. GateAgrees'
  BY <1>1 DEF GateAgrees
<1> QED
  BY <1>5, <1>6, <1>7, <1>8, <1>9

LEMMA AdmitKeeps == ASSUME VideoInv, Admit PROVE VideoInv'
<1> USE DEF VideoInv, Admit
<1>1. VideoTypeOK'
  BY DEF VideoTypeOK, Stages
<1>2. StageInv'
  BY DEF StageInv, Ratio, Total
<1>3. VoiceSums' /\ CuesTold' /\ ScreenFollowsVoice' /\ GateAgrees'
  BY DEF VoiceSums, CuesTold, ScreenFollowsVoice, NoneShort, GateAgrees
<1> QED
  BY <1>1, <1>2, <1>3

LEMMA RaisesKeeps == ASSUME VideoInv, RenderRaises PROVE VideoInv'
<1> USE DEF VideoInv, RenderRaises
<1>1. VideoTypeOK'
  BY DEF VideoTypeOK, Stages
<1>2. StageInv'
  BY DEF StageInv
<1>3. VoiceSums' /\ CuesTold' /\ ScreenFollowsVoice' /\ GateAgrees'
  BY DEF VoiceSums, CuesTold, ScreenFollowsVoice, NoneShort, GateAgrees
<1> QED
  BY <1>1, <1>2, <1>3

LEMMA SegmentKeeps == ASSUME VideoInv, Segment PROVE VideoInv'
<1> USE DEF VideoInv
<1> DEFINE k == Len(screenAt)
           i == k + 1
           f == Frames(wavs[i].len)
           e == Until(screenAt, k) + f
<1>1. /\ stage = "segments" /\ i <= slides /\ Len(wavs) = slides
      /\ screenAt' = Append(screenAt, e)
      /\ stage' = IF i = slides THEN "subtitles" ELSE stage
      /\ UNCHANGED <<slides, wavs, spoken, cues, cursor, picture, refusals>>
  BY DEF Segment, StageInv, VideoTypeOK
<1>2. /\ screenAt \in Seq(Nat) /\ k \in Nat /\ slides \in Nat
      /\ wavs \in Seq(Wavs) /\ spoken \in Seq(Nat) /\ Len(spoken) = slides
      /\ i \in 1..Len(wavs) /\ cues \in Seq([start : Nat, end : Nat]) /\ Len(cues) <= k
  BY <1>1 DEF VideoTypeOK
<1>3. wavs[i] \in Wavs /\ wavs[i].len \in Nat
  BY <1>2, LengthTyped
<1>4. f \in Nat /\ Until(screenAt, k) \in Nat
  <2>1. f \in Nat
    BY <1>3, FramesNear
  <2>2. k \in 0..Len(screenAt)
    BY <1>2
  <2> QED
    BY <1>2, <2>1, <2>2, UntilTyped
<1>5. /\ screenAt' \in Seq(Nat) /\ Len(screenAt') = i
      /\ \A n \in 1..k : screenAt'[n] = screenAt[n]
      /\ screenAt'[i] = e
  BY <1>1, <1>2, <1>4
<1>6. VideoTypeOK'
  BY <1>1, <1>2, <1>5 DEF VideoTypeOK, Stages
<1>7. StageInv'
  BY <1>1, <1>5 DEF StageInv, Ratio, Total
<1>8. VoiceSums' /\ CuesTold' /\ GateAgrees'
  BY <1>1 DEF VoiceSums, CuesTold, GateAgrees
<1>9. ScreenFollowsVoice'
  <2> SUFFICES ASSUME NEW n \in 1..i
               PROVE  /\ Distance(screenAt'[n] * PerFrame, spoken[n]) <= n * PerFrame
                      /\ NoneShort =>
                           2 * Distance(screenAt'[n] * PerFrame, spoken[n]) <= n * PerFrame
    BY <1>1, <1>5 DEF ScreenFollowsVoice, NoneShort
  <2>1. CASE n \in 1..k
    BY <1>5, <2>1 DEF ScreenFollowsVoice
  <2>2. CASE n = i
    <3> DEFINE d == PerFrame
               a == Until(screenAt, k)
               b == Until(spoken, k)
               len == wavs[i].len
    <3>1. d \in Nat \ {0} /\ a \in Nat /\ b \in Nat
      <4>1. k \in 0..Len(spoken)
        BY <1>1, <1>2
      <4> QED
        BY <1>2, <1>4, <4>1, UntilTyped, SamplesAssumption
    <3>2. spoken[i] = b + len
      <4>1. i - 1 = k
        BY <1>2
      <4>2. spoken[i] = Until(spoken, i - 1) + wavs[i].len
        <5> HIDE DEF i, k
        <5> QED
          BY <1>2 DEF VoiceSums
      <4> HIDE DEF i, k
      <4> QED
        BY <4>1, <4>2
    <3>3. /\ Distance(a * d, b) <= k * d
          /\ NoneShort => 2 * Distance(a * d, b) <= k * d
      <4>1. CASE k = 0
        <5>1. a = 0 /\ b = 0 /\ a * d = 0 /\ k * d = 0
          BY <3>1, <4>1 DEF Until
        <5> QED
          BY <5>1 DEF Distance
      <4>2. CASE k # 0
        <5>1. a = screenAt[k] /\ b = spoken[k] /\ k \in 1..k
          BY <1>2, <4>2 DEF Until
        <5> QED
          BY <5>1 DEF ScreenFollowsVoice
      <4> QED
        BY <4>1, <4>2
    <3>4. /\ Distance(f * d, len) <= d
          /\ NoneShort => 2 * Distance(f * d, len) <= d
      <4>1. NoneShort => d <= 2 * len
        BY <1>2 DEF NoneShort
      <4> QED
        BY <1>3, <4>1, FramesNear
    <3>5. screenAt'[n] = a + f /\ len \in Nat /\ f \in Nat /\ k \in Nat /\ n = k + 1
      BY <1>2, <1>3, <1>4, <1>5, <2>2
    <3> HIDE DEF d, a, b, len, f
    <3> DEFINE ad == a * d
               fd == f * d
               kd == k * d
    <3>6. /\ ad \in Nat /\ fd \in Nat /\ kd \in Nat
          /\ (a + f) * d = ad + fd /\ n * d = kd + d
      BY <3>1, <3>5
    <3> HIDE DEF ad, fd, kd
    <3>7. /\ Distance(ad + fd, b + len) <= kd + d
          /\ NoneShort => 2 * Distance(ad + fd, b + len) <= kd + d
      <4>1. Distance(ad, b) <= kd /\ (NoneShort => 2 * Distance(ad, b) <= kd)
        BY <3>3 DEF ad, kd
      <4>2. Distance(fd, len) <= d /\ (NoneShort => 2 * Distance(fd, len) <= d)
        BY <3>4 DEF fd
      <4>3. Distance(ad + fd, b + len) <= Distance(ad, b) + Distance(fd, len)
        BY <3>1, <3>5, <3>6 DEF Distance
      <4>4. /\ Distance(ad, b) \in Nat /\ Distance(fd, len) \in Nat
            /\ Distance(ad + fd, b + len) \in Nat
        BY <3>1, <3>5, <3>6 DEF Distance
      <4> DEFINE both == Distance(ad + fd, b + len)
                 one == Distance(ad, b)
                 two == Distance(fd, len)
      <4>5. d \in Nat /\ kd \in Nat /\ one \in Nat /\ two \in Nat /\ both \in Nat
        BY <3>1, <3>6, <4>4
      <4>6. one <= kd /\ two <= d /\ both <= one + two
        BY <4>1, <4>2, <4>3
      <4>7. NoneShort => 2 * one <= kd /\ 2 * two <= d
        BY <4>1, <4>2
      <4> HIDE DEF both, one, two
      <4>8. both <= kd + d
        BY <4>5, <4>6
      <4>9. CASE NoneShort
        <5>1. 2 * both <= kd + d
          BY <4>5, <4>6, <4>7, <4>9
        <5> QED
          BY <4>8, <5>1 DEF both
      <4>10. CASE ~NoneShort
        BY <4>8, <4>10 DEF both
      <4> QED
        BY <4>9, <4>10
    <3> QED
      BY <2>2, <3>2, <3>5, <3>6, <3>7 DEF d
  <2> QED
    BY <1>2, <2>1, <2>2
<1> QED
  BY <1>6, <1>7, <1>8, <1>9

LEMMA CueKeeps == ASSUME VideoInv, Cue PROVE VideoInv'
<1> USE DEF VideoInv
<1> DEFINE k == Len(cues)
           i == k + 1
           ends == cursor + wavs[i].len
           c == [start |-> Printed(cursor), end |-> Printed(ends)]
<1>1. /\ stage = "subtitles" /\ i <= slides /\ Len(wavs) = slides /\ Len(screenAt) = slides
      /\ cues' = Append(cues, c) /\ cursor' = ends
      /\ stage' = IF i = slides THEN "video" ELSE stage
      /\ UNCHANGED <<slides, wavs, spoken, screenAt, picture, refusals>>
  BY DEF Cue, StageInv
<1>2. /\ cues \in Seq([start : Nat, end : Nat]) /\ k \in Nat /\ slides \in Nat
      /\ wavs \in Seq(Wavs) /\ spoken \in Seq(Nat) /\ Len(spoken) = slides
      /\ i \in 1..Len(wavs) /\ cursor \in Nat
  BY <1>1 DEF VideoTypeOK
<1>3. wavs[i].len \in Nat /\ ends \in Nat
  <2>1. wavs[i] \in Wavs
    BY <1>2
  <2>2. wavs[i].len \in Nat
    BY <2>1, LengthTyped
  <2> QED
    BY <1>2, <2>2
<1>4. cursor = Until(spoken, k) /\ ends = spoken[i] /\ ends = Until(spoken, i)
  BY <1>2, SMTT(20) DEF CuesTold, VoiceSums, Until
<1>5. c \in [start : Nat, end : Nat]
  BY <1>2, <1>3, RoundedNear, SamplesAssumption DEF Printed
<1>6. c.start = Printed(cursor) /\ c.end = Printed(ends)
  OBVIOUS
<1> HIDE DEF c, ends
<1>7. /\ cues' \in Seq([start : Nat, end : Nat]) /\ Len(cues') = i
      /\ \A n \in 1..k : cues'[n] = cues[n]
      /\ cues'[i] = c
  BY <1>1, <1>2, <1>5
<1>8. VideoTypeOK'
  BY <1>1, <1>2, <1>3, <1>7 DEF VideoTypeOK, Stages
<1>9. StageInv'
  BY <1>1 DEF StageInv, Ratio, Total
<1>10. VoiceSums' /\ ScreenFollowsVoice' /\ GateAgrees'
  BY <1>1 DEF VoiceSums, ScreenFollowsVoice, NoneShort, GateAgrees
<1>11. CuesTold'
  <2>1. cursor' = Until(spoken', Len(cues'))
    BY <1>1, <1>4, <1>7
  <2>2. ASSUME NEW n \in 1..i
        PROVE  /\ cues'[n].start = Printed(Until(spoken, n - 1))
               /\ cues'[n].end = Printed(spoken[n])
    <3>1. CASE n \in 1..k
      BY <1>7, <3>1 DEF CuesTold
    <3>2. CASE n = i
      <4>1. n - 1 = k
        BY <1>2, <3>2
      <4> QED
        BY <1>4, <1>6, <1>7, <3>2, <4>1
    <3> QED
      BY <1>2, <3>1, <3>2
  <2> QED
    BY <1>1, <1>7, <2>1, <2>2 DEF CuesTold, Printed
<1> QED
  BY <1>8, <1>9, <1>10, <1>11

(* What is admitted by its narration is not too long as a file.            *)
LEMMA DurationFits ==
  ASSUME VideoInv, stage = "video" PROVE 0 < Duration /\ Duration <= MaxTotal
<1> USE DEF VideoInv
<1>1. /\ 0 < Total /\ Total <= MaxTotal /\ Total \in Nat
      /\ screenAt \in Seq(Nat) /\ Len(screenAt) = slides /\ slides \in Nat
      /\ Len(spoken) = slides
  <2>1. Total \in Nat
    BY UntilTyped DEF Total, VideoTypeOK
  <2> QED
    BY <2>1 DEF StageInv, VideoTypeOK
<1>2. slides # 0
  BY <1>1 DEF Total, Until
<1>3. screenAt[slides] \in Nat
  BY <1>1, <1>2
<1> DEFINE begun == (Total + PerFrame - 1) \div PerFrame
<1>4. begun \in Nat /\ begun * PerFrame <= MaxTotal
  BY <1>1, BegunFits
<1>5. Shown \in Nat /\ Shown <= begun
  BY <1>3, <1>4 DEF Shown
<1> HIDE DEF begun
<1>6. PerFrame \in Nat /\ MaxTotal \in Nat
  BY SamplesAssumption
<1>7. Shown * PerFrame <= begun * PerFrame /\ Shown * PerFrame \in Nat /\ begun * PerFrame \in Nat
  BY <1>4, <1>5, <1>6
<1>8. Shown * PerFrame <= MaxTotal
  BY <1>4, <1>6, <1>7
<1> QED
  BY <1>1, <1>6, <1>7, <1>8 DEF Duration

LEMMA CheckKeeps ==
  ASSUME VideoInv, NEW silent \in BOOLEAN, CheckVideo(silent) PROVE VideoInv'
<1> USE DEF VideoInv
<1>1. /\ stage = "video" /\ stage' = "checked"
      /\ UNCHANGED <<slides, wavs, spoken, screenAt, cues, cursor, picture>>
      /\ refusals' \subseteq {"size", "ratio", "length", "silence"}
  BY DEF CheckVideo
<1>2. Ratio
  BY <1>1 DEF StageInv
<1>3. "ratio" \notin refusals' /\ "length" \notin refusals'
  BY <1>1, <1>2, DurationFits DEF CheckVideo, Ratio
<1>4. "size" \in refusals' => picture[1] < Smallest[1]
  <2> SUFFICES ASSUME "size" \in refusals', ~(picture[1] < Smallest[1]) PROVE FALSE
    OBVIOUS
  <2>1. picture[2] < Smallest[2]
    BY DEF CheckVideo
  <2> QED
    BY <1>2, <2>1, SamplesAssumption DEF Ratio
<1>5. VideoTypeOK'
  BY <1>1 DEF VideoTypeOK, Stages
<1>6. StageInv'
  BY <1>1 DEF StageInv
<1>7. VoiceSums' /\ CuesTold' /\ ScreenFollowsVoice'
  BY <1>1 DEF VoiceSums, CuesTold, ScreenFollowsVoice, NoneShort
<1>8. GateAgrees'
  BY <1>1, <1>3, <1>4 DEF GateAgrees
<1> QED
  BY <1>5, <1>6, <1>7, <1>8

LEMMA VideoInvHolds == VideoSpec => []VideoInv
<1>1. VideoInv /\ [VideoNext]_videoVars => VideoInv'
  <2> SUFFICES ASSUME VideoInv, [VideoNext]_videoVars PROVE VideoInv'
    OBVIOUS
  <2>1. ASSUME NEW shape \in Shapes, NEW n \in 0..(MaxSlides + 1),
               NEW titles \in [1..n -> BOOLEAN], Parse(shape, titles)
        PROVE  VideoInv'
    BY <2>1, ParseKeeps, SamplesAssumption
  <2>2. CASE UNCHANGED videoVars
    BY <2>2 DEF videoVars, VideoInv, VideoTypeOK, StageInv, Ratio, Total, VoiceSums, CuesTold,
                ScreenFollowsVoice, NoneShort, GateAgrees
  <2> QED
    BY <2>1, <2>2, SpeakKeeps, AdmitKeeps, SegmentKeeps, CueKeeps, RaisesKeeps, CheckKeeps
       DEF VideoNext
<1> QED
  BY <1>1, VideoStart, PTL DEF VideoSpec

LEMMA TimesAreTold == ASSUME VideoInv PROVE SubtitlesMeet
<1> SUFFICES ASSUME NEW n \in 1..Len(cues)
             PROVE  /\ n > 1 => cues[n].start = cues[n - 1].end
                    /\ cues[n].start <= cues[n].end
                    /\ 2 * Distance(cues[n].start * PerCenti, Until(spoken, n - 1)) <= PerCenti
                    /\ 2 * Distance(cues[n].end * PerCenti, spoken[n]) <= PerCenti
  BY DEF SubtitlesMeet
<1> USE DEF VideoInv
<1>1. /\ spoken \in Seq(Nat) /\ wavs \in Seq(Wavs) /\ Len(cues) \in Nat
      /\ Len(spoken) = Len(wavs) /\ n \in 1..Len(wavs) /\ Len(wavs) \in Nat
  <2>1. Len(cues) \in Nat /\ Len(screenAt) \in Nat /\ Len(wavs) \in Nat
    <3>1. /\ cues \in Seq([start : Nat, end : Nat]) /\ screenAt \in Seq(Nat)
          /\ wavs \in Seq(Wavs)
      BY DEF VideoTypeOK
    <3> QED
      BY <3>1, LenProperties
  <2>2. Len(cues) <= Len(screenAt) /\ Len(screenAt) <= Len(wavs)
    BY DEF VideoTypeOK
  <2> QED
    BY <2>1, <2>2 DEF VideoTypeOK
<1>2. /\ cues[n].start = Printed(Until(spoken, n - 1))
      /\ cues[n].end = Printed(spoken[n])
  BY DEF CuesTold
<1>3. Until(spoken, n - 1) \in Nat /\ spoken[n] \in Nat
  BY <1>1, UntilTyped
<1>4. Until(spoken, n - 1) <= spoken[n]
  <2>1. wavs[n] \in Wavs
    BY <1>1
  <2>2. wavs[n].len \in Nat
    BY <2>1, LengthTyped
  <2> QED
    BY <1>1, <1>3, <2>2 DEF VoiceSums
<1>5. n > 1 => cues[n].start = cues[n - 1].end
  <2> SUFFICES ASSUME n > 1 PROVE cues[n].start = cues[n - 1].end
    OBVIOUS
  <2>1. n - 1 \in 1..Len(cues) /\ n - 1 # 0
    BY <1>1
  <2> QED
    BY <1>2, <2>1 DEF CuesTold, Until
<1> QED
  BY <1>2, <1>3, <1>4, <1>5, RoundedNear, RoundedMonotone, SamplesAssumption DEF Printed

(* Screen and voice are never more than half a frame a slide apart, the    *)
(* subtitles leave no gap and follow the narration to half a hundredth of  *)
(* a second however many went before, and the gate refuses no video that   *)
(* the renderer admits but for its sound and its size: for all lengths,    *)
(* frame rates and limits (renderer.py:8-10, subtitles.py:29,              *)
(* quality.py:53-99).                                                      *)
THEOREM VideoKeepsInStep == VideoSpec => []KeepsInStep
<1>1. VideoInv => KeepsInStep
  BY TimesAreTold DEF VideoInv, KeepsInStep
<1> QED
  BY <1>1, VideoInvHolds, PTL

-----------------------------------------------------------------------------
(* Induction over numbers                                                  *)

LEMMA Least ==
  ASSUME NEW T \in SUBSET Nat, T # {}
  PROVE  \E n \in T : \A m \in T : n <= m
<1> DEFINE R == OpToRel(<, Nat)
<1>1. IsWellFoundedOn(R, Nat)
  BY NatLessThanWellFounded
<1> HIDE DEF R
<1>2. PICK n \in T : \A m \in T : <<m, n>> \notin R
  BY <1>1, WFMin
<1>3. ASSUME NEW m \in T PROVE n <= m
  <2>1. m \in Nat /\ n \in Nat /\ <<m, n>> \notin R
    BY <1>2
  <2>2. ~(m < n)
    BY <2>1 DEF R, OpToRel
  <2> QED
    BY <2>1, <2>2
<1> QED
  BY <1>3

LEMMA Counting ==
  ASSUME NEW A, 0 \in A, \A n \in Nat : n \in A => n + 1 \in A
  PROVE  Nat \subseteq A
<1> SUFFICES ASSUME Nat \ A # {} PROVE FALSE
  OBVIOUS
<1>1. PICK n \in Nat \ A : \A m \in Nat \ A : n <= m
  BY Least
<1>2. n - 1 \in Nat /\ n - 1 \in A
  BY <1>1
<1> QED
  BY <1>2

LEMMA MaxIs ==
  ASSUME NEW n \in Nat, NEW s \in SUBSET (1..n), s # {}
  PROVE  Max(s) \in s /\ \A y \in s : y <= Max(s)
<1> DEFINE T == {n - y : y \in s}
<1>0. \A y \in s : y \in 1..n /\ n - y \in Nat
  OBVIOUS
<1>1. T \in SUBSET Nat /\ T # {}
  BY <1>0
<1>2. PICK t \in T : \A u \in T : t <= u
  BY <1>1, Least
<1>3. PICK x \in s : t = n - x
  BY <1>2
<1>4. ASSUME NEW y \in s PROVE x >= y /\ y <= x
  <2>1. n - x <= n - y
    BY <1>2, <1>3
  <2> QED
    BY <1>0, <2>1
<1> QED
  BY <1>4 DEF Max

LEMMA MaxOfInterval ==
  ASSUME NEW n \in Nat \ {0}
  PROVE  Max(1..n) = n /\ (1..n) \ {n} = 1..(n - 1) /\ 1..n # {}
<1>1. 1..n # {} /\ n \in 1..n
  OBVIOUS
<1>2. Max(1..n) \in 1..n /\ n <= Max(1..n)
  BY <1>1, MaxIs
<1>3. Max(1..n) = n
  BY <1>2
<1> QED
  BY <1>1, <1>3

-----------------------------------------------------------------------------
(* Alerts: how long the lines of a message are together                    *)

Line  == [what : {"class", "cause", "raw", "value"}, len : Nat]
Lines == Seq(Line)

(* What FoldLeft adds up, with a newline after every line, is a function   *)
(* of the sets of indexes.                                                 *)
Widened(lines, s, g) == IF s = {} THEN 0
                        ELSE LET x == Max(s) IN g[s \ {x}] + lines[x].len + 1
IsWidth(g, lines) == g = [s \in SUBSET (DOMAIN lines) |-> Widened(lines, s, g)]
Width(lines) == FoldLeft(LAMBDA sum, line : sum + line.len + 1, 0, lines)

LEMMA WidthExists ==
  ASSUME NEW lines, NEW k \in Nat
  PROVE  \E g : g = [s \in SUBSET (1..k) |-> Widened(lines, s, g)]
<1> DEFINE A == {n \in Nat : \E g : g = [s \in SUBSET (1..n) |-> Widened(lines, s, g)]}
<1>1. 0 \in A
  <2> DEFINE g == [s \in SUBSET (1..0) |-> 0]
  <2>1. g = [s \in SUBSET (1..0) |-> Widened(lines, s, g)]
    BY DEF Widened
  <2> QED
    BY <2>1
<1>2. ASSUME NEW n \in Nat, n \in A PROVE n + 1 \in A
  <2>1. PICK g : g = [s \in SUBSET (1..n) |-> Widened(lines, s, g)]
    BY <1>2
  <2> DEFINE h == [s \in SUBSET (1..(n + 1)) |-> Widened(lines, s, g)]
  <2>2. ASSUME NEW s \in SUBSET (1..(n + 1)), s # {}
        PROVE  s \ {Max(s)} \in SUBSET (1..n)
    <3>1. Max(s) \in s /\ \A y \in s : y <= Max(s)
      <4>1. n + 1 \in Nat
        OBVIOUS
      <4> QED
        BY <2>2, <4>1, MaxIs
    <3> HIDE DEF h
    <3> SUFFICES ASSUME NEW y \in s, y # Max(s) PROVE y \in 1..n
      OBVIOUS
    <3>2. y \in 1..(n + 1) /\ Max(s) \in 1..(n + 1) /\ y <= Max(s)
      BY <3>1
    <3> QED
      BY <3>2
  <2>3. \A s \in SUBSET (1..n) : h[s] = g[s]
    BY <2>1
  <2>4. ASSUME NEW s \in SUBSET (1..(n + 1))
        PROVE  Widened(lines, s, g) = Widened(lines, s, h)
    <3> HIDE DEF h
    <3> QED
      BY <2>2, <2>3 DEF Widened
  <2>5. h = [s \in SUBSET (1..(n + 1)) |-> Widened(lines, s, h)]
    BY <2>4
  <2> HIDE DEF h
  <2> QED
    BY <2>5
<1> HIDE DEF A
<1>3. Nat \subseteq A
  BY <1>1, <1>2, Counting
<1> QED
  BY <1>3 DEF A

LEMMA WidthIs ==
  ASSUME NEW lines \in Lines
  PROVE  \E g : IsWidth(g, lines) /\ Width(lines) = g[1..Len(lines)]
<1>1. Width(lines) = (CHOOSE g : IsWidth(g, lines))[DOMAIN lines]
  BY DEF Width, FoldLeft, MapThenFoldSet, IsWidth, Widened
<1>2. DOMAIN lines = 1..Len(lines) /\ Len(lines) \in Nat
  BY LenProperties DEF Lines
<1>3. \E g : IsWidth(g, lines)
  <2>1. \E g : g = [s \in SUBSET (1..Len(lines)) |-> Widened(lines, s, g)]
    BY <1>2, WidthExists
  <2> QED
    BY <1>2, <2>1 DEF IsWidth
<1> QED
  BY <1>1, <1>2, <1>3

LEMMA WidthSteps ==
  ASSUME NEW lines \in Lines, NEW g, IsWidth(g, lines)
  PROVE  /\ g[1..0] = 0
         /\ \A n \in 1..Len(lines) : g[1..n] = g[1..(n - 1)] + lines[n].len + 1
<1>1. DOMAIN lines = 1..Len(lines) /\ Len(lines) \in Nat
  BY LenProperties DEF Lines
<1>2. g[1..0] = 0
  BY <1>1 DEF IsWidth, Widened
<1>3. ASSUME NEW n \in 1..Len(lines) PROVE g[1..n] = g[1..(n - 1)] + lines[n].len + 1
  <2>1. Max(1..n) = n /\ (1..n) \ {n} = 1..(n - 1) /\ 1..n # {}
    BY <1>1, MaxOfInterval
  <2>2. 1..n \in SUBSET (DOMAIN lines)
    BY <1>1
  <2>3. g[1..n] = Widened(lines, 1..n, g)
    BY <2>2 DEF IsWidth
  <2> QED
    BY <2>1, <2>3 DEF Widened
<1> QED
  BY <1>2, <1>3

LEMMA WidthNone == Width(<<>>) = 0
<1>1. <<>> \in Lines /\ Len(<<>>) = 0
  BY DEF Lines
<1> QED
  BY <1>1, WidthIs, WidthSteps

LEMMA WidthAppend ==
  ASSUME NEW lines \in Lines, NEW e \in Line
  PROVE  /\ Width(lines) \in Nat
         /\ Width(Append(lines, e)) = Width(lines) + e.len + 1
<1> DEFINE more == Append(lines, e)
           l == Len(lines)
<1>1. /\ more \in Lines /\ Len(more) = l + 1 /\ l \in Nat /\ more[l + 1] = e
      /\ \A n \in 1..l : more[n] = lines[n] /\ lines[n] \in Line
  BY DEF Lines
<1> HIDE DEF more
<1>2. PICK g : IsWidth(g, lines) /\ Width(lines) = g[1..l]
  BY WidthIs
<1>3. PICK h : IsWidth(h, more) /\ Width(more) = h[1..(l + 1)]
  BY <1>1, WidthIs
<1>4. /\ g[1..0] = 0 /\ h[1..0] = 0
      /\ \A n \in 1..l : g[1..n] = g[1..(n - 1)] + lines[n].len + 1
      /\ \A n \in 1..(l + 1) : h[1..n] = h[1..(n - 1)] + more[n].len + 1
  BY <1>1, <1>2, <1>3, WidthSteps
<1> DEFINE A == {n \in Nat : n <= l => g[1..n] \in Nat /\ h[1..n] = g[1..n]}
<1>5. 0 \in A
  BY <1>4
<1>6. ASSUME NEW n \in Nat, n \in A PROVE n + 1 \in A
  <2> SUFFICES ASSUME n + 1 <= l PROVE g[1..(n + 1)] \in Nat /\ h[1..(n + 1)] = g[1..(n + 1)]
    OBVIOUS
  <2>1. g[1..n] \in Nat /\ h[1..n] = g[1..n]
    BY <1>1, <1>6
  <2>2. n + 1 \in 1..l /\ n + 1 \in 1..(l + 1) /\ (n + 1) - 1 = n
    BY <1>1
  <2>3. /\ g[1..(n + 1)] = g[1..n] + lines[n + 1].len + 1
        /\ h[1..(n + 1)] = h[1..n] + more[n + 1].len + 1
    BY <1>4, <2>2
  <2>4. more[n + 1] = lines[n + 1] /\ lines[n + 1].len \in Nat
    BY <1>1, <2>2 DEF Line
  <2> QED
    BY <2>1, <2>3, <2>4
<1> HIDE DEF A
<1>7. l \in A
  BY <1>1, <1>5, <1>6, Counting
<1>8. g[1..l] \in Nat /\ h[1..l] = g[1..l]
  BY <1>1, <1>7 DEF A
<1>9. h[1..(l + 1)] = h[1..l] + e.len + 1
  BY <1>1, <1>4
<1> QED
  BY <1>2, <1>3, <1>8, <1>9 DEF more

(* The end of a line, and those of the lines before it.                    *)
LEMMA EndsStep ==
  ASSUME NEW lines \in Lines, NEW n \in 0..Len(lines)
  PROVE  /\ EndOf(lines, n) \in Int
         /\ n < Len(lines) => EndOf(lines, n + 1) = EndOf(lines, n) + lines[n + 1].len + 1
         /\ EndOf(lines, n) = Width(SubSeq(lines, 1, n)) - 1
<1>1. \A m : EndOf(lines, m) = Width(SubSeq(lines, 1, m)) - 1
  BY DEF EndOf, Width
<1>2. SubSeq(lines, 1, n) \in Lines /\ Len(lines) \in Nat
  BY DEF Lines
<1>3. Width(SubSeq(lines, 1, n)) \in Nat
  <2>1. [what |-> "class", len |-> 0] \in Line
    BY DEF Line
  <2> QED
    BY <1>2, <2>1, WidthAppend
<1>4. ASSUME n < Len(lines)
      PROVE  EndOf(lines, n + 1) = EndOf(lines, n) + lines[n + 1].len + 1
  <2>1. lines[n + 1] \in Line
    BY <1>2, <1>4 DEF Lines
  <2>2. SubSeq(lines, 1, n + 1) = Append(SubSeq(lines, 1, n), lines[n + 1])
    BY <1>2, <1>4 DEF Lines
  <2>3. Width(SubSeq(lines, 1, n + 1)) = Width(SubSeq(lines, 1, n)) + lines[n + 1].len + 1
    BY <1>2, <2>1, <2>2, WidthAppend
  <2>4. lines[n + 1].len \in Nat
    BY <2>1 DEF Line
  <2> QED
    BY <1>1, <1>3, <2>3, <2>4
<1> QED
  BY <1>1, <1>3, <1>4

LEMMA EndsGrow ==
  ASSUME NEW lines \in Lines, NEW n \in 0..Len(lines)
  PROVE  EndOf(lines, n) <= EndOf(lines, Len(lines))
<1> DEFINE l == Len(lines)
           A == {k \in Nat : n + k <= l => EndOf(lines, n) <= EndOf(lines, n + k)}
<1>1. l \in Nat /\ n \in Nat /\ n <= l
  BY DEF Lines
<1>2. 0 \in A
  BY EndsStep, <1>1
<1>3. ASSUME NEW k \in Nat, k \in A PROVE k + 1 \in A
  <2> SUFFICES ASSUME n + (k + 1) <= l PROVE EndOf(lines, n) <= EndOf(lines, n + (k + 1))
    OBVIOUS
  <2>1. n + k \in 0..l /\ n + k < l /\ n + (k + 1) = (n + k) + 1
    BY <1>1
  <2>2. /\ EndOf(lines, n) \in Int /\ EndOf(lines, n + k) \in Int
        /\ EndOf(lines, (n + k) + 1) = EndOf(lines, n + k) + lines[(n + k) + 1].len + 1
    BY <2>1, EndsStep
  <2>3. lines[(n + k) + 1].len \in Nat
    <3>1. lines[(n + k) + 1] \in Line
      BY <1>1, <2>1 DEF Lines
    <3> QED
      BY <3>1 DEF Line
  <2>4. EndOf(lines, n) <= EndOf(lines, n + k)
    BY <1>1, <1>3, <2>1
  <2> QED
    BY <2>1, <2>2, <2>3, <2>4
<1> HIDE DEF A
<1>4. l - n \in A
  BY <1>1, <1>2, <1>3, Counting
<1> QED
  BY <1>1, <1>4 DEF A

(* A prefix that is short enough to be kept whole.                         *)
Begins(s, lines) == Len(s) <= Len(lines) /\ \A i \in 1..Len(s) : lines[i] = s[i]

LEMMA BeginsConcat ==
  ASSUME NEW s \in Lines, NEW t \in Lines
  PROVE  s \o t \in Lines /\ Begins(s, s \o t)
BY DEF Lines, Begins

LEMMA BeginsTrans ==
  ASSUME NEW s \in Lines, NEW t \in Lines, NEW u \in Lines, Begins(s, t), Begins(t, u)
  PROVE  Begins(s, u)
<1>1. Len(s) \in Nat /\ Len(t) \in Nat /\ Len(u) \in Nat
  BY DEF Lines
<1> QED
  BY <1>1 DEF Begins

LEMMA BeginsEnd ==
  ASSUME NEW s \in Lines, NEW lines \in Lines, Begins(s, lines)
  PROVE  EndOf(lines, Len(s)) = Width(s) - 1
<1>1. Len(s) \in 0..Len(lines) /\ Len(s) \in Nat /\ Len(lines) \in Nat
  BY DEF Lines, Begins
<1>2. SubSeq(lines, 1, Len(s)) = s
  BY <1>1 DEF Lines, Begins
<1> QED
  BY <1>1, <1>2, EndsStep

LEMMA KeptWhole ==
  ASSUME NEW s \in Lines, NEW lines \in Lines, Begins(s, lines), s # <<>>, Width(s) < DescMax
  PROVE  LET all  == EndOf(lines, Len(lines))
             kept == IF all <= DescMax THEN all ELSE DescMax - 1
         IN  s[Len(s)].what \in
               {lines[n].what : n \in {m \in DOMAIN lines : EndOf(lines, m) <= kept}}
<1> DEFINE n == Len(s)
           all == EndOf(lines, Len(lines))
<1>1. n \in 1..Len(lines) /\ DOMAIN lines = 1..Len(lines) /\ n \in 0..Len(lines)
  BY DEF Lines, Begins
<1>2. lines[n] = s[n]
  BY <1>1 DEF Begins
<1>3. EndOf(lines, n) = Width(s) - 1 /\ EndOf(lines, n) <= all
  BY <1>1, BeginsEnd, EndsGrow
<1>4. Width(s) \in Nat /\ DescMax \in Nat
  <2>1. [what |-> "class", len |-> 0] \in Line
    BY DEF Line
  <2> QED
    BY <2>1, WidthAppend, LengthsAssumption
<1> HIDE DEF all
<1>5. EndOf(lines, n) <= IF all <= DescMax THEN all ELSE DescMax - 1
  BY <1>3, <1>4
<1> HIDE DEF n
<1> QED
  BY <1>1, <1>2, <1>5 DEF n, all

LEMMA LineAdds ==
  ASSUME NEW s \in Lines, NEW what \in {"class", "cause", "raw"}, NEW len \in Nat
  PROVE  LET t == s \o LineIf(what, len) IN
         /\ t \in Lines /\ Begins(s, t)
         /\ Width(t) <= Width(s) + Label + len + 1
         /\ len # 0 => t # <<>> /\ t[Len(t)].what = what
<1> DEFINE e == [what |-> what, len |-> Label + len]
<1>1. e \in Line /\ e.what = what /\ e.len = Label + len /\ Label \in Nat
  BY LengthsAssumption DEF Line
<1> HIDE DEF e
<1>2. Width(s) \in Nat /\ Width(Append(s, e)) = Width(s) + e.len + 1
  BY <1>1, WidthAppend
<1>3. CASE len = 0
  <2>1. s \o LineIf(what, len) = s
    BY <1>3 DEF LineIf, Lines
  <2>2. Begins(s, s)
    BY DEF Begins, Lines
  <2>3. Width(s) <= Width(s) + Label + len + 1
    BY <1>1, <1>2, <1>3
  <2> HIDE DEF Lines
  <2> QED
    BY <1>3, <2>1, <2>2, <2>3
<1>4. CASE len # 0
  <2>1. s \o LineIf(what, len) = Append(s, e)
    BY <1>4 DEF LineIf, Lines, e
  <2>2. /\ Append(s, e) \in Lines /\ Begins(s, Append(s, e))
        /\ Append(s, e) # <<>> /\ Append(s, e)[Len(Append(s, e))] = e
    <3> DEFINE t == Append(s, e)
    <3>1. /\ t \in Seq(Line) /\ Len(t) = Len(s) + 1 /\ Len(s) \in Nat
          /\ t[Len(s) + 1] = e /\ \A i \in 1..Len(s) : t[i] = s[i]
      <4> HIDE DEF Line
      <4> QED
        BY <1>1, AppendProperties, LenProperties DEF Lines
    <3> HIDE DEF t
    <3>2. Len(s) <= Len(t) /\ t # <<>>
      BY <3>1
    <3>3. t \in Lines /\ Begins(s, t) /\ t # <<>> /\ t[Len(t)] = e
      BY <3>1, <3>2 DEF Lines, Begins
    <3> QED
      BY <3>3 DEF t
  <2>3. Width(Append(s, e)) <= Width(s) + Label + len + 1
    BY <1>1, <1>2
  <2> QED
    BY <1>1, <2>1, <2>2, <2>3
<1> QED
  BY <1>3, <1>4

(* Three lines and what they add to each other.                            *)
LEMMA PriorityAdds ==
  ASSUME NEW class \in Nat, NEW cause \in Nat, NEW raw \in Nat,
         NEW w1 \in Nat, NEW w2 \in Nat, NEW w3 \in Nat,
         3 * (Label + 1) + class + CauseMax + RawMax < DescMax,
         cause <= CauseMax, raw <= RawMax, w1 <= Label + class + 1,
         w2 <= w1 + Label + cause + 1, w3 <= w2 + Label + raw + 1
  PROVE  w1 < DescMax /\ w2 < DescMax /\ w3 < DescMax
<1>1. Label \in Nat /\ CauseMax \in Nat /\ RawMax \in Nat /\ DescMax \in Nat
  BY LengthsAssumption
<1> QED
  BY <1>1

(* Whatever an alert holds, its message is short enough, and the class,    *)
(* the cause and the raw error are in it whole.                            *)
LEMMA MessageIsWhole ==
  ASSUME NEW a, a.class \in ClassLengths \cup {0}, a.raw \in Nat, a.cause \in 0..CauseMax,
         a.context \in Seq(Nat)
  PROVE  ShortAndWhole(a, Payload(a))
<1> DEFINE raw == Truncated(a.raw, RawMax)
           s1 == LineIf("class", a.class)
           s2 == s1 \o LineIf("cause", a.cause)
           s3 == s2 \o LineIf("raw", raw)
           vals == [k \in DOMAIN a.context |->
                      [what |-> "value", len |-> Label + Truncated(a.context[k], ValueMax)]]
           lines == s3 \o vals
           all == EndOf(lines, Len(lines))
           kept == IF all <= DescMax THEN all ELSE DescMax - 1
           whole == {lines[n].what : n \in {m \in DOMAIN lines : EndOf(lines, m) <= kept}}
<1>1. /\ Label \in Nat /\ CauseMax \in Nat \ {0} /\ RawMax \in Nat \ {0}
      /\ ValueMax \in Nat \ {0} /\ DescMax \in Nat \ {0}
      /\ a.class \in Nat /\ a.cause \in Nat
      /\ 3 * (Label + 1) + a.class + CauseMax + RawMax < DescMax
  <2>1. Label \in Nat /\ ClassLengths \subseteq Nat
    BY LengthsAssumption
  <2>2. /\ CauseMax \in Nat \ {0} /\ RawMax \in Nat \ {0}
        /\ ValueMax \in Nat \ {0} /\ DescMax \in Nat \ {0}
    BY LengthsAssumption
  <2>3. a.class \in Nat /\ a.cause \in Nat
    <3>1. a.class \in Nat
      <4>1. 0 \in Nat
        OBVIOUS
      <4> QED
        BY <2>1, <4>1, Zenon
    <3>2. 0..CauseMax \subseteq Nat
      BY <2>2
    <3> QED
      BY <3>1, <3>2
  <2>4. 3 * (Label + 1) + a.class + CauseMax + RawMax < DescMax
    BY PriorityFits
  <2> QED
    BY <2>1, <2>2, <2>3, <2>4
<1>2. raw \in Nat /\ raw <= RawMax /\ (a.raw # 0 => raw # 0)
  BY <1>1 DEF Truncated
<1>3. lines = MessageLines(a)
  BY DEF MessageLines
<1>4. /\ Payload(a).whole = whole
      /\ Payload(a).len = IF lines = <<>> THEN 0 ELSE Truncated(all, DescMax)
  BY <1>3 DEF Payload
<1> HIDE DEF raw
<1>5. <<>> \in Lines /\ Width(<<>>) = 0 /\ s1 = <<>> \o LineIf("class", a.class)
  BY WidthNone DEF Lines, LineIf
<1>6. /\ s1 \in Lines /\ Width(s1) <= Label + a.class + 1
      /\ a.class # 0 => s1 # <<>> /\ s1[Len(s1)].what = "class"
  <2> HIDE DEF s1
  <2>1. LET t == <<>> \o LineIf("class", a.class) IN
        /\ t \in Lines /\ Width(t) <= Width(<<>>) + Label + a.class + 1
        /\ a.class # 0 => t # <<>> /\ t[Len(t)].what = "class"
    BY <1>1, <1>5, LineAdds, ZenonT(30)
  <2>2. Width(<<>>) + Label + a.class + 1 = Label + a.class + 1
    BY <1>1, <1>5
  <2> QED
    BY <1>5, <2>1, <2>2
<1> HIDE DEF s1
<1>7. /\ s2 \in Lines /\ Begins(s1, s2) /\ Width(s2) <= Width(s1) + Label + a.cause + 1
      /\ a.cause # 0 => s2 # <<>> /\ s2[Len(s2)].what = "cause"
  BY <1>1, <1>6, LineAdds
<1> HIDE DEF s2
<1>8. /\ s3 \in Lines /\ Begins(s2, s3) /\ Width(s3) <= Width(s2) + Label + raw + 1
      /\ a.raw # 0 => s3 # <<>> /\ s3[Len(s3)].what = "raw"
  BY <1>2, <1>7, LineAdds
<1> HIDE DEF s3
<1>9. vals \in Lines
  <2>1. \A k \in DOMAIN a.context : Truncated(a.context[k], ValueMax) \in Nat
    BY <1>1 DEF Truncated
  <2>2. \A k \in DOMAIN a.context : vals[k] \in Line
    <3>1. \A n \in Nat : [what |-> "value", len |-> Label + n] \in Line
      BY <1>1 DEF Line
    <3> QED
      BY <2>1, <3>1
  <2>3. DOMAIN a.context = 1..Len(a.context) /\ Len(a.context) \in Nat
    BY LenProperties
  <2> HIDE DEF Line
  <2>4. vals = [k \in 1..Len(a.context) |-> vals[k]]
    BY <2>3
  <2> HIDE DEF vals
  <2>5. vals \in [1..Len(a.context) -> Line]
    BY <2>2, <2>3, <2>4
  <2>6. \E n \in Nat : vals \in [1..n -> Line]
    BY <2>3, <2>5
  <2>7. vals \in Seq(Line)
    <3>1. Seq(Line) = UNION {[1..n -> Line] : n \in Nat}
      BY SeqDef, Zenon
    <3> QED
      BY <2>6, <3>1
  <2> QED
    BY <2>7 DEF Lines
<1> HIDE DEF vals
<1>10. lines \in Lines /\ Begins(s3, lines)
  BY <1>8, <1>9, BeginsConcat
<1> HIDE DEF lines
<1>11. Begins(s2, lines) /\ Begins(s1, lines)
  BY <1>6, <1>7, <1>8, <1>10, BeginsTrans
<1>12. \A s \in Lines : Width(s) \in Nat
  <2>1. [what |-> "class", len |-> 0] \in Line
    BY DEF Line
  <2> QED
    BY <2>1, WidthAppend
<1>13. Width(s1) < DescMax /\ Width(s2) < DescMax /\ Width(s3) < DescMax
  <2>1. Width(s1) \in Nat /\ Width(s2) \in Nat /\ Width(s3) \in Nat
    BY <1>6, <1>7, <1>8, <1>12
  <2>2. /\ Width(s1) <= Label + a.class + 1
        /\ Width(s2) <= Width(s1) + Label + a.cause + 1
        /\ Width(s3) <= Width(s2) + Label + raw + 1
    BY <1>6, <1>7, <1>8
  <2>3. a.cause <= CauseMax /\ raw \in Nat /\ raw <= RawMax
    <3>1. \A x \in 0..CauseMax : x <= CauseMax
      BY <1>1
    <3> QED
      BY <1>2, <3>1
  <2> QED
    BY <1>1, <2>1, <2>2, <2>3, PriorityAdds
<1>14. \A s \in Lines : Begins(s, lines) /\ s # <<>> /\ Width(s) < DescMax =>
         s[Len(s)].what \in whole
  BY <1>10, KeptWhole
<1>15. Payload(a).len <= DescMax
  <2>1. all \in Int
    <3>1. Len(lines) \in 0..Len(lines)
      BY <1>10 DEF Lines
    <3> QED
      BY <1>10, <3>1, EndsStep
  <2> HIDE DEF all
  <2> QED
    BY <1>1, <1>4, <2>1 DEF Truncated
<1> HIDE DEF whole
<1>16. /\ a.class # 0 => "class" \in whole
       /\ a.cause # 0 => "cause" \in whole
       /\ a.raw # 0 => "raw" \in whole
  BY <1>6, <1>7, <1>8, <1>10, <1>11, <1>13, <1>14
<1> QED
  BY <1>4, <1>15, <1>16 DEF ShortAndWhole

(* How far the dispatch is, and what the row and the message tell then.    *)
AlertInv ==
  /\ DOMAIN alert = DOMAIN Blank /\ alert = [x \in DOMAIN alert |-> alert[x]]
  /\ alert.class \in ClassLengths \cup {0} /\ alert.raw \in Nat
  /\ alert.cause \in 0..CauseMax /\ alert.context \in Seq(Nat)
  /\ result \in [recorded : BOOLEAN, delivered : BOOLEAN, analyzed : BOOLEAN]
  /\ dispatch \in {"idle", "analyze"} => alert.cause = 0 /\ result = NoFlags
  /\ dispatch \in {"idle", "analyze", "record"} => row = <<>> /\ ~result.recorded
  /\ dispatch \in {"idle", "analyze", "record", "send"} => message = <<>> /\ ~result.delivered
  /\ row = <<>> \/ row = <<alert>>
  /\ message = <<>> \/ message = <<Payload(alert)>>
  /\ result.recorded => row # <<>>
  /\ result.delivered => message # <<>>
  /\ result.analyzed <=> alert.cause # 0

LEMMA AlertStep == AlertInv /\ [AlertsNext]_alertVars => AlertInv'
<1> SUFFICES ASSUME AlertInv, [AlertsNext]_alertVars PROVE AlertInv'
  OBVIOUS
<1> USE DEF AlertInv
<1>1. ASSUME NEW severity \in Severities, NEW class \in ClassLengths \cup {0},
             NEW raw \in TextLengths \cup {0}, NEW context \in Contexts,
             RaiseAlert(severity, class, raw, context)
      PROVE  AlertInv'
  <2>1. context \in Seq(Nat)
    <3>1. PICK n \in 0..MaxValues : context \in [1..n -> TextLengths]
      BY DEF Contexts
    <3>2. context \in [1..n -> Nat] /\ n \in Nat
      BY <3>1, LengthsAssumption
    <3> QED
      BY <3>2, SeqDef
  <2>2. raw \in Nat
    BY LengthsAssumption
  <2>3. 0 \in 0..CauseMax
    BY LengthsAssumption
  <2> QED
    BY <1>1, <2>1, <2>2, <2>3 DEF RaiseAlert, Blank, NoFlags
<1>2. ASSUME NEW answer \in TextLengths, Analyze(answer) PROVE AlertInv'
  <2>1. /\ Truncated(answer, CauseMax) \in 0..CauseMax
        /\ Truncated(answer, CauseMax) = 0 <=> answer = 0
    BY LengthsAssumption DEF Truncated
  <2>2. /\ alert' = [alert EXCEPT !.cause = Truncated(answer, CauseMax)]
        /\ result' = [result EXCEPT !.analyzed = (answer # 0)]
        /\ dispatch = "analyze" /\ dispatch' = "record" /\ UNCHANGED <<row, message>>
    BY <1>2 DEF Analyze
  <2> QED
    BY <2>1, <2>2 DEF Blank, NoFlags
<1>3. CASE NotAnalyzed
  BY <1>3 DEF NotAnalyzed, NoFlags
<1>4. ASSUME NEW stored \in BOOLEAN, NEW replied \in BOOLEAN, Record(stored, replied)
      PROVE  AlertInv'
  <2>1. /\ dispatch = "record" /\ dispatch' = "send" /\ UNCHANGED <<alert, message>>
        /\ replied => stored
        /\ row' = IF stored THEN <<alert>> ELSE <<>>
        /\ result' = [result EXCEPT !.recorded = replied]
    BY <1>4 DEF Record
  <2> QED
    BY <2>1
<1>5. ASSUME NEW arrived \in BOOLEAN, NEW accepted \in BOOLEAN, Send(arrived, accepted)
      PROVE  AlertInv'
  <2>1. /\ dispatch = "send" /\ dispatch' = "returned" /\ UNCHANGED <<alert, row>>
        /\ accepted => arrived
        /\ message' = IF arrived THEN <<Payload(alert)>> ELSE <<>>
        /\ result' = [result EXCEPT !.delivered = accepted]
    BY <1>5 DEF Send
  <2>2. Payload(alert)' = Payload(alert)
    BY <2>1
  <2> QED
    BY <2>1, <2>2
<1>6. CASE NoSender \/ AlertLost \/ UNCHANGED alertVars
  <2>1. UNCHANGED <<alert, row, message, result>>
    BY <1>6 DEF NoSender, AlertLost, alertVars
  <2>2. dispatch' \in {"returned", "died"} \/ UNCHANGED dispatch
    BY <1>6 DEF NoSender, AlertLost, alertVars
  <2> QED
    BY <2>1, <2>2
<1> QED
  BY <1>1, <1>2, <1>3, <1>4, <1>5, <1>6 DEF AlertsNext

(* The types of an alert and of its message.                               *)
AlertTyped ==
  /\ alert \in AlertSet
  /\ dispatch \in {"idle", "analyze", "record", "send", "returned", "died"}

LEMMA LinesEnd ==
  ASSUME NEW lines \in Lines, lines # <<>> PROVE EndOf(lines, Len(lines)) \in Nat
<1>1. Len(lines) \in Nat \ {0} /\ Len(lines) \in 0..Len(lines)
  BY DEF Lines
<1>2. 0 \in 0..Len(lines) /\ 1 \in 0..Len(lines) /\ 0 < Len(lines) /\ 0 + 1 = 1
  BY <1>1
<1>3. SubSeq(lines, 1, 0) = <<>>
  BY DEF Lines
<1>4. EndOf(lines, 0) = -1
  <2>1. EndOf(lines, 0) = Width(SubSeq(lines, 1, 0)) - 1
    BY <1>2, EndsStep
  <2>2. Width(SubSeq(lines, 1, 0)) = 0
    BY <1>3, WidthNone, Zenon
  <2> QED
    BY <2>1, <2>2
<1>5. EndOf(lines, 1) = EndOf(lines, 0) + lines[1].len + 1
  BY <1>2, EndsStep
<1>6. lines[1].len \in Nat
  <2>1. lines[1] \in Line
    BY <1>1 DEF Lines
  <2> QED
    BY <2>1 DEF Line
<1>7. EndOf(lines, 1) <= EndOf(lines, Len(lines)) /\ EndOf(lines, Len(lines)) \in Int
  BY <1>1, <1>2, EndsGrow, EndsStep
<1> QED
  BY <1>4, <1>5, <1>6, <1>7

LEMMA TruncatedTyped ==
  ASSUME NEW len \in Nat, NEW limit \in Nat PROVE Truncated(len, limit) \in Nat
BY DEF Truncated

LEMMA MessageTyped == ASSUME NEW a \in AlertSet PROVE MessageLines(a) \in Lines
<1> DEFINE s == LineIf("class", a.class) \o LineIf("cause", a.cause)
                  \o LineIf("raw", Truncated(a.raw, RawMax))
           vals == [k \in DOMAIN a.context |->
                      [what |-> "value", len |-> Label + Truncated(a.context[k], ValueMax)]]
<1>1. /\ Label \in Nat /\ ValueMax \in Nat /\ RawMax \in Nat
      /\ TextLengths \subseteq Nat /\ ClassLengths \subseteq Nat
  BY LengthsAssumption
<1>2. /\ a.class \in Nat /\ a.cause \in Nat /\ a.raw \in Nat
      /\ a.context \in Seq(TextLengths)
  <2>1. /\ a.class \in ClassLengths \cup {0} /\ a.raw \in TextLengths \cup {0}
        /\ a.cause \in Nat /\ a.context \in Seq(TextLengths)
    BY DEF AlertSet
  <2>2. \A n \in ClassLengths \cup {0} : n \in Nat
    BY <1>1
  <2>3. \A n \in TextLengths \cup {0} : n \in Nat
    BY <1>1
  <2> QED
    BY <2>1, <2>2, <2>3, Zenon
<1>3. \A what \in {"class", "cause", "raw"}, len \in Nat : LineIf(what, len) \in Lines
  <2>1. \A what \in {"class", "cause", "raw"}, len \in Nat :
          [what |-> what, len |-> Label + len] \in Line
    BY <1>1 DEF Line
  <2> HIDE DEF Line
  <2> QED
    BY <2>1 DEF LineIf, Lines
<1>4. s \in Lines
  <2>1. Truncated(a.raw, RawMax) \in Nat
    BY <1>1, <1>2, TruncatedTyped
  <2> QED
    BY <1>2, <1>3, <2>1, BeginsConcat
<1>5. vals \in Lines
  <2>1. \A k \in DOMAIN a.context : a.context[k] \in Nat
    <3>1. \A k \in DOMAIN a.context : a.context[k] \in TextLengths
      BY <1>2
    <3> QED
      BY <1>1, <3>1
  <2>2. \A k \in DOMAIN a.context : vals[k] \in Line
    <3>1. \A n \in Nat : [what |-> "value", len |-> Label + n] \in Line
      BY <1>1 DEF Line
    <3> QED
      BY <1>1, <2>1, <3>1, TruncatedTyped
  <2>3. DOMAIN a.context = 1..Len(a.context) /\ Len(a.context) \in Nat
    BY <1>2, LenProperties
  <2> HIDE DEF Line
  <2>4. vals = [k \in 1..Len(a.context) |-> vals[k]]
    BY <2>3
  <2> HIDE DEF vals
  <2>5. vals \in [1..Len(a.context) -> Line]
    BY <2>2, <2>3, <2>4
  <2> QED
    BY <2>3, <2>5, SeqDef DEF Lines
<1>6. MessageLines(a) = s \o vals
  BY DEF MessageLines
<1> HIDE DEF s, vals
<1> QED
  BY <1>4, <1>5, <1>6, BeginsConcat

LEMMA PayloadTyped ==
  ASSUME NEW a \in AlertSet
  PROVE  Payload(a) \in [len : Nat, whole : SUBSET {"class", "cause", "raw", "value"},
                         cause : Nat]
<1> DEFINE lines == MessageLines(a)
           all == EndOf(lines, Len(lines))
           kept == IF all <= DescMax THEN all ELSE DescMax - 1
           whole == {lines[n].what : n \in {m \in DOMAIN lines : EndOf(lines, m) <= kept}}
<1>1. lines \in Lines
  BY MessageTyped
<1>2. Payload(a) = [len |-> IF lines = <<>> THEN 0 ELSE Truncated(all, DescMax),
                    whole |-> whole, cause |-> a.cause]
  BY DEF Payload
<1>3. lines # <<>> => Truncated(all, DescMax) \in Nat
  BY <1>1, LinesEnd, TruncatedTyped, LengthsAssumption
<1>4. \A n \in DOMAIN lines : lines[n].what \in {"class", "cause", "raw", "value"}
  <2>1. \A n \in DOMAIN lines : lines[n] \in Line
    BY <1>1 DEF Lines
  <2> QED
    BY <2>1 DEF Line
<1> HIDE DEF lines, all, kept
<1>5. whole \in SUBSET {"class", "cause", "raw", "value"}
  BY <1>4
<1>6. a.cause \in Nat
  BY DEF AlertSet
<1> HIDE DEF whole
<1> QED
  BY <1>2, <1>3, <1>5, <1>6

LEMMA AlertsStart == AlertsInit => AlertInv /\ AlertTyped
<1>1. AlertsInit => AlertInv
  BY LengthsAssumption DEF AlertsInit, AlertInv, Blank, NoFlags
<1>2. AlertsInit => AlertTyped
  BY DEF AlertsInit, AlertTyped, AlertSet, Blank, Severities
<1> QED
  BY <1>1, <1>2

LEMMA AlertTypedStep == AlertTyped /\ [AlertsNext]_alertVars => AlertTyped'
<1> SUFFICES ASSUME AlertTyped, [AlertsNext]_alertVars PROVE AlertTyped'
  OBVIOUS
<1>1. ASSUME NEW severity \in Severities, NEW class \in ClassLengths \cup {0},
             NEW raw \in TextLengths \cup {0}, NEW context \in Contexts,
             RaiseAlert(severity, class, raw, context)
      PROVE  AlertTyped'
  <2>1. context \in Seq(TextLengths)
    <3>1. PICK n \in 0..MaxValues : context \in [1..n -> TextLengths]
      BY DEF Contexts
    <3> QED
      BY <3>1, SeqDef
  <2> QED
    BY <1>1, <2>1 DEF RaiseAlert, AlertTyped, AlertSet
<1>2. ASSUME NEW answer \in TextLengths, Analyze(answer) PROVE AlertTyped'
  <2>1. Truncated(answer, CauseMax) \in Nat
    BY LengthsAssumption, TruncatedTyped
  <2> QED
    BY <1>2, <2>1 DEF Analyze, AlertTyped, AlertSet
<1>3. CASE NotAnalyzed \/ NoSender \/ AlertLost \/ UNCHANGED alertVars
  BY <1>3 DEF NotAnalyzed, NoSender, AlertLost, alertVars, AlertTyped
<1>4. ASSUME NEW stored \in BOOLEAN, NEW replied \in BOOLEAN, Record(stored, replied)
      PROVE  AlertTyped'
  BY <1>4 DEF Record, AlertTyped
<1>5. ASSUME NEW arrived \in BOOLEAN, NEW accepted \in BOOLEAN, Send(arrived, accepted)
      PROVE  AlertTyped'
  BY <1>5 DEF Send, AlertTyped
<1> QED
  BY <1>1, <1>2, <1>3, <1>4, <1>5 DEF AlertsNext

LEMMA AlertsTyped == AlertInv /\ AlertTyped => AlertsTypeOK
<1> SUFFICES ASSUME AlertInv, AlertTyped PROVE AlertsTypeOK
  OBVIOUS
<1> DEFINE Told == [len : Nat, whole : SUBSET {"class", "cause", "raw", "value"}, cause : Nat]
<1>1. Payload(alert) \in Told
  BY PayloadTyped DEF AlertTyped
<1> HIDE DEF Told
<1>2. <<Payload(alert)>> \in Seq(Told) /\ Len(<<Payload(alert)>>) = 1
  BY <1>1
<1>3. <<>> \in Seq(Told) /\ <<>> \in Seq(AlertSet) /\ Len(<<>>) = 0
  OBVIOUS
<1>4. message \in Seq(Told) /\ Len(message) <= 1
  <2>1. message = <<>> \/ message = <<Payload(alert)>>
    BY DEF AlertInv
  <2>2. message = <<>> => Len(message) <= 1
    BY <1>3
  <2>3. message = <<Payload(alert)>> => Len(message) <= 1
    BY <1>2
  <2> QED
    BY <1>2, <1>3, <2>1, <2>2, <2>3, Zenon
<1>5. row \in Seq(AlertSet) /\ Len(row) <= 1
  <2>1. alert \in AlertSet /\ (row = <<>> \/ row = <<alert>>)
    BY DEF AlertInv, AlertTyped
  <2>2. <<alert>> \in Seq(AlertSet) /\ Len(<<alert>>) = 1
    BY <2>1
  <2>3. row = <<>> => Len(row) <= 1
    BY <1>3
  <2>4. row = <<alert>> => Len(row) <= 1
    BY <2>2
  <2> QED
    BY <1>3, <2>1, <2>2, <2>3, <2>4, Zenon
<1> QED
  BY <1>4, <1>5 DEF AlertInv, AlertTyped, AlertsTypeOK, Told

(* What is told is whole and agrees: however long the parts of an alert    *)
(* are, and whatever of the dispatch fails, a message is short enough to   *)
(* be accepted and has the class, the cause and the raw error in it, the   *)
(* row tells the same, and the flags promise nothing that did not happen   *)
(* (dispatch.py:8-13, discord.py:28-30).                                   *)
THEOREM AlertsAreWhole == AlertsSpec => []AlertTold
<1>1. AlertsInit => AlertInv
  BY AlertsStart
<1>2. AlertInv => AlertTold
  <2> SUFFICES ASSUME AlertInv PROVE AlertTold
    OBVIOUS
  <2>1. ShortAndWhole(alert, Payload(alert))
    BY MessageIsWhole DEF AlertInv
  <2>2. Payload(alert).cause = alert.cause
    BY DEF Payload
  <2> QED
    BY <2>1, <2>2 DEF AlertInv, AlertTold
<1> QED
  BY <1>1, <1>2, AlertStep, PTL DEF AlertsSpec

-----------------------------------------------------------------------------
(* The scoreboard: what stands at the n-th place of sorted samples         *)

AtMost(f, v) == {k \in DOMAIN f : f[k] <= v}
Under(f, v) == {k \in DOMAIN f : f[k] < v}
IsNth(f, n, v) == Cardinality(Under(f, v)) < n /\ n <= Cardinality(AtMost(f, v))

LEMMA HighestExists ==
  ASSUME NEW S, IsFiniteSet(S), S # {}, NEW f \in [S -> Nat]
  PROVE  \E m \in S : \A k \in S : f[k] <= f[m]
<1> DEFINE above(k) == {j \in S : f[j] > f[k]}
           T == {Cardinality(above(k)) : k \in S}
<1>1. \A k \in S : IsFiniteSet(above(k)) /\ Cardinality(above(k)) \in Nat
  BY FS_Subset, FS_CardinalityType
<1>2. T \in SUBSET Nat /\ T # {}
  BY <1>1
<1>3. PICK t \in T : \A u \in T : t <= u
  BY <1>2, Least
<1>4. PICK m \in S : t = Cardinality(above(m))
  BY <1>3
<1>5. ASSUME NEW k \in S, ~(f[k] <= f[m]) PROVE FALSE
  <2>1. f[k] > f[m] /\ f[k] \in Nat /\ f[m] \in Nat
    BY <1>5
  <2>2. above(k) \subseteq above(m) /\ k \in above(m) /\ k \notin above(k)
    BY <2>1
  <2>3. Cardinality(above(k)) < Cardinality(above(m))
    BY <1>1, <2>2, FS_Subset, SMTT(20)
  <2>4. Cardinality(above(m)) <= Cardinality(above(k))
    BY <1>3, <1>4
  <2> QED
    BY <1>1, <2>3, <2>4
<1> QED
  BY <1>5

LEMMA NthExists ==
  ASSUME NEW S, IsFiniteSet(S), NEW f \in [S -> Nat], NEW n \in 1..Cardinality(S)
  PROVE  \E v \in {f[k] : k \in S} : IsNth(f, n, v)
<1> DEFINE card(v) == Cardinality(AtMost(f, v))
           T == {v \in {f[k] : k \in S} : n <= card(v)}
<1>1. \A v : /\ IsFiniteSet(AtMost(f, v)) /\ card(v) \in Nat
             /\ IsFiniteSet(Under(f, v)) /\ Cardinality(Under(f, v)) \in Nat
  BY FS_Subset, FS_CardinalityType DEF AtMost, Under
<1>2. Cardinality(S) \in Nat /\ n \in Nat /\ n >= 1 /\ n <= Cardinality(S)
  BY FS_CardinalityType
<1>3. S # {}
  BY <1>2, FS_EmptySet
<1>4. T # {}
  <2>1. PICK m \in S : \A k \in S : f[k] <= f[m]
    BY <1>3, HighestExists
  <2>2. AtMost(f, f[m]) = S
    BY <2>1 DEF AtMost
  <2> QED
    BY <1>2, <2>2
<1>5. T \in SUBSET Nat
  OBVIOUS
<1>6. PICK v \in T : \A u \in T : v <= u
  BY <1>4, <1>5, Least
<1>7. Cardinality(Under(f, v)) < n
  <2> SUFFICES ASSUME ~(Cardinality(Under(f, v)) < n) PROVE FALSE
    OBVIOUS
  <2>1. n <= Cardinality(Under(f, v))
    BY <1>1, <1>2
  <2>2. Under(f, v) # {}
    BY <1>2, <2>1, FS_EmptySet
  <2> DEFINE U == Under(f, v)
             g == [k \in U |-> f[k]]
  <2>3. IsFiniteSet(U) /\ U \subseteq S /\ g \in [U -> Nat]
    BY <1>1 DEF Under
  <2> HIDE DEF U
  <2>4. PICK m \in U : \A k \in U : g[k] <= g[m]
    BY <2>2, <2>3, HighestExists DEF U
  <2>5. f[m] \in Nat /\ v \in Nat /\ f[m] < v
    BY <1>5, <2>3, <2>4 DEF U, Under
  <2>6. U \subseteq AtMost(f, f[m])
    BY <2>3, <2>4 DEF AtMost
  <2>7. n <= card(f[m])
    <3>1. Cardinality(U) <= card(f[m])
      BY <1>1, <2>6, FS_Subset
    <3> QED
      BY <1>1, <1>2, <2>1, <3>1 DEF U
  <2>8. f[m] \in T
    BY <2>3, <2>7
  <2> QED
    BY <1>6, <2>5, <2>8
<1> QED
  BY <1>6, <1>7 DEF IsNth

LEMMA NthIs ==
  ASSUME NEW S, IsFiniteSet(S), NEW f \in [S -> Nat], NEW n \in 1..Cardinality(S)
  PROVE  Nth(f, n) \in Nat /\ IsNth(f, n, Nth(f, n))
<1>1. \E v \in {f[k] : k \in DOMAIN f} :
        /\ Cardinality({k \in DOMAIN f : f[k] < v}) < n
        /\ n <= Cardinality({k \in DOMAIN f : f[k] <= v})
  <2>1. PICK v \in {f[k] : k \in S} : IsNth(f, n, v)
    BY NthExists
  <2>2. DOMAIN f = S
    OBVIOUS
  <2> QED
    BY <2>1, <2>2 DEF IsNth, AtMost, Under
<1>2. /\ Nth(f, n) \in {f[k] : k \in DOMAIN f}
      /\ Cardinality({k \in DOMAIN f : f[k] < Nth(f, n)}) < n
      /\ n <= Cardinality({k \in DOMAIN f : f[k] <= Nth(f, n)})
  BY <1>1 DEF Nth
<1> QED
  BY <1>2 DEF IsNth, AtMost, Under

(* On which side of how many samples the value twice of which is compared  *)
(* with twice the median is.                                               *)
LEMMA MedianHalves ==
  ASSUME NEW S, IsFiniteSet(S), S # {}, NEW f \in [S -> Nat], NEW v \in Nat
  PROVE  LET n     == Cardinality(S)
             under == Cardinality({k \in S : f[k] < v})
             over  == Cardinality({k \in S : f[k] > v})
         IN  /\ TwiceMedian(f) \in Nat
             /\ 2 * v > TwiceMedian(f) => 2 * under >= n
             /\ 2 * v < TwiceMedian(f) => 2 * over >= n
             /\ 2 * v = TwiceMedian(f) => 2 * under <= n /\ 2 * over <= n
<1> DEFINE n == Cardinality(S)
           lo == (n + 1) \div 2
           hi == n \div 2 + 1
           x == Nth(f, lo)
           y == Nth(f, hi)
           below == {k \in S : f[k] < v}
           above == {k \in S : f[k] > v}
           under == Cardinality(below)
           over == Cardinality(above)
<1>1. /\ n \in Nat \ {0}
      /\ \A U \in SUBSET S : IsFiniteSet(U) /\ Cardinality(U) \in Nat
      /\ \A U \in SUBSET S : Cardinality(S \ U) = n - Cardinality(U)
      /\ \A U \in SUBSET S : \A V \in SUBSET U : Cardinality(V) <= Cardinality(U)
  <2>1. n \in Nat \ {0}
    BY FS_CardinalityType, FS_EmptySet
  <2>2. \A U \in SUBSET S : IsFiniteSet(U) /\ Cardinality(U) \in Nat
    BY FS_CardinalityType, FS_Subset
  <2>3. \A U \in SUBSET S : Cardinality(S \ U) = n - Cardinality(U)
    <3> SUFFICES ASSUME NEW U \in SUBSET S PROVE Cardinality(S \ U) = n - Cardinality(U)
      OBVIOUS
    <3>1. S \cap U = U
      OBVIOUS
    <3> QED
      BY <2>2, <3>1, FS_Difference
  <2>4. \A U \in SUBSET S : \A V \in SUBSET U : Cardinality(V) <= Cardinality(U)
    BY <2>2, FS_Subset
  <2> QED
    BY <2>1, <2>2, <2>3, <2>4
<1> HIDE DEF n
<1>2. /\ lo \in 1..n /\ hi \in 1..n /\ lo <= hi
      /\ 2 * lo >= n /\ 2 * (n - hi + 1) >= n
      /\ 2 * (hi - 1) <= n /\ 2 * (n - lo) <= n
  BY <1>1
<1> HIDE DEF lo, hi
<1>3. /\ x \in Nat /\ Cardinality(Under(f, x)) < lo /\ lo <= Cardinality(AtMost(f, x))
      /\ y \in Nat /\ Cardinality(Under(f, y)) < hi /\ hi <= Cardinality(AtMost(f, y))
  BY <1>2, NthIs DEF IsNth, n
<1>4. TwiceMedian(f) = x + y
  BY DEF TwiceMedian, n, lo, hi
<1> HIDE DEF x, y
<1>5. \A u : Under(f, u) \in SUBSET S /\ AtMost(f, u) \in SUBSET S
  BY DEF Under, AtMost
<1>6. x <= y
  <2> SUFFICES ASSUME y < x PROVE FALSE
    BY <1>3
  <2>1. AtMost(f, y) \subseteq Under(f, x)
    BY <1>3 DEF AtMost, Under
  <2>2. Cardinality(AtMost(f, y)) <= Cardinality(Under(f, x))
    BY <1>1, <1>5, <2>1
  <2>3. Cardinality(AtMost(f, y)) \in Nat /\ Cardinality(Under(f, x)) \in Nat
    BY <1>1, <1>5
  <2> QED
    BY <1>2, <1>3, <2>2, <2>3
<1>7. /\ under \in Nat /\ over \in Nat
      /\ Cardinality(Under(f, y)) \in Nat /\ Cardinality(AtMost(f, x)) \in Nat
  BY <1>1, <1>5
<1>8. ASSUME x < v PROVE 2 * under >= n
  <2>1. AtMost(f, x) \subseteq below
    BY <1>3, <1>8 DEF AtMost
  <2>2. Cardinality(AtMost(f, x)) <= under
    BY <1>1, <2>1
  <2> HIDE DEF under
  <2> QED
    BY <1>1, <1>2, <1>3, <1>7, <2>2
<1>9. ASSUME v < y PROVE 2 * over >= n
  <2>1. S \ Under(f, y) \subseteq above
    BY <1>3, <1>9 DEF Under
  <2>2. n - Cardinality(Under(f, y)) <= over
    BY <1>1, <1>5, <2>1
  <2> HIDE DEF over
  <2> QED
    BY <1>1, <1>2, <1>3, <1>7, <2>2
<1>10. ASSUME v <= y PROVE 2 * under <= n
  <2>1. below \subseteq Under(f, y)
    BY <1>3, <1>10 DEF Under
  <2>2. under <= Cardinality(Under(f, y))
    BY <1>1, <1>5, <2>1
  <2> HIDE DEF under
  <2> QED
    BY <1>1, <1>2, <1>3, <1>7, <2>2
<1>11. ASSUME x <= v PROVE 2 * over <= n
  <2>1. above \subseteq S \ AtMost(f, x)
    BY <1>3, <1>11 DEF AtMost
  <2>2. over <= n - Cardinality(AtMost(f, x))
    <3>1. S \ AtMost(f, x) \in SUBSET S
      OBVIOUS
    <3> QED
      BY <1>1, <1>5, <2>1, <3>1
  <2> HIDE DEF over
  <2> QED
    BY <1>1, <1>2, <1>3, <1>7, <2>2
<1> HIDE DEF under, over
<1>12. /\ 2 * v > x + y => x < v
       /\ 2 * v < x + y => v < y
       /\ 2 * v = x + y => x <= v /\ v <= y
       /\ x + y \in Nat
  BY <1>3, <1>6
<1>13. /\ TwiceMedian(f) \in Nat
       /\ 2 * v > TwiceMedian(f) => 2 * under >= n
       /\ 2 * v < TwiceMedian(f) => 2 * over >= n
       /\ 2 * v = TwiceMedian(f) => 2 * under <= n /\ 2 * over <= n
  BY <1>4, <1>8, <1>9, <1>10, <1>11, <1>12
<1> QED
  BY <1>13 DEF under, over, n

LEMMA SignalIs == DOMAIN Signals = {1, 2} /\ Signals[1] = "ratio" /\ Signals[2] = "raw"
BY DEF Signals

(* A fraction of Scale's whole parts.                                      *)
LEMMA PartsOf ==
  ASSUME NEW d \in Divisors, d # 0
  PROVE  LET q == Scale \div d IN q \in Nat \ {0} /\ d * q = Scale /\ d \in Nat \ {0}
<1>1. d \in Nat \ {0} /\ Scale \in Nat \ {0} /\ Scale % d = 0
  BY MetricsAssumption
<1>2. Scale = d * (Scale \div d) + (Scale % d) /\ Scale \div d \in Int
  BY <1>1
<1> DEFINE q == Scale \div d
<1>3. q \in Int /\ d * q = Scale
  BY <1>1, <1>2
<1> HIDE DEF q
<1>4. q > 0
  <2> SUFFICES ASSUME q <= 0 PROVE FALSE
    BY <1>3
  <2>1. d * q <= 0
    BY <1>1, <1>3
  <2> QED
    BY <1>1, <1>3, <2>1
<1> QED
  BY <1>1, <1>3, <1>4 DEF q

LEMMA NumeratorTyped ==
  ASSUME NEW m \in Metrics
  PROVE  m.num \in Nat \cup {None} /\ m.den \in Divisors \cup {None} /\ None \notin Nat
<1>1. m.num \in Counts \cup {None} /\ m.den \in Divisors \cup {None}
  BY DEF Metrics
<1>2. Counts \subseteq Nat
  BY MetricsAssumption
<1>3. None \notin Nat
  BY DEF None
<1> QED
  BY <1>1, <1>2, <1>3, Zenon

LEMMA ValueTyped ==
  ASSUME NEW i \in DOMAIN Signals, NEW m \in Metrics
  PROVE  /\ SignalValue(Signals[i], m) \in Nat \cup {None}
         /\ SignalValue(Signals[i], m) # None <=> Measured(i, m)
<1>1. /\ m.num \in Nat \cup {None} /\ m.den \in Divisors \cup {None}
      /\ Scale \in Nat /\ None \notin Nat
  BY NumeratorTyped, MetricsAssumption
<1>2. CASE i = 2
  <2>1. m.num \in Nat => Scale * m.num \in Nat
    BY <1>1
  <2> QED
    BY <1>1, <1>2, <2>1, SignalIs DEF SignalValue, Measured
<1>3. CASE i = 1
  <2>1. CASE Measured(i, m)
    <3>1. m.num \in Nat /\ m.den \in Divisors /\ m.den # 0 /\ m.den # None
      BY <1>1, <1>3, <2>1, SignalIs DEF Measured
    <3>2. Scale \div m.den \in Nat
      BY <3>1, PartsOf
    <3>3. m.num * (Scale \div m.den) \in Nat
      BY <3>1, <3>2
    <3>4. SignalValue(Signals[i], m) = m.num * (Scale \div m.den)
      <4>1. m.num # None
        BY <1>1, <3>1
      <4> QED
        BY <1>3, <3>1, <4>1, SignalIs DEF SignalValue
    <3> QED
      BY <1>1, <2>1, <3>3, <3>4
  <2>2. CASE ~Measured(i, m)
    BY <1>3, <2>2, SignalIs DEF SignalValue, Measured
  <2> QED
    BY <2>1, <2>2
<1> QED
  BY <1>2, <1>3, SignalIs

(* Cross multiplication.                                                   *)
LEMMA FractionsCompare ==
  ASSUME NEW a \in Nat, NEW b \in Nat, NEW d \in Nat \ {0}, NEW e \in Nat \ {0},
         NEW q \in Nat \ {0}, NEW r \in Nat \ {0}, d * q = e * r
  PROVE  a * q < b * r <=> a * e < b * d
<1>1. ASSUME NEW x \in Nat, NEW y \in Nat, NEW z \in Nat \ {0} PROVE x < y <=> x * z < y * z
  <2>1. CASE x < y
    <3>1. x * z < y * z
      BY <1>1, <2>1
    <3> QED
      BY <2>1, <3>1
  <2>2. CASE ~(x < y)
    <3>1. y * z <= x * z
      BY <1>1, <2>2
    <3>2. y * z \in Nat /\ x * z \in Nat
      BY <1>1
    <3> QED
      BY <2>2, <3>1, <3>2
  <2> QED
    BY <2>1, <2>2
<1> DEFINE s == d * q
<1>2. a * q \in Nat /\ b * r \in Nat /\ a * e \in Nat /\ b * d \in Nat
  OBVIOUS
<1>3. d * e \in Nat \ {0} /\ s \in Nat \ {0}
  OBVIOUS
<1>4. (a * q) * (d * e) = (a * e) * s /\ (b * r) * (d * e) = (b * d) * s
  <2>1. (a * q) * (d * e) = (a * e) * (d * q)
    OBVIOUS
  <2>2. (b * r) * (d * e) = (b * d) * (e * r)
    OBVIOUS
  <2> QED
    BY <2>1, <2>2
<1> HIDE DEF s
<1>5. a * q < b * r <=> (a * q) * (d * e) < (b * r) * (d * e)
  BY <1>1, <1>2, <1>3
<1>6. a * e < b * d <=> (a * e) * s < (b * d) * s
  BY <1>1, <1>2, <1>3
<1> QED
  BY <1>4, <1>5, <1>6

(* Values compare as what they are values of.                              *)
LEMMA ValueOrders ==
  ASSUME NEW i \in DOMAIN Signals, NEW m \in Metrics, NEW n \in Metrics,
         Measured(i, m), Measured(i, n)
  PROVE  SignalValue(Signals[i], m) < SignalValue(Signals[i], n) <=> Less(i, m, n)
<1>1. /\ m.num \in Nat /\ n.num \in Nat /\ Scale \in Nat \ {0} /\ None \notin Nat
      /\ m.num # None /\ n.num # None
  BY NumeratorTyped, MetricsAssumption DEF Measured
<1>2. CASE i = 2
  <2>1. /\ SignalValue(Signals[i], m) = Scale * m.num
        /\ SignalValue(Signals[i], n) = Scale * n.num
        /\ Less(i, m, n) <=> m.num < n.num
    BY <1>1, <1>2, SignalIs DEF SignalValue, Less
  <2>2. \A a, b \in Nat : Scale * a < Scale * b <=> a < b
    <3> SUFFICES ASSUME NEW a \in Nat, NEW b \in Nat
                 PROVE  Scale * a < Scale * b <=> a < b
      OBVIOUS
    <3>1. a * Scale < b * Scale <=> a * 1 < b * 1
      BY <1>1, FractionsCompare
    <3> QED
      BY <1>1, <3>1
  <2> QED
    BY <1>1, <2>1, <2>2
<1>3. CASE i = 1
  <2>1. /\ m.den \in Divisors /\ m.den \notin {None, 0}
        /\ n.den \in Divisors /\ n.den \notin {None, 0}
    BY <1>3, SignalIs DEF Measured, Metrics
  <2>2. /\ SignalValue(Signals[i], m) = m.num * (Scale \div m.den)
        /\ SignalValue(Signals[i], n) = n.num * (Scale \div n.den)
        /\ Less(i, m, n) <=> m.num * n.den < n.num * m.den
    BY <1>1, <1>3, <2>1, SignalIs DEF SignalValue, Less
  <2>3. /\ Scale \div m.den \in Nat \ {0} /\ m.den \in Nat \ {0}
        /\ Scale \div n.den \in Nat \ {0} /\ n.den \in Nat \ {0}
        /\ m.den * (Scale \div m.den) = n.den * (Scale \div n.den)
    BY <2>1, PartsOf
  <2> QED
    BY <1>1, <2>2, <2>3, FractionsCompare
<1> QED
  BY <1>2, <1>3, SignalIs

Row(i) == LET value    == SignalValue(Signals[i], target)
              baseline == Baseline(Signals[i])
          IN  [value |-> value, baseline |-> baseline, tag |-> Tag(value, baseline)]

(* The board is about the posts there were when it was made, and these stay*)
ScoreInv ==
  /\ target \in Metrics /\ others \in Seq(Metrics)
  /\ board = <<>> \/ board = [i \in DOMAIN Signals |-> Row(i)]

LEMMA RowEarned ==
  ASSUME target \in Metrics, others \in Seq(Metrics), NEW i \in DOMAIN Signals
  PROVE  LET samples == {k \in DOMAIN others : Measured(i, others[k])}
             under   == Cardinality({k \in samples : Less(i, others[k], target)})
             over    == Cardinality({k \in samples : Less(i, target, others[k])})
             n       == Cardinality(samples)
             tag     == Row(i).tag
         IN  /\ Baseline(Signals[i]) \in Nat \cup {None}
             /\ tag # "no_verdict" <=> Measured(i, target) /\ n >= MinBaseline
             /\ tag = "above" => 2 * under >= n
             /\ tag = "below" => 2 * over >= n
             /\ tag = "at" => 2 * under <= n /\ 2 * over <= n
<1> DEFINE samples == {k \in DOMAIN others : Measured(i, others[k])}
           n == Cardinality(samples)
           f == Samples(Signals[i])
           v == SignalValue(Signals[i], target)
           b == Baseline(Signals[i])
           under == {k \in samples : Less(i, others[k], target)}
           over == {k \in samples : Less(i, target, others[k])}
<1>1. DOMAIN others = 1..Len(others) /\ Len(others) \in Nat
  BY LenProperties
<1>2. \A k \in DOMAIN others : others[k] \in Metrics
  BY ElementOfSeq, <1>1
<1>3. IsFiniteSet(samples) /\ n \in Nat /\ n <= Len(others)
  <2>1. IsFiniteSet(1..Len(others)) /\ Cardinality(1..Len(others)) = Len(others)
    <3> DEFINE l == Len(others)
    <3> HIDE DEF l
    <3>1. l \in Nat
      BY <1>1 DEF l
    <3>2. IsFiniteSet(1..l) /\ Cardinality(1..l) = IF 1 > l THEN 0 ELSE l - 1 + 1
      BY <3>1, FS_Interval
    <3> QED
      BY <3>1, <3>2 DEF l
  <2>2. samples \subseteq 1..Len(others)
    BY <1>1
  <2> HIDE DEF samples
  <2> QED
    BY <2>1, <2>2, FS_Subset, FS_CardinalityType
<1>4. DOMAIN f = samples
  BY <1>2, ValueTyped DEF Samples
<1>5. f \in [samples -> Nat] /\ \A k \in samples : f[k] = SignalValue(Signals[i], others[k])
  <2>1. \A k \in samples : SignalValue(Signals[i], others[k]) \in Nat
    BY <1>2, ValueTyped
  <2>2. f = [k \in samples |-> SignalValue(Signals[i], others[k])]
    BY <1>4 DEF Samples
  <2> HIDE DEF f, samples
  <2> QED
    BY <2>1, <2>2
<1>6. MinBaseline \in Nat \ {0} /\ None \notin Nat
  BY MetricsAssumption DEF None
<1>7. b = IF n >= MinBaseline THEN TwiceMedian(f) ELSE None
  BY <1>1, <1>3, <1>4, <1>6 DEF Baseline
<1>8. Row(i).tag = Tag(v, b)
  BY DEF Row
<1>9. v \in Nat \cup {None} /\ (v # None <=> Measured(i, target))
  BY ValueTyped
<1>10. ASSUME n >= MinBaseline, Measured(i, target)
       PROVE  /\ b \in Nat /\ v \in Nat
              /\ 2 * v > b => 2 * Cardinality(under) >= n
              /\ 2 * v < b => 2 * Cardinality(over) >= n
              /\ 2 * v = b => 2 * Cardinality(under) <= n /\ 2 * Cardinality(over) <= n
  <2>1. samples # {}
    <3>1. n # 0
      BY <1>3, <1>6, <1>10
    <3> QED
      BY <3>1, FS_EmptySet
  <2>2. v \in Nat
    BY <1>9, <1>10
  <2>3. b = TwiceMedian(f)
    BY <1>7, <1>10
  <2>4. under = {k \in samples : f[k] < v}
    BY <1>2, <1>5, <1>10, ValueOrders
  <2>5. over = {k \in samples : f[k] > v}
    <3>1. \A k \in samples : Less(i, target, others[k]) <=> v < f[k]
      BY <1>2, <1>5, <1>10, ValueOrders
    <3>2. \A k \in samples : f[k] > v <=> v < f[k]
      BY <1>5, <2>2
    <3> HIDE DEF samples, f, v
    <3> QED
      BY <3>1, <3>2
  <2> HIDE DEF samples, f, v, b, under, over, n
  <2>6. LET u == Cardinality({k \in samples : f[k] < v})
            o == Cardinality({k \in samples : f[k] > v})
        IN  /\ TwiceMedian(f) \in Nat
            /\ 2 * v > TwiceMedian(f) => 2 * u >= Cardinality(samples)
            /\ 2 * v < TwiceMedian(f) => 2 * o >= Cardinality(samples)
            /\ 2 * v = TwiceMedian(f) =>
                 2 * u <= Cardinality(samples) /\ 2 * o <= Cardinality(samples)
    BY <1>3, <1>5, <2>1, <2>2, MedianHalves
  <2> QED
    BY <2>2, <2>3, <2>4, <2>5, <2>6 DEF n
<1> HIDE DEF samples, f, v, b, under, over, n
<1>16. b \in Nat \cup {None}
  <2>1. CASE n >= MinBaseline
    <3>1. samples # {}
      <4>1. n # 0
        BY <1>3, <1>6, <2>1
      <4> QED
        BY <4>1, FS_EmptySet DEF n
    <3>2. TwiceMedian(f) \in Nat
      BY <1>3, <1>5, <3>1, MedianHalves
    <3> QED
      BY <1>7, <2>1, <3>2
  <2>2. CASE ~(n >= MinBaseline)
    BY <1>7, <2>2
  <2> QED
    BY <2>1, <2>2
<1>11. Row(i).tag # "no_verdict" <=> Measured(i, target) /\ n >= MinBaseline
  <2>1. CASE Measured(i, target) /\ n >= MinBaseline
    BY <1>6, <1>8, <1>10, <2>1 DEF Tag
  <2>2. CASE ~(Measured(i, target) /\ n >= MinBaseline)
    BY <1>7, <1>8, <1>9, <2>2 DEF Tag
  <2> QED
    BY <2>1, <2>2
<1>12. /\ Row(i).tag = "above" => b # None /\ v # None /\ 2 * v > b
       /\ Row(i).tag = "below" => b # None /\ v # None /\ 2 * v # b /\ ~(2 * v > b)
       /\ Row(i).tag = "at" => b # None /\ v # None /\ 2 * v = b
  BY <1>8 DEF Tag
<1>13. Row(i).tag \in {"above", "below", "at"} => Measured(i, target) /\ n >= MinBaseline
  BY <1>11
<1>14. Row(i).tag = "below" => 2 * v < b
  BY <1>10, <1>12, <1>13
<1>15. /\ Row(i).tag = "above" => 2 * Cardinality(under) >= n
       /\ Row(i).tag = "below" => 2 * Cardinality(over) >= n
       /\ Row(i).tag = "at" => 2 * Cardinality(under) <= n /\ 2 * Cardinality(over) <= n
  BY <1>10, <1>12, <1>13, <1>14
<1> QED
  BY <1>11, <1>15, <1>16 DEF samples, under, over, n, b

LEMMA ScoreStep == ScoreInv /\ [ScoreboardNext]_scoreVars => ScoreInv'
<1> SUFFICES ASSUME ScoreInv, [ScoreboardNext]_scoreVars PROVE ScoreInv'
  OBVIOUS
<1>1. ASSUME NEW metrics \in Metrics, Poll(metrics) PROVE ScoreInv'
  <2>1. board' = <<>> /\ target' = target /\ others' = Append(others, metrics)
    BY <1>1 DEF Poll
  <2> QED
    BY <2>1 DEF ScoreInv
<1>2. ASSUME NEW metrics \in Metrics, Compute(metrics) PROVE ScoreInv'
  <2>1. others' = others /\ target' = metrics
    BY <1>2 DEF Compute
  <2>2. board' = [i \in DOMAIN Signals |-> Row(i)']
    BY <1>2, <2>1 DEF Compute, Row, Baseline, Samples
  <2> QED
    BY <2>1, <2>2 DEF ScoreInv
<1>3. CASE UNCHANGED scoreVars
  <2>1. target' = target /\ others' = others /\ board' = board
    BY <1>3 DEF scoreVars
  <2>2. \A i : Row(i)' = Row(i)
    BY <2>1 DEF Row, Baseline, Samples
  <2> QED
    BY <2>1, <2>2 DEF ScoreInv
<1> QED
  BY <1>1, <1>2, <1>3 DEF ScoreboardNext

(* The types of the posts and of the rows of a scoreboard.                 *)
LEMMA ScoreboardTyped == ScoreInv => ScoreboardTypeOK
<1> SUFFICES ASSUME ScoreInv PROVE ScoreboardTypeOK
  OBVIOUS
<1> DEFINE R == [value : Nat \cup {None}, baseline : Nat \cup {None}, tag : Tags]
<1>1. target \in Metrics /\ others \in Seq(Metrics)
  BY DEF ScoreInv
<1>2. \A i \in DOMAIN Signals : Row(i) \in R
  <2> TAKE i \in DOMAIN Signals
  <2>1. Baseline(Signals[i]) \in Nat \cup {None}
    BY <1>1, RowEarned
  <2>2. SignalValue(Signals[i], target) \in Nat \cup {None}
    BY <1>1, ValueTyped
  <2>3. Tag(SignalValue(Signals[i], target), Baseline(Signals[i])) \in Tags
    BY DEF Tag, Tags
  <2> QED
    BY <2>1, <2>2, <2>3 DEF Row
<1> HIDE DEF R
<1>3. board \in Seq(R)
  <2>1. CASE board = <<>>
    BY <2>1
  <2>2. CASE board = [i \in DOMAIN Signals |-> Row(i)]
    <3>1. DOMAIN Signals = 1..2
      BY SignalIs
    <3>2. board \in [1..2 -> R] /\ 2 \in Nat
      BY <1>2, <2>2, <3>1
    <3> QED
      BY <3>2, SeqDef
  <2> QED
    BY <2>1, <2>2 DEF ScoreInv
<1> QED
  BY <1>1, <1>3 DEF ScoreboardTypeOK, R

LEMMA ScoreStart == ScoreboardInit => ScoreInv
BY DEF ScoreboardInit, ScoreInv, Metrics

(* A verdict is earned (scoreboard.py:85-142): it is given exactly if the  *)
(* post has the signal and enough of the others have it too, and it names  *)
(* the side of at least half of those: for any number of posts, any        *)
(* metrics of theirs, any missing, and any least number of samples.        *)
THEOREM VerdictsAreEarned == ScoreboardSpec => []VerdictEarned
<1>1. ScoreboardInit => ScoreInv
  BY ScoreStart
<1>2. ScoreInv => VerdictEarned
  <2> SUFFICES ASSUME ScoreInv PROVE VerdictEarned
    OBVIOUS
  <2>1. CASE board = <<>>
    BY <2>1 DEF VerdictEarned
  <2>2. CASE board = [i \in DOMAIN Signals |-> Row(i)]
    <3>1. DOMAIN board = DOMAIN Signals /\ \A i \in DOMAIN Signals : board[i] = Row(i)
      BY <2>2
    <3> QED
      BY <3>1, RowEarned DEF ScoreInv, VerdictEarned
  <2> QED
    BY <2>1, <2>2 DEF ScoreInv
<1> QED
  BY <1>1, <1>2, ScoreStep, PTL DEF ScoreboardSpec

-----------------------------------------------------------------------------
(* Sequences, and what FoldLeft and FlattenSeq make of them                *)

(* Induction over sequences.                                               *)
LEMMA Lengthening ==
  ASSUME NEW S, NEW A, <<>> \in A, \A s \in Seq(S), e \in S : s \in A => Append(s, e) \in A
  PROVE  Seq(S) \subseteq A
<1> DEFINE N == {n \in Nat : \A s \in Seq(S) : Len(s) = n => s \in A}
<1>1. 0 \in N
  <2>1. \A s \in Seq(S) : Len(s) = 0 => s = <<>>
    OBVIOUS
  <2> QED
    BY <2>1
<1>2. ASSUME NEW n \in Nat, n \in N PROVE n + 1 \in N
  <2> SUFFICES ASSUME NEW s \in Seq(S), Len(s) = n + 1 PROVE s \in A
    OBVIOUS
  <2> DEFINE front == SubSeq(s, 1, n)
             last == s[n + 1]
  <2>1. front \in Seq(S) /\ Len(front) = n /\ last \in S
    BY <1>2
  <2>2. s = Append(front, last)
    BY <1>2
  <2>3. front \in A
    BY <1>2, <2>1
  <2> HIDE DEF front, last
  <2> QED
    BY <2>1, <2>2, <2>3
<1> HIDE DEF N
<1>3. Nat \subseteq N
  BY <1>1, <1>2, Counting
<1> SUFFICES ASSUME NEW s \in Seq(S) PROVE s \in A
  OBVIOUS
<1>4. Len(s) \in N
  BY <1>3
<1> QED
  BY <1>4 DEF N

(* What a fold is, given the step from each index on: a function of the    *)
(* sets of indexes, of which only the intervals matter.                    *)
FoldStep(F, base, s, g) == IF s = {} THEN base ELSE F[<<Max(s), g[s \ {Max(s)}]>>]
IsFold(F, base, n, g) == g = [s \in SUBSET (1..n) |-> FoldStep(F, base, s, g)]

LEMMA FoldExists ==
  ASSUME NEW A, NEW base \in A, NEW k \in Nat, NEW F \in [(1..k) \X A -> A]
  PROVE  \E g \in [SUBSET (1..k) -> A] : IsFold(F, base, k, g)
<1> DEFINE N == {n \in Nat : n <= k =>
                   \E g \in [SUBSET (1..n) -> A] : IsFold(F, base, n, g)}
<1>1. 0 \in N
  <2> DEFINE g == [s \in SUBSET (1..0) |-> base]
  <2>1. g \in [SUBSET (1..0) -> A] /\ IsFold(F, base, 0, g)
    BY DEF FoldStep, IsFold
  <2> HIDE DEF g
  <2> QED
    BY <2>1
<1>2. ASSUME NEW n \in Nat, n \in N PROVE n + 1 \in N
  <2> SUFFICES ASSUME n + 1 <= k
               PROVE  \E g \in [SUBSET (1..(n + 1)) -> A] : IsFold(F, base, n + 1, g)
    <3>1. n + 1 \in Nat
      OBVIOUS
    <3> QED
      BY <3>1, Zenon
  <2>0. n <= k
    OBVIOUS
  <2>1. PICK g \in [SUBSET (1..n) -> A] : IsFold(F, base, n, g)
    BY <1>2, <2>0, Zenon
  <2> DEFINE h == [s \in SUBSET (1..(n + 1)) |-> FoldStep(F, base, s, g)]
  <2>2. ASSUME NEW s \in SUBSET (1..(n + 1)), s # {}
        PROVE  s \ {Max(s)} \in SUBSET (1..n) /\ Max(s) \in 1..k
    <3>1. Max(s) \in s /\ \A y \in s : y <= Max(s)
      <4>1. n + 1 \in Nat
        OBVIOUS
      <4> QED
        BY <2>2, <4>1, MaxIs
    <3> HIDE DEF h, N
    <3>2. Max(s) \in 1..(n + 1)
      BY <3>1
    <3>3. ASSUME NEW y \in s, y # Max(s) PROVE y \in 1..n
      <4>1. y \in 1..(n + 1) /\ y <= Max(s)
        BY <3>1
      <4> QED
        BY <3>2, <3>3, <4>1
    <3>4. s \ {Max(s)} \subseteq 1..n
      BY <3>3, Zenon
    <3>5. Max(s) \in 1..k
      BY <3>2
    <3> QED
      BY <3>4, <3>5
  <2>3. \A s \in SUBSET (1..n) : h[s] = g[s]
    BY <2>1 DEF IsFold
  <2>4. ASSUME NEW s \in SUBSET (1..(n + 1))
        PROVE  FoldStep(F, base, s, g) = FoldStep(F, base, s, h) /\ FoldStep(F, base, s, g) \in A
    <3> HIDE DEF h, N
    <3>1. CASE s = {}
      BY <3>1 DEF FoldStep
    <3>2. CASE s # {}
      <4> DEFINE r == s \ {Max(s)}
      <4>1. r \in SUBSET (1..n) /\ Max(s) \in 1..k
        BY <2>2, <3>2
      <4>2. h[r] = g[r] /\ g[r] \in A
        BY <2>1, <2>3, <4>1
      <4>3. <<Max(s), g[r]>> \in (1..k) \X A
        BY <4>1, <4>2
      <4> QED
        BY <3>2, <4>2, <4>3 DEF FoldStep
    <3> QED
      BY <3>1, <3>2
  <2>5. h = [s \in SUBSET (1..(n + 1)) |-> FoldStep(F, base, s, h)]
    BY <2>4
  <2>6. h \in [SUBSET (1..(n + 1)) -> A]
    BY <2>4
  <2> HIDE DEF h
  <2> QED
    BY <2>5, <2>6 DEF IsFold
<1> HIDE DEF N
<1>3. k \in N /\ k <= k
  BY <1>1, <1>2, Counting
<1> QED
  BY <1>3, Zenon DEF N

(* Whatever function a fold is said to be, its values on the intervals     *)
(* are those of the steps.                                                 *)
FoldHolds(A, base, k, F, g) ==
  /\ g[{}] = base
  /\ \A s \in SUBSET (1..k) : s # {} /\ g[s \ {Max(s)}] \in A =>
                               g[s] = F[<<Max(s), g[s \ {Max(s)}]>>]
StepByStep(A, base, k, F, g) ==
  /\ g[1..0] = base
  /\ \A n \in 1..k : g[1..n] = F[<<n, g[1..(n - 1)]>>]
  /\ \A n \in 0..k : g[1..n] \in A

LEMMA FoldSteps ==
  ASSUME NEW A, NEW base \in A, NEW k \in Nat, NEW F \in [(1..k) \X A -> A], NEW g,
         FoldHolds(A, base, k, F, g)
  PROVE  StepByStep(A, base, k, F, g)
<1> USE DEF FoldHolds, StepByStep
<1>1. g[1..0] = base
  <2>1. 1..0 = {}
    OBVIOUS
  <2> QED
    BY <2>1
<1>2. ASSUME NEW n \in 1..k, g[1..(n - 1)] \in A
      PROVE  g[1..n] = F[<<n, g[1..(n - 1)]>>]
  <2>1. Max(1..n) = n /\ (1..n) \ {n} = 1..(n - 1) /\ 1..n # {}
    <3>1. n \in Nat \ {0}
      OBVIOUS
    <3> QED
      BY <3>1, MaxOfInterval
  <2>2. 1..n \in SUBSET (1..k)
    OBVIOUS
  <2>3. g[1..n] = F[<<Max(1..n), g[(1..n) \ {Max(1..n)}]>>]
    BY <1>2, <2>1, <2>2
  <2> QED
    BY <2>1, <2>3
<1> DEFINE N == {n \in Nat : n <= k => g[1..n] \in A}
<1>3. 0 \in N
  BY <1>1
<1>4. ASSUME NEW n \in Nat, n \in N PROVE n + 1 \in N
  <2> SUFFICES ASSUME n + 1 <= k PROVE g[1..(n + 1)] \in A
    OBVIOUS
  <2>1. n + 1 \in 1..k /\ (n + 1) - 1 = n /\ g[1..n] \in A
    BY <1>4
  <2>2. g[1..(n + 1)] = F[<<n + 1, g[1..n]>>]
    BY <1>2, <2>1
  <2>3. <<n + 1, g[1..n]>> \in (1..k) \X A
    BY <2>1
  <2> QED
    BY <2>2, <2>3
<1> HIDE DEF N
<1>5. Nat \subseteq N
  BY <1>3, <1>4, Counting
<1>6. \A n \in 0..k : g[1..n] \in A
  <2> SUFFICES ASSUME NEW n \in 0..k PROVE g[1..n] \in A
    OBVIOUS
  <2>1. n \in N /\ n <= k
    BY <1>5
  <2> QED
    BY <2>1 DEF N
<1>7. \A n \in 1..k : n - 1 \in 0..k
  OBVIOUS
<1> QED
  BY <1>1, <1>2, <1>6, <1>7

(* There is one, and it stays among the values of its steps.               *)
FoldFits(A, base, k, F, g) ==
  /\ g = [s \in SUBSET (1..k) |-> FoldStep(F, base, s, g)]
  /\ \A s \in SUBSET (1..k) : s # {} => Max(s) \in 1..k /\ g[s \ {Max(s)}] \in A

LEMMA FoldOfSequence ==
  ASSUME NEW A, NEW base \in A, NEW k \in Nat, NEW F \in [(1..k) \X A -> A]
  PROVE  \E g : FoldFits(A, base, k, F, g)
<1>1. PICK g \in [SUBSET (1..k) -> A] : IsFold(F, base, k, g)
  BY FoldExists
<1>2. ASSUME NEW s \in SUBSET (1..k), s # {}
      PROVE  Max(s) \in 1..k /\ g[s \ {Max(s)}] \in A
  <2>1. Max(s) \in s
    BY <1>2, MaxIs
  <2>2. s \ {Max(s)} \in SUBSET (1..k)
    OBVIOUS
  <2> QED
    BY <2>1, <2>2
<1> QED
  BY <1>1, <1>2 DEF IsFold, FoldFits

(* Folds whose steps are the same are the same.                            *)
LEMMA FoldsAgree ==
  ASSUME NEW k \in Nat, NEW g, NEW h, g[1..0] = h[1..0],
         \A n \in 1..k : g[1..(n - 1)] = h[1..(n - 1)] => g[1..n] = h[1..n]
  PROVE  g[1..k] = h[1..k]
<1> DEFINE N == {n \in Nat : n <= k => g[1..n] = h[1..n]}
<1>1. 0 \in N
  OBVIOUS
<1>2. ASSUME NEW n \in Nat, n \in N PROVE n + 1 \in N
  <2> SUFFICES ASSUME n + 1 <= k PROVE g[1..(n + 1)] = h[1..(n + 1)]
    OBVIOUS
  <2>1. n + 1 \in 1..k /\ (n + 1) - 1 = n /\ g[1..n] = h[1..n]
    BY <1>2
  <2> QED
    BY <2>1
<1> HIDE DEF N
<1>3. k \in N
  BY <1>1, <1>2, Counting
<1> QED
  BY <1>3 DEF N

(* FlattenSeq                                                              *)
FlatStep(f, seqs, i) == IF i = 1 THEN seqs[i] ELSE f[i - 1] \o seqs[i]
IsFlat(f, seqs, n) == f = [i \in 1..n |-> FlatStep(f, seqs, i)]

LEMMA FlatExists ==
  ASSUME NEW seqs, NEW k \in Nat
  PROVE  \E f : IsFlat(f, seqs, k)
<1> DEFINE N == {n \in Nat : \E f : IsFlat(f, seqs, n)}
<1>1. 0 \in N
  <2> DEFINE f == [i \in 1..0 |-> <<>>]
  <2>1. IsFlat(f, seqs, 0)
    BY DEF IsFlat, FlatStep
  <2> HIDE DEF f
  <2> QED
    BY <2>1
<1>2. ASSUME NEW n \in Nat, n \in N PROVE n + 1 \in N
  <2>1. PICK f : IsFlat(f, seqs, n)
    BY <1>2
  <2> DEFINE h == [i \in 1..(n + 1) |-> FlatStep(f, seqs, i)]
  <2>2. \A i \in 1..n : h[i] = f[i]
    BY <2>1 DEF IsFlat
  <2>3. ASSUME NEW i \in 1..(n + 1) PROVE FlatStep(f, seqs, i) = FlatStep(h, seqs, i)
    <3> HIDE DEF h
    <3>1. CASE i = 1
      BY <3>1 DEF FlatStep
    <3>2. CASE i # 1
      <4>1. i - 1 \in 1..n
        BY <3>2
      <4> QED
        BY <2>2, <3>2, <4>1 DEF FlatStep
    <3> QED
      BY <3>1, <3>2
  <2>4. IsFlat(h, seqs, n + 1)
    BY <2>3 DEF IsFlat
  <2> HIDE DEF h
  <2> QED
    BY <2>4
<1> HIDE DEF N
<1>3. k \in N
  BY <1>1, <1>2, Counting
<1> QED
  BY <1>3 DEF N

FlatGrows(S, f, seqs) ==
  /\ \A n \in 1..Len(seqs) : n = 1 => f[n] = seqs[n]
  /\ \A n \in 1..Len(seqs) : n # 1 => f[n] = f[n - 1] \o seqs[n]
  /\ \A n \in 1..Len(seqs) : f[n] \in Seq(S)

LEMMA FlatSteps ==
  ASSUME NEW S, NEW seqs \in Seq(Seq(S)), NEW f, IsFlat(f, seqs, Len(seqs))
  PROVE  FlatGrows(S, f, seqs)
<1> DEFINE k == Len(seqs)
<1>0. k \in Nat /\ \A n \in 1..k : seqs[n] \in Seq(S)
  BY LenProperties, ElementOfSeq
<1> HIDE DEF k
<1>1. \A n \in 1..k : n = 1 => f[n] = seqs[n]
  BY <1>0 DEF IsFlat, FlatStep, k
<1>2. \A n \in 1..k : n # 1 => f[n] = f[n - 1] \o seqs[n]
  BY <1>0 DEF IsFlat, FlatStep, k
<1> DEFINE N == {n \in Nat : n + 1 <= k => f[n + 1] \in Seq(S)}
<1>3. 0 \in N
  BY <1>0, <1>1
<1>4. ASSUME NEW n \in Nat, n \in N PROVE n + 1 \in N
  <2> DEFINE m == (n + 1) + 1
  <2> SUFFICES ASSUME m <= k PROVE f[m] \in Seq(S)
    OBVIOUS
  <2>1. m \in 1..k /\ m # 1 /\ m - 1 = n + 1 /\ n + 1 <= k
    BY <1>0
  <2>2. f[n + 1] \in Seq(S) /\ seqs[m] \in Seq(S)
    BY <1>0, <1>4, <2>1
  <2>3. f[m] = f[n + 1] \o seqs[m]
    BY <1>2, <2>1
  <2> HIDE DEF m
  <2> QED
    BY <2>2, <2>3, ConcatProperties
<1> HIDE DEF N
<1>5. Nat \subseteq N
  BY <1>3, <1>4, Counting
<1>6. ASSUME NEW n \in 1..k PROVE f[n] \in Seq(S)
  <2>1. n - 1 \in N /\ (n - 1) + 1 = n /\ n <= k
    BY <1>0, <1>5
  <2> QED
    BY <2>1 DEF N
<1> QED
  BY <1>1, <1>2, <1>6 DEF FlatGrows, k

LEMMA FlatIs ==
  ASSUME NEW S, NEW seqs \in Seq(Seq(S)), seqs # <<>>
  PROVE  \E f : IsFlat(f, seqs, Len(seqs)) /\ FlattenSeq(seqs) = f[Len(seqs)]
<1>1. Len(seqs) \in Nat /\ Len(seqs) # 0
  BY LenProperties, EmptySeq
<1>2. FlattenSeq(seqs) = (CHOOSE f : IsFlat(f, seqs, Len(seqs)))[Len(seqs)]
  BY <1>1 DEF FlattenSeq, IsFlat, FlatStep
<1> QED
  BY <1>1, <1>2, FlatExists

LEMMA FlatNone == FlattenSeq(<<>>) = <<>>
BY DEF FlattenSeq

LEMMA FlatAppend ==
  ASSUME NEW S, NEW seqs \in Seq(Seq(S)), NEW e \in Seq(S)
  PROVE  /\ FlattenSeq(seqs) \in Seq(S)
         /\ FlattenSeq(Append(seqs, e)) = FlattenSeq(seqs) \o e
<1> DEFINE more == Append(seqs, e)
           l == Len(seqs)
<1>1. /\ more \in Seq(Seq(S)) /\ Len(more) = l + 1 /\ l \in Nat
      /\ more[l + 1] = e /\ more # <<>> /\ \A n \in 1..l : more[n] = seqs[n]
  BY AppendProperties, LenProperties
<1> HIDE DEF more
<1>2. PICK h : IsFlat(h, more, l + 1) /\ FlattenSeq(more) = h[l + 1]
  BY <1>1, FlatIs
<1>3. /\ h[1] = more[1]
      /\ \A n \in 1..(l + 1) : n # 1 => h[n] = h[n - 1] \o more[n]
  <2>1. IsFlat(h, more, Len(more))
    BY <1>1, <1>2
  <2>2. /\ \A n \in 1..Len(more) : n = 1 => h[n] = more[n]
        /\ \A n \in 1..Len(more) : n # 1 => h[n] = h[n - 1] \o more[n]
        /\ \A n \in 1..Len(more) : h[n] \in Seq(S)
    <3>1. FlatGrows(S, h, more)
      BY <1>1, <2>1, FlatSteps
    <3> QED
      BY <3>1 DEF FlatGrows
  <2>3. 1 \in 1..(l + 1)
    BY <1>1
  <2> QED
    BY <1>1, <2>2, <2>3
<1>4. CASE l = 0
  <2>1. seqs = <<>>
    BY <1>4, EmptySeq
  <2>2. FlattenSeq(more) = e
    BY <1>1, <1>2, <1>3, <1>4
  <2> QED
    BY <2>1, <2>2, FlatNone, ConcatEmptySeq, EmptySeq DEF more
<1>5. CASE l # 0
  <2>1. seqs # <<>>
    BY <1>5, EmptySeq
  <2>2. PICK f : IsFlat(f, seqs, l) /\ FlattenSeq(seqs) = f[l]
    BY <2>1, FlatIs
  <2>3. /\ f[1] = seqs[1]
        /\ \A n \in 1..l : n # 1 => f[n] = f[n - 1] \o seqs[n]
        /\ \A n \in 1..l : f[n] \in Seq(S)
    <3>1. /\ \A n \in 1..Len(seqs) : n = 1 => f[n] = seqs[n]
          /\ \A n \in 1..Len(seqs) : n # 1 => f[n] = f[n - 1] \o seqs[n]
          /\ \A n \in 1..Len(seqs) : f[n] \in Seq(S)
      <4>1. FlatGrows(S, f, seqs)
        BY <2>2, FlatSteps
      <4> QED
        BY <4>1 DEF FlatGrows
    <3>2. 1 \in 1..l
      BY <1>1, <1>5
    <3> QED
      BY <3>1, <3>2
  <2> DEFINE N == {n \in Nat : n + 1 <= l => f[n + 1] = h[n + 1]}
  <2>4. 0 \in N
    BY <1>1, <1>3, <1>5, <2>3
  <2>5. ASSUME NEW n \in Nat, n \in N PROVE n + 1 \in N
    <3> DEFINE m == (n + 1) + 1
    <3> SUFFICES ASSUME m <= l PROVE f[m] = h[m]
      OBVIOUS
    <3>1. m \in 1..l /\ m \in 1..(l + 1) /\ m # 1 /\ m - 1 = n + 1 /\ n + 1 <= l
      BY <1>1
    <3>2. f[n + 1] = h[n + 1] /\ more[m] = seqs[m]
      BY <1>1, <2>5, <3>1
    <3>3. f[m] = f[n + 1] \o seqs[m] /\ h[m] = h[n + 1] \o more[m]
      BY <1>3, <2>3, <3>1
    <3> HIDE DEF m
    <3> QED
      BY <3>2, <3>3
  <2> HIDE DEF N
  <2>6. l - 1 \in N /\ (l - 1) + 1 = l /\ l <= l /\ l \in 1..l
    <3>1. Nat \subseteq N
      BY <2>4, <2>5, Counting
    <3>2. l - 1 \in Nat /\ (l - 1) + 1 = l /\ l <= l /\ l \in 1..l
      <4> HIDE DEF l
      <4> QED
        BY <1>1, <1>5
    <3> QED
      BY <3>1, <3>2
  <2>7. f[l] = h[l]
    BY <2>6 DEF N
  <2>8. h[l + 1] = h[l] \o e
    <3>1. l + 1 \in 1..(l + 1) /\ l + 1 # 1 /\ (l + 1) - 1 = l
      BY <1>1, <1>5
    <3> QED
      BY <1>1, <1>3, <3>1
  <2> QED
    BY <1>2, <2>2, <2>3, <2>6, <2>7, <2>8 DEF more
<1> QED
  BY <1>4, <1>5

LEMMA FlatConcat ==
  ASSUME NEW S, NEW s \in Seq(Seq(S)), NEW t \in Seq(Seq(S))
  PROVE  FlattenSeq(s \o t) = FlattenSeq(s) \o FlattenSeq(t)
<1> DEFINE A == {u \in Seq(Seq(S)) : FlattenSeq(s \o u) = FlattenSeq(s) \o FlattenSeq(u)}
<1>1. <<>> \in A
  BY FlatNone, FlatAppend, ConcatEmptySeq, EmptySeq
<1>2. ASSUME NEW u \in Seq(Seq(S)), NEW e \in Seq(S), u \in A PROVE Append(u, e) \in A
  <2>1. Append(u, e) \in Seq(Seq(S)) /\ s \o u \in Seq(Seq(S))
    BY AppendProperties, ConcatProperties
  <2>2. s \o Append(u, e) = Append(s \o u, e)
    <3>1. <<e>> \in Seq(Seq(S))
      OBVIOUS
    <3> QED
      BY <2>1, <3>1, AppendIsConcat, ConcatAssociative
  <2>3. FlattenSeq(Append(s \o u, e)) = FlattenSeq(s \o u) \o e
    BY <2>1, FlatAppend
  <2>4. FlattenSeq(Append(u, e)) = FlattenSeq(u) \o e
    BY FlatAppend
  <2>5. FlattenSeq(s) \in Seq(S) /\ FlattenSeq(u) \in Seq(S)
    BY FlatAppend
  <2>6. (FlattenSeq(s) \o FlattenSeq(u)) \o e = FlattenSeq(s) \o (FlattenSeq(u) \o e)
    <3>1. \A x, y, z \in Seq(S) : (x \o y) \o z = x \o (y \o z)
      BY ConcatAssociative, SMTT(20)
    <3> QED
      BY <2>5, <3>1
  <2>7. FlattenSeq(s \o u) = FlattenSeq(s) \o FlattenSeq(u)
    BY <1>2
  <2> QED
    BY <2>1, <2>2, <2>3, <2>4, <2>6, <2>7
<1> HIDE DEF A
<1>3. t \in A
  BY <1>1, <1>2, Lengthening
<1> QED
  BY <1>3 DEF A

LEMMA FlatOne ==
  ASSUME NEW S, NEW e \in Seq(S) PROVE FlattenSeq(<<e>>) = e
<1>1. <<e>> = Append(<<>>, e) /\ <<>> \in Seq(Seq(S))
  OBVIOUS
<1> QED
  <2>1. FlattenSeq(Append(<<>>, e)) = FlattenSeq(<<>>) \o e
    BY <1>1, FlatAppend
  <2>2. <<>> \o e = e
    BY ConcatEmptySeq
  <2> QED
    BY <1>1, <2>1, <2>2, FlatNone

-----------------------------------------------------------------------------
(* The folds a card is laid out with                                       *)

Char == 1..LineWidth
AWord == Seq(Char)
ALine == Seq(AWord)

(* The width of a word                                                     *)
WidthStep(g, w, s) == IF s = {} THEN 0 ELSE g[s \ {Max(s)}] + w[Max(s)]

LEMMA WordWidthIs ==
  ASSUME NEW w \in AWord
  PROVE  \E g : /\ WordWidth(w) = g[1..Len(w)]
                /\ g[1..0] = 0
                /\ \A n \in 1..Len(w) : g[1..n] = g[1..(n - 1)] + w[n]
                /\ \A n \in 0..Len(w) : g[1..n] \in Nat
<1> DEFINE k == Len(w)
           IsIt(g) == g = [s \in SUBSET (DOMAIN w) |-> WidthStep(g, w, s)]
           F == [z \in (1..k) \X Nat |-> z[2] + w[z[1]]]
<1>1. k \in Nat /\ DOMAIN w = 1..k /\ \A n \in 1..k : w[n] \in Nat
  <2>1. \A n \in 1..k : w[n] \in Char
    BY ElementOfSeq DEF AWord
  <2> QED
    BY <2>1, LenProperties DEF AWord, Char
<1> HIDE DEF k
<1>2. F \in [(1..k) \X Nat -> Nat] /\ 0 \in Nat
  BY <1>1
<1>3. \A n \in 1..k, a \in Nat : F[<<n, a>>] = a + w[n]
  BY <1>1
<1> HIDE DEF F
<1>4. WordWidth(w) = (CHOOSE g : IsIt(g))[DOMAIN w]
  BY DEF WordWidth, FoldLeft, MapThenFoldSet, WidthStep
<1>5. \E g : IsIt(g)
  <2>1. PICK g : FoldFits(Nat, 0, k, F, g)
    BY <1>1, <1>2, FoldOfSequence, Zenon
  <2>2. \A s \in SUBSET (1..k) : FoldStep(F, 0, s, g) = WidthStep(g, w, s)
    BY <1>3, <2>1 DEF FoldFits, FoldStep, WidthStep
  <2>3. g = [s \in SUBSET (1..k) |-> WidthStep(g, w, s)]
    BY <2>1, <2>2 DEF FoldFits
  <2> QED
    BY <1>1, <2>3
<1>6. PICK g : IsIt(g) /\ WordWidth(w) = g[1..k]
  BY <1>1, <1>4, <1>5
<1>7. FoldHolds(Nat, 0, k, F, g)
  <2>1. \A s \in SUBSET (1..k) : g[s] = WidthStep(g, w, s)
    BY <1>1, <1>6
  <2>2. ASSUME NEW s \in SUBSET (1..k), s # {} PROVE Max(s) \in 1..k
    BY <1>1, <2>2, MaxIs
  <2>3. {} \in SUBSET (1..k)
    OBVIOUS
  <2> QED
    BY <1>3, <2>1, <2>2, <2>3 DEF WidthStep, FoldHolds
<1>8. StepByStep(Nat, 0, k, F, g)
  BY <1>1, <1>2, <1>7, FoldSteps, Zenon
<1>9. \A n \in 1..k : g[1..n] = g[1..(n - 1)] + w[n]
  <2>1. \A n \in 1..k : n - 1 \in 0..k
    BY <1>1
  <2> QED
    BY <1>3, <1>8, <2>1 DEF StepByStep
<1> QED
  BY <1>6, <1>8, <1>9 DEF k, StepByStep

LEMMA WordWidens ==
  ASSUME NEW w \in AWord, NEW c \in Char
  PROVE  WordWidth(w) \in Nat /\ WordWidth(Append(w, c)) = WordWidth(w) + c
<1> DEFINE more == Append(w, c)
           k == Len(w)
<1>1. /\ k \in Nat /\ more \in AWord /\ Len(more) = k + 1 /\ more[k + 1] = c
      /\ \A n \in 1..k : more[n] = w[n]
  BY AppendProperties, LenProperties DEF AWord
<1> HIDE DEF more
<1>2. PICK g : /\ WordWidth(w) = g[1..k]
               /\ g[1..0] = 0
               /\ \A n \in 1..k : g[1..n] = g[1..(n - 1)] + w[n]
               /\ \A n \in 0..k : g[1..n] \in Nat
  BY WordWidthIs
<1>3. PICK h : /\ WordWidth(more) = h[1..(k + 1)]
               /\ h[1..0] = 0
               /\ \A n \in 1..(k + 1) : h[1..n] = h[1..(n - 1)] + more[n]
  <2>1. \E h : /\ WordWidth(more) = h[1..Len(more)]
               /\ h[1..0] = 0
               /\ \A n \in 1..Len(more) : h[1..n] = h[1..(n - 1)] + more[n]
    <3>1. more \in AWord
      BY <1>1
    <3> QED
      BY <3>1, WordWidthIs
  <2> HIDE DEF k
  <2> QED
    BY <1>1, <2>1
<1> HIDE DEF k
<1>4. g[1..k] = h[1..k]
  <2>1. \A n \in 1..k : n \in 1..(k + 1)
    BY <1>1
  <2>2. \A n \in 1..k : g[1..(n - 1)] = h[1..(n - 1)] => g[1..n] = h[1..n]
    BY <1>1, <1>2, <1>3, <2>1
  <2> QED
    BY <1>1, <1>2, <1>3, <2>2, FoldsAgree
<1>5. h[1..(k + 1)] = h[1..k] + more[k + 1]
  <2>1. k + 1 \in 1..(k + 1) /\ (k + 1) - 1 = k
    BY <1>1
  <2> QED
    BY <1>3, <2>1
<1>6. k \in 0..k
  BY <1>1
<1> QED
  BY <1>1, <1>2, <1>3, <1>4, <1>5, <1>6 DEF more

LEMMA NoWidth == WordWidth(<<>>) = 0
<1>1. <<>> \in AWord /\ Len(<<>>) = 0
  BY DEF AWord
<1> QED
  BY <1>1, WordWidthIs

LEMMA WordWidthTyped == ASSUME NEW w \in AWord PROVE WordWidth(w) \in Nat
<1>1. Len(w) \in 0..Len(w)
  BY LenProperties DEF AWord
<1> QED
  BY <1>1, WordWidthIs

(* The width of a line without its spaces                                  *)
InkOf(words) == FoldLeft(LAMBDA w, word : w + WordWidth(word), 0, words)
Added(w, word) == w + WordWidth(word)

LEMMA AddedTyped == 0 \in Nat /\ \A w \in Nat, word \in AWord : Added(w, word) \in Nat
BY WordWidens, WordWidthTyped DEF Added

InkStep(g, s, x) == IF x = {} THEN 0 ELSE Added(g[x \ {Max(x)}], s[Max(x)])

LEMMA InkIs ==
  ASSUME NEW s \in Seq(AWord)
  PROVE  \E g : /\ InkOf(s) = g[1..Len(s)]
                /\ g[1..0] = 0
                /\ \A n \in 1..Len(s) : g[1..n] = Added(g[1..(n - 1)], s[n])
                /\ \A n \in 0..Len(s) : g[1..n] \in Nat
<1> DEFINE k == Len(s)
           IsIt(g) == g = [x \in SUBSET (DOMAIN s) |-> InkStep(g, s, x)]
           F == [z \in (1..k) \X Nat |-> Added(z[2], s[z[1]])]
<1>1. k \in Nat /\ DOMAIN s = 1..k /\ \A n \in 1..k : s[n] \in AWord
  BY ElementOfSeq, LenProperties
<1> HIDE DEF k
<1>2. F \in [(1..k) \X Nat -> Nat] /\ 0 \in Nat
  <2>1. \A z \in (1..k) \X Nat : Added(z[2], s[z[1]]) \in Nat
    BY <1>1, AddedTyped
  <2>2. 0 \in Nat
    BY AddedTyped
  <2> QED
    BY <2>1, <2>2
<1>3. \A n \in 1..k, a \in Nat : F[<<n, a>>] = Added(a, s[n])
  OBVIOUS
<1> HIDE DEF F
<1>4. InkOf(s) = (CHOOSE g : IsIt(g))[DOMAIN s]
  BY DEF InkOf, Added, FoldLeft, MapThenFoldSet, InkStep
<1>5. \E g : IsIt(g)
  <2>1. PICK g : FoldFits(Nat, 0, k, F, g)
    BY <1>1, <1>2, FoldOfSequence, Zenon
  <2>2. \A x \in SUBSET (1..k) : FoldStep(F, 0, x, g) = InkStep(g, s, x)
    BY <1>3, <2>1 DEF FoldFits, FoldStep, InkStep
  <2>3. g = [x \in SUBSET (1..k) |-> InkStep(g, s, x)]
    BY <2>1, <2>2 DEF FoldFits
  <2> QED
    BY <1>1, <2>3
<1>6. PICK g : IsIt(g) /\ InkOf(s) = g[1..k]
  BY <1>1, <1>4, <1>5
<1>7. FoldHolds(Nat, 0, k, F, g)
  <2>1. \A x \in SUBSET (1..k) : g[x] = InkStep(g, s, x)
    BY <1>1, <1>6
  <2>2. ASSUME NEW x \in SUBSET (1..k), x # {} PROVE Max(x) \in 1..k
    BY <1>1, <2>2, MaxIs
  <2>3. {} \in SUBSET (1..k)
    OBVIOUS
  <2> QED
    BY <1>3, <2>1, <2>2, <2>3 DEF InkStep, FoldHolds
<1>8. StepByStep(Nat, 0, k, F, g)
  BY <1>1, <1>2, <1>7, FoldSteps, Zenon
<1>9. \A n \in 1..k : g[1..n] = Added(g[1..(n - 1)], s[n])
  <2>1. \A n \in 1..k : n - 1 \in 0..k
    BY <1>1
  <2> QED
    BY <1>3, <1>8, <2>1 DEF StepByStep
<1> QED
  BY <1>6, <1>8, <1>9 DEF k, StepByStep

(* All the lemmas below need of a line's width.                            *)
LEMMA LineWidths ==
  /\ LineOf(<<>>) = 0
  /\ \A w \in AWord : LineOf(<<w>>) = WordWidth(w)
<1>1. /\ InkOf(<<>>) = 0
      /\ \A w \in AWord : InkOf(<<w>>) = WordWidth(w)
  <2>1. <<>> \in Seq(AWord) /\ Len(<<>>) = 0
    OBVIOUS
  <2>2. InkOf(<<>>) = 0
    BY <2>1, InkIs
  <2>3. ASSUME NEW w \in AWord PROVE InkOf(<<w>>) = WordWidth(w)
    <3>1. <<w>> \in Seq(AWord) /\ Len(<<w>>) = 1 /\ <<w>>[1] = w
      OBVIOUS
    <3>2. PICK g : /\ InkOf(<<w>>) = g[1..Len(<<w>>)]
                   /\ g[1..0] = 0
                   /\ \A n \in 1..Len(<<w>>) : g[1..n] = Added(g[1..(n - 1)], <<w>>[n])
      BY <3>1, InkIs, ZenonT(30)
    <3>3. 1 \in 1..1 /\ 1 - 1 = 0
      OBVIOUS
    <3>4. InkOf(<<w>>) = Added(0, w)
      BY <3>1, <3>2, <3>3
    <3> QED
      BY <3>4, WordWidthTyped DEF Added
  <2> QED
    BY <2>2, <2>3
<1>2. \A words : LineOf(words) = InkOf(words)
                   + IF words = <<>> THEN 0 ELSE SpaceWidth * (Len(words) - 1)
  BY DEF LineOf, InkOf
<1>3. LineOf(<<>>) = 0
  BY <1>1, <1>2
<1>4. ASSUME NEW w \in AWord PROVE LineOf(<<w>>) = WordWidth(w)
  <2>1. <<w>> # <<>> /\ Len(<<w>>) - 1 = 0 /\ SpaceWidth * 0 = 0
    BY HeightsAssumption
  <2>2. WordWidth(w) \in Nat
    BY WordWidthTyped
  <2>3. LineOf(<<w>>) = InkOf(<<w>>) + SpaceWidth * (Len(<<w>>) - 1)
    BY <1>2, <2>1
  <2>4. LineOf(<<w>>) = InkOf(<<w>>) + 0
    BY <2>1, <2>3
  <2>5. InkOf(<<w>>) = WordWidth(w)
    BY <1>1
  <2> QED
    BY <2>2, <2>4, <2>5
<1> QED
  BY <1>3, <1>4

(* Cut, one character after another                                        *)
CutStep(acc, ch) ==
  IF acc.buf # <<>> /\ WordWidth(Append(acc.buf, ch)) > LineWidth
  THEN [full |-> Append(acc.full, <<acc.buf>>), buf |-> <<ch>>]
  ELSE [acc EXCEPT !.buf = Append(@, ch)]
Uncut == [full |-> <<>>, buf |-> <<>>]
Cutting == [full : Seq(ALine), buf : AWord]

LEMMA CutTyped ==
  Uncut \in Cutting /\ \A acc \in Cutting, ch \in Char : CutStep(acc, ch) \in Cutting
<1>1. Uncut \in Cutting
  BY DEF Uncut, Cutting, ALine, AWord
<1>2. ASSUME NEW acc \in Cutting, NEW ch \in Char PROVE CutStep(acc, ch) \in Cutting
  <2>1. acc.full \in Seq(ALine) /\ acc.buf \in AWord
    BY DEF Cutting
  <2>2. Append(acc.buf, ch) \in AWord /\ <<ch>> \in AWord
    BY <2>1 DEF AWord
  <2>3. <<acc.buf>> \in ALine
    BY <2>1 DEF ALine
  <2>4. Append(acc.full, <<acc.buf>>) \in Seq(ALine)
    BY <2>1, <2>3
  <2> QED
    BY <2>1, <2>2, <2>4 DEF CutStep, Cutting
<1> QED
  BY <1>1, <1>2

CutFold(g, s, x) == IF x = {} THEN Uncut ELSE CutStep(g[x \ {Max(x)}], s[Max(x)])

LEMMA CutIs ==
  ASSUME NEW s \in Seq(Char)
  PROVE  \E g : /\ Cut(s) = g[1..Len(s)]
                /\ g[1..0] = Uncut
                /\ \A n \in 1..Len(s) : g[1..n] = CutStep(g[1..(n - 1)], s[n])
                /\ \A n \in 0..Len(s) : g[1..n] \in Cutting
<1> DEFINE k == Len(s)
           IsIt(g) == g = [x \in SUBSET (DOMAIN s) |-> CutFold(g, s, x)]
           F == [z \in (1..k) \X Cutting |-> CutStep(z[2], s[z[1]])]
<1>1. k \in Nat /\ DOMAIN s = 1..k /\ \A n \in 1..k : s[n] \in Char
  BY ElementOfSeq, LenProperties
<1> HIDE DEF k
<1>2. F \in [(1..k) \X Cutting -> Cutting] /\ Uncut \in Cutting
  <2>1. \A z \in (1..k) \X Cutting : CutStep(z[2], s[z[1]]) \in Cutting
    BY <1>1, CutTyped
  <2>2. Uncut \in Cutting
    BY CutTyped
  <2> QED
    BY <2>1, <2>2
<1>3. \A n \in 1..k, a \in Cutting : F[<<n, a>>] = CutStep(a, s[n])
  OBVIOUS
<1> HIDE DEF F
<1>4. Cut(s) = (CHOOSE g : IsIt(g))[DOMAIN s]
  BY DEF Cut, CutStep, Uncut, FoldLeft, MapThenFoldSet, CutFold
<1>5. \E g : IsIt(g)
  <2>1. PICK g : FoldFits(Cutting, Uncut, k, F, g)
    BY <1>1, <1>2, FoldOfSequence, Zenon
  <2>2. \A x \in SUBSET (1..k) : FoldStep(F, Uncut, x, g) = CutFold(g, s, x)
    BY <1>3, <2>1 DEF FoldFits, FoldStep, CutFold
  <2>3. g = [x \in SUBSET (1..k) |-> CutFold(g, s, x)]
    BY <2>1, <2>2 DEF FoldFits
  <2> QED
    BY <1>1, <2>3
<1>6. PICK g : IsIt(g) /\ Cut(s) = g[1..k]
  BY <1>1, <1>4, <1>5
<1>7. FoldHolds(Cutting, Uncut, k, F, g)
  <2>1. \A x \in SUBSET (1..k) : g[x] = CutFold(g, s, x)
    BY <1>1, <1>6
  <2>2. ASSUME NEW x \in SUBSET (1..k), x # {} PROVE Max(x) \in 1..k
    BY <1>1, <2>2, MaxIs
  <2>3. {} \in SUBSET (1..k)
    OBVIOUS
  <2> QED
    BY <1>3, <2>1, <2>2, <2>3 DEF CutFold, FoldHolds
<1>8. StepByStep(Cutting, Uncut, k, F, g)
  BY <1>1, <1>2, <1>7, FoldSteps, Zenon
<1>9. \A n \in 1..k : g[1..n] = CutStep(g[1..(n - 1)], s[n])
  <2>1. \A n \in 1..k : n - 1 \in 0..k
    BY <1>1
  <2> QED
    BY <1>3, <1>8, <2>1 DEF StepByStep
<1> QED
  BY <1>6, <1>8, <1>9 DEF k, StepByStep

LEMMA CutAppend ==
  ASSUME NEW s \in Seq(Char), NEW e \in Char
  PROVE  /\ Cut(s) \in Cutting
         /\ Cut(Append(s, e)) = CutStep(Cut(s), e)
<1> DEFINE more == Append(s, e)
           k == Len(s)
<1>1. /\ k \in Nat /\ more \in Seq(Char) /\ Len(more) = k + 1 /\ more[k + 1] = e
      /\ \A n \in 1..k : more[n] = s[n]
  BY AppendProperties, LenProperties
<1> HIDE DEF more
<1>2. PICK g : /\ Cut(s) = g[1..k]
               /\ g[1..0] = Uncut
               /\ \A n \in 1..k : g[1..n] = CutStep(g[1..(n - 1)], s[n])
               /\ \A n \in 0..k : g[1..n] \in Cutting
  BY CutIs
<1>3. PICK h : /\ Cut(more) = h[1..(k + 1)]
               /\ h[1..0] = Uncut
               /\ \A n \in 1..(k + 1) : h[1..n] = CutStep(h[1..(n - 1)], more[n])
  <2>1. \E h : /\ Cut(more) = h[1..Len(more)]
               /\ h[1..0] = Uncut
               /\ \A n \in 1..Len(more) : h[1..n] = CutStep(h[1..(n - 1)], more[n])
    BY <1>1, CutIs
  <2> HIDE DEF k
  <2> QED
    BY <1>1, <2>1
<1> HIDE DEF k
<1>4. g[1..k] = h[1..k]
  <2>1. \A n \in 1..k : n \in 1..(k + 1)
    BY <1>1
  <2>2. \A n \in 1..k : g[1..(n - 1)] = h[1..(n - 1)] => g[1..n] = h[1..n]
    BY <1>1, <1>2, <1>3, <2>1
  <2> QED
    BY <1>1, <1>2, <1>3, <2>2, FoldsAgree
<1>5. h[1..(k + 1)] = CutStep(h[1..k], more[k + 1])
  <2>1. k + 1 \in 1..(k + 1) /\ (k + 1) - 1 = k
    BY <1>1
  <2> QED
    BY <1>3, <2>1
<1>6. k \in 0..k
  BY <1>1
<1> QED
  BY <1>1, <1>2, <1>3, <1>4, <1>5, <1>6 DEF more

LEMMA CutNone == Cut(<<>>) = Uncut
<1>1. <<>> \in Seq(Char) /\ Len(<<>>) = 0
  OBVIOUS
<1> QED
  BY <1>1, CutIs

LEMMA CutIsTyped == ASSUME NEW s \in Seq(Char) PROVE Cut(s) \in Cutting
<1>1. Len(s) \in 0..Len(s)
  BY LenProperties
<1> QED
  BY <1>1, CutIs

(* Place, one word after another                                           *)
Setting == [lines : Seq(ALine), line : ALine]
Blankline == [lines |-> <<>>, line |-> <<>>]
SetWords(p) == FoldLeft(Place, [lines |-> <<>>, line |-> <<>>], p)

LEMMA PlaceTyped ==
  Blankline \in Setting /\ \A acc \in Setting, word \in AWord : Place(acc, word) \in Setting
<1>1. Blankline \in Setting
  BY DEF Blankline, Setting, ALine
<1>2. ASSUME NEW acc \in Setting, NEW word \in AWord PROVE Place(acc, word) \in Setting
  <2>1. acc.lines \in Seq(ALine) /\ acc.line \in ALine
    BY DEF Setting
  <2>2. Append(acc.line, word) \in ALine /\ <<word>> \in ALine
    BY <2>1 DEF ALine
  <2>3. Append(acc.lines, acc.line) \in Seq(ALine)
    BY <2>1
  <2>4. Cut(word).full \in Seq(ALine) /\ Cut(word).buf \in AWord
    <3>1. Cut(word) \in Cutting
      BY CutIsTyped DEF AWord
    <3> QED
      BY <3>1 DEF Cutting
  <2>5. <<Cut(word).buf>> \in ALine
    BY <2>4 DEF ALine
  <2>6. /\ acc.lines \o Cut(word).full \in Seq(ALine)
        /\ Append(acc.lines, acc.line) \o Cut(word).full \in Seq(ALine)
    BY <2>1, <2>3, <2>4
  <2> QED
    BY <2>1, <2>2, <2>3, <2>5, <2>6 DEF Place, Setting
<1> QED
  BY <1>1, <1>2

PlaceFold(g, s, x) == IF x = {} THEN Blankline ELSE Place(g[x \ {Max(x)}], s[Max(x)])

LEMMA PlaceIs ==
  ASSUME NEW s \in Seq(AWord)
  PROVE  \E g : /\ SetWords(s) = g[1..Len(s)]
                /\ g[1..0] = Blankline
                /\ \A n \in 1..Len(s) : g[1..n] = Place(g[1..(n - 1)], s[n])
                /\ \A n \in 0..Len(s) : g[1..n] \in Setting
<1> DEFINE k == Len(s)
           IsIt(g) == g = [x \in SUBSET (DOMAIN s) |-> PlaceFold(g, s, x)]
           F == [z \in (1..k) \X Setting |-> Place(z[2], s[z[1]])]
<1>1. k \in Nat /\ DOMAIN s = 1..k /\ \A n \in 1..k : s[n] \in AWord
  BY ElementOfSeq, LenProperties
<1> HIDE DEF k
<1>2. F \in [(1..k) \X Setting -> Setting] /\ Blankline \in Setting
  <2>1. \A z \in (1..k) \X Setting : Place(z[2], s[z[1]]) \in Setting
    BY <1>1, PlaceTyped
  <2>2. Blankline \in Setting
    BY PlaceTyped
  <2> QED
    BY <2>1, <2>2
<1>3. \A n \in 1..k, a \in Setting : F[<<n, a>>] = Place(a, s[n])
  OBVIOUS
<1> HIDE DEF F
<1>4. SetWords(s) = (CHOOSE g : IsIt(g))[DOMAIN s]
  BY DEF SetWords, Blankline, FoldLeft, MapThenFoldSet, PlaceFold
<1>5. \E g : IsIt(g)
  <2>1. PICK g : FoldFits(Setting, Blankline, k, F, g)
    BY <1>1, <1>2, FoldOfSequence, Zenon
  <2>2. \A x \in SUBSET (1..k) : FoldStep(F, Blankline, x, g) = PlaceFold(g, s, x)
    BY <1>3, <2>1 DEF FoldFits, FoldStep, PlaceFold
  <2>3. g = [x \in SUBSET (1..k) |-> PlaceFold(g, s, x)]
    BY <2>1, <2>2 DEF FoldFits
  <2> QED
    BY <1>1, <2>3
<1>6. PICK g : IsIt(g) /\ SetWords(s) = g[1..k]
  BY <1>1, <1>4, <1>5
<1>7. FoldHolds(Setting, Blankline, k, F, g)
  <2>1. \A x \in SUBSET (1..k) : g[x] = PlaceFold(g, s, x)
    BY <1>1, <1>6
  <2>2. ASSUME NEW x \in SUBSET (1..k), x # {} PROVE Max(x) \in 1..k
    BY <1>1, <2>2, MaxIs
  <2>3. {} \in SUBSET (1..k)
    OBVIOUS
  <2> QED
    BY <1>3, <2>1, <2>2, <2>3 DEF PlaceFold, FoldHolds
<1>8. StepByStep(Setting, Blankline, k, F, g)
  BY <1>1, <1>2, <1>7, FoldSteps, Zenon
<1>9. \A n \in 1..k : g[1..n] = Place(g[1..(n - 1)], s[n])
  <2>1. \A n \in 1..k : n - 1 \in 0..k
    BY <1>1
  <2> QED
    BY <1>3, <1>8, <2>1 DEF StepByStep
<1> QED
  BY <1>6, <1>8, <1>9 DEF k, StepByStep

LEMMA PlaceAppend ==
  ASSUME NEW s \in Seq(AWord), NEW e \in AWord
  PROVE  /\ SetWords(s) \in Setting
         /\ SetWords(Append(s, e)) = Place(SetWords(s), e)
<1> DEFINE more == Append(s, e)
           k == Len(s)
<1>1. /\ k \in Nat /\ more \in Seq(AWord) /\ Len(more) = k + 1 /\ more[k + 1] = e
      /\ \A n \in 1..k : more[n] = s[n]
  BY AppendProperties, LenProperties
<1> HIDE DEF more
<1>2. PICK g : /\ SetWords(s) = g[1..k]
               /\ g[1..0] = Blankline
               /\ \A n \in 1..k : g[1..n] = Place(g[1..(n - 1)], s[n])
               /\ \A n \in 0..k : g[1..n] \in Setting
  BY PlaceIs
<1>3. PICK h : /\ SetWords(more) = h[1..(k + 1)]
               /\ h[1..0] = Blankline
               /\ \A n \in 1..(k + 1) : h[1..n] = Place(h[1..(n - 1)], more[n])
  <2>1. \E h : /\ SetWords(more) = h[1..Len(more)]
               /\ h[1..0] = Blankline
               /\ \A n \in 1..Len(more) : h[1..n] = Place(h[1..(n - 1)], more[n])
    BY <1>1, PlaceIs
  <2> HIDE DEF k
  <2> QED
    BY <1>1, <2>1
<1> HIDE DEF k
<1>4. g[1..k] = h[1..k]
  <2>1. \A n \in 1..k : n \in 1..(k + 1)
    BY <1>1
  <2>2. \A n \in 1..k : g[1..(n - 1)] = h[1..(n - 1)] => g[1..n] = h[1..n]
    BY <1>1, <1>2, <1>3, <2>1
  <2> QED
    BY <1>1, <1>2, <1>3, <2>2, FoldsAgree
<1>5. h[1..(k + 1)] = Place(h[1..k], more[k + 1])
  <2>1. k + 1 \in 1..(k + 1) /\ (k + 1) - 1 = k
    BY <1>1
  <2> QED
    BY <1>3, <2>1
<1>6. k \in 0..k
  BY <1>1
<1> QED
  BY <1>1, <1>2, <1>3, <1>4, <1>5, <1>6 DEF more

LEMMA PlaceNone == SetWords(<<>>) = Blankline
<1>1. <<>> \in Seq(AWord) /\ Len(<<>>) = 0
  OBVIOUS
<1> QED
  BY <1>1, PlaceIs

-----------------------------------------------------------------------------
(* What wrapping does to a paragraph                                       *)

Glued(lines) == FlattenSeq(FlattenSeq(lines))

LEMMA GluedSums ==
  ASSUME NEW lines \in Seq(ALine), NEW line \in ALine
  PROVE  /\ FlattenSeq(lines) \in ALine /\ FlattenSeq(line) \in AWord
         /\ Glued(lines) \in AWord
         /\ FlattenSeq(Append(lines, line)) = FlattenSeq(lines) \o line
         /\ Glued(Append(lines, line)) = Glued(lines) \o FlattenSeq(line)
<1>1. lines \in Seq(Seq(AWord)) /\ line \in Seq(AWord) /\ line \in Seq(Seq(Char))
  BY DEF ALine, AWord
<1>2. /\ FlattenSeq(lines) \in Seq(AWord)
      /\ FlattenSeq(Append(lines, line)) = FlattenSeq(lines) \o line
  BY <1>1, FlatAppend
<1>3. FlattenSeq(line) \in Seq(Char)
  BY <1>1, FlatAppend
<1>4. FlattenSeq(lines) \in Seq(Seq(Char))
  BY <1>2 DEF AWord
<1>5. FlattenSeq(FlattenSeq(lines)) \in Seq(Char)
  BY <1>4, FlatAppend
<1>6. FlattenSeq(FlattenSeq(lines) \o line)
        = FlattenSeq(FlattenSeq(lines)) \o FlattenSeq(line)
  BY <1>1, <1>4, FlatConcat
<1> QED
  BY <1>2, <1>3, <1>5, <1>6 DEF Glued, ALine, AWord

LEMMA GluedConcat ==
  ASSUME NEW lines \in Seq(ALine), NEW more \in Seq(ALine)
  PROVE  Glued(lines \o more) = Glued(lines) \o Glued(more)
<1>1. lines \in Seq(Seq(AWord)) /\ more \in Seq(Seq(AWord))
  BY DEF ALine
<1>2. FlattenSeq(lines \o more) = FlattenSeq(lines) \o FlattenSeq(more)
  BY <1>1, FlatConcat
<1>3. FlattenSeq(lines) \in Seq(AWord) /\ FlattenSeq(more) \in Seq(AWord)
  BY <1>1, FlatAppend
<1>4. FlattenSeq(lines) \in Seq(Seq(Char)) /\ FlattenSeq(more) \in Seq(Seq(Char))
  BY <1>3 DEF AWord
<1> QED
  BY <1>2, <1>4, FlatConcat DEF Glued

LEMMA GluedNone == Glued(<<>>) = <<>>
BY FlatNone DEF Glued

LEMMA WordsRegroup ==
  ASSUME NEW s \in AWord, NEW t \in AWord, NEW u \in AWord
  PROVE  (s \o t) \o u = s \o (t \o u)
BY ConcatAssociative DEF AWord

LEMMA LinesRegroup ==
  ASSUME NEW s \in ALine, NEW t \in ALine, NEW u \in ALine
  PROVE  (s \o t) \o u = s \o (t \o u)
BY ConcatAssociative DEF ALine

(* The pieces of a word that was cut are the word, and fit.                *)
CutGood(s) ==
  /\ Glued(Cut(s).full) \o Cut(s).buf = s
  /\ \A i \in DOMAIN Cut(s).full : Cut(s).full[i] # <<>> /\ Fits(Cut(s).full[i])
  /\ WordWidth(Cut(s).buf) <= LineWidth

LEMMA CharTyped == LineWidth \in Nat /\ \A ch \in Char : ch \in Nat /\ ch <= LineWidth
BY CharactersFit DEF Char

LEMMA OneWide == ASSUME NEW ch \in Char PROVE WordWidth(<<ch>>) = ch
<1>1. <<ch>> = Append(<<>>, ch) /\ <<>> \in AWord
  BY DEF AWord
<1>2. WordWidth(Append(<<>>, ch)) = WordWidth(<<>>) + ch
  BY <1>1, WordWidens
<1> QED
  BY <1>1, <1>2, NoWidth, CharTyped

LEMMA CutGoes ==
  ASSUME NEW s \in Seq(Char), CutGood(s), NEW ch \in Char
  PROVE  CutGood(Append(s, ch))
<1> DEFINE c == Cut(s)
           d == Cut(Append(s, ch))
<1>1. c \in Cutting /\ d = CutStep(c, ch)
  BY CutAppend
<1>2. /\ Glued(c.full) \o c.buf = s
      /\ \A i \in DOMAIN c.full : c.full[i] # <<>> /\ Fits(c.full[i])
      /\ WordWidth(c.buf) <= LineWidth
  BY DEF CutGood
<1> SUFFICES /\ Glued(d.full) \o d.buf = Append(s, ch)
             /\ \A i \in DOMAIN d.full : d.full[i] # <<>> /\ Fits(d.full[i])
             /\ WordWidth(d.buf) <= LineWidth
  BY DEF CutGood
<1> HIDE DEF c, d
<1>3. c.full \in Seq(ALine) /\ c.buf \in AWord /\ c.buf \in Seq(Char)
  BY <1>1 DEF Cutting, AWord
<1>4. Glued(c.full) \in AWord /\ Glued(c.full) \in Seq(Char)
  <2>1. <<>> \in ALine
    BY DEF ALine
  <2> QED
    BY <1>3, <2>1, GluedSums DEF AWord
<1>5. <<ch>> \in Seq(Char) /\ WordWidth(<<ch>>) <= LineWidth
  BY OneWide, CharTyped
<1>6. WordWidth(Append(c.buf, ch)) \in Nat
  <2>1. Append(c.buf, ch) \in AWord
    BY <1>3 DEF AWord
  <2> QED
    BY <2>1, WordWidthTyped
<1>7. CASE c.buf # <<>> /\ WordWidth(Append(c.buf, ch)) > LineWidth
  <2>1. d.full = Append(c.full, <<c.buf>>) /\ d.buf = <<ch>>
    BY <1>1, <1>7 DEF CutStep
  <2>2. <<c.buf>> \in ALine /\ <<c.buf>> # <<>>
    BY <1>3 DEF ALine
  <2>3. FlattenSeq(<<c.buf>>) = c.buf
    BY <1>3, FlatOne
  <2>4. Glued(d.full) = s
    BY <1>2, <1>3, <2>1, <2>2, <2>3, GluedSums
  <2>5. Glued(d.full) \o d.buf = Append(s, ch)
    BY <2>1, <2>4, AppendIsConcat
  <2>6. Fits(<<c.buf>>)
    BY <1>2, <1>3, LineWidths DEF Fits
  <2>7. \A i \in DOMAIN d.full : d.full[i] # <<>> /\ Fits(d.full[i])
    <3>1. /\ DOMAIN d.full = 1..(Len(c.full) + 1) /\ DOMAIN c.full = 1..Len(c.full)
          /\ Len(c.full) \in Nat /\ d.full[Len(c.full) + 1] = <<c.buf>>
          /\ \A i \in 1..Len(c.full) : d.full[i] = c.full[i]
      BY <1>3, <2>1, <2>2, AppendProperties, LenProperties
    <3>2. \A i \in 1..(Len(c.full) + 1) : i \in 1..Len(c.full) \/ i = Len(c.full) + 1
      BY <3>1
    <3> QED
      BY <1>2, <2>2, <2>6, <3>1, <3>2
  <2> QED
    BY <1>5, <2>1, <2>5, <2>7
<1>8. CASE ~(c.buf # <<>> /\ WordWidth(Append(c.buf, ch)) > LineWidth)
  <2>1. d.full = c.full /\ d.buf = Append(c.buf, ch)
    BY <1>1, <1>8 DEF CutStep, Cutting
  <2>2. Glued(c.full) \o Append(c.buf, ch) = Append(s, ch)
    <3>1. Append(c.buf, ch) = c.buf \o <<ch>> /\ Append(s, ch) = s \o <<ch>>
      BY <1>3, AppendIsConcat
    <3>2. (Glued(c.full) \o c.buf) \o <<ch>> = Glued(c.full) \o (c.buf \o <<ch>>)
      <4>1. /\ Glued(c.full) \in AWord /\ c.buf \in AWord /\ <<ch>> \in AWord
        BY <1>3, <1>4, <1>5 DEF AWord
      <4> QED
        BY <4>1, WordsRegroup
    <3> QED
      BY <1>2, <3>1, <3>2
  <2>3. WordWidth(Append(c.buf, ch)) <= LineWidth
    <3>1. CASE c.buf = <<>>
      <4>1. Append(c.buf, ch) = <<ch>>
        BY <3>1
      <4> QED
        BY <1>5, <4>1
    <3>2. CASE c.buf # <<>>
      BY <1>6, <1>8, <3>2, CharTyped
    <3> QED
      BY <3>1, <3>2
  <2> QED
    BY <1>2, <2>1, <2>2, <2>3
<1> QED
  BY <1>7, <1>8

LEMMA CutIsGood == ASSUME NEW s \in AWord PROVE CutGood(s)
<1> DEFINE A == {t \in Seq(Char) : CutGood(t)}
<1>1. <<>> \in A
  <2>1. Cut(<<>>).full = <<>> /\ Cut(<<>>).buf = <<>>
    BY CutNone DEF Uncut
  <2>2. WordWidth(<<>>) <= LineWidth
    BY NoWidth, CharTyped
  <2>3. <<>> \in Seq(Char) /\ <<>> \o <<>> = <<>> /\ DOMAIN <<>> = {}
    OBVIOUS
  <2>4. CutGood(<<>>)
    BY <2>1, <2>2, <2>3, GluedNone DEF CutGood
  <2> QED
    BY <2>3, <2>4
<1>2. ASSUME NEW t \in Seq(Char), NEW ch \in Char, t \in A PROVE Append(t, ch) \in A
  <2>1. Append(t, ch) \in Seq(Char)
    OBVIOUS
  <2> QED
    BY <1>2, <2>1, CutGoes
<1> HIDE DEF A
<1>3. s \in A
  BY <1>1, <1>2, Lengthening DEF AWord
<1> QED
  BY <1>3 DEF A

(* No line but the last could have taken the first word of the next.       *)
Greedy(ls) == \A i \in 1..(Len(ls) - 1) : ~Fits(Append(ls[i], ls[i + 1][1]))

LEMMA GreedyGrows ==
  ASSUME NEW lines \in Seq(ALine), NEW line \in ALine, line # <<>>, NEW word \in AWord,
         Greedy(Append(lines, line))
  PROVE  Greedy(Append(lines, Append(line, word)))
<1> DEFINE before == Append(lines, line)
           after == Append(lines, Append(line, word))
           l == Len(lines)
<1>1. Append(line, word) \in ALine /\ Append(line, word)[1] = line[1]
  <2>1. line \in Seq(AWord) /\ Len(line) \in Nat /\ Len(line) # 0
    BY LenProperties, EmptySeq DEF ALine
  <2> QED
    BY <2>1, AppendProperties DEF ALine
<1>2. /\ l \in Nat /\ Len(before) = l + 1 /\ Len(after) = l + 1
      /\ before[l + 1] = line /\ after[l + 1] = Append(line, word)
      /\ \A n \in 1..l : before[n] = lines[n] /\ after[n] = lines[n]
  BY <1>1, AppendProperties, LenProperties
<1>3. Greedy(before)
  OBVIOUS
<1> SUFFICES ASSUME NEW i \in 1..(Len(after) - 1)
             PROVE  ~Fits(Append(after[i], after[i + 1][1]))
  BY DEF Greedy
<1> HIDE DEF before, after, l
<1>4. i \in 1..l /\ i \in 1..(Len(before) - 1) /\ (i + 1 \in 1..l \/ i + 1 = l + 1)
  BY <1>2
<1>5. after[i] = before[i] /\ after[i + 1][1] = before[i + 1][1]
  BY <1>1, <1>2, <1>4
<1>6. ~Fits(Append(before[i], before[i + 1][1]))
  BY <1>3, <1>4 DEF Greedy
<1> QED
  BY <1>5, <1>6

LEMMA GreedyBreaks ==
  ASSUME NEW lines \in Seq(ALine), NEW line \in ALine, NEW word \in AWord,
         Greedy(Append(lines, line)), ~Fits(Append(line, word))
  PROVE  Greedy(Append(Append(lines, line), <<word>>))
<1> DEFINE before == Append(lines, line)
           after == Append(before, <<word>>)
           l == Len(lines)
<1>1. before \in Seq(ALine) /\ <<word>> \in ALine /\ <<word>>[1] = word
  BY DEF ALine
<1>2. /\ l \in Nat /\ Len(before) = l + 1 /\ before[l + 1] = line
      /\ Len(after) = (l + 1) + 1 /\ after[(l + 1) + 1] = <<word>>
      /\ \A n \in 1..(l + 1) : after[n] = before[n]
  <2>1. l \in Nat /\ Len(before) = l + 1 /\ before[l + 1] = line
    BY AppendProperties, LenProperties
  <2> HIDE DEF before
  <2> QED
    BY <1>1, <2>1, AppendProperties, LenProperties
<1>3. Greedy(before)
  OBVIOUS
<1> SUFFICES ASSUME NEW i \in 1..(Len(after) - 1)
             PROVE  ~Fits(Append(after[i], after[i + 1][1]))
  BY DEF Greedy
<1> HIDE DEF before, after, l
<1>4. CASE i = l + 1
  <2>1. after[i] = line /\ after[i + 1] = <<word>>
    BY <1>2, <1>4
  <2> QED
    BY <1>1, <2>1
<1>5. CASE i # l + 1
  <2>1. i \in 1..(l + 1) /\ i + 1 \in 1..(l + 1) /\ i \in 1..(Len(before) - 1)
    BY <1>2, <1>5
  <2>2. after[i] = before[i] /\ after[i + 1] = before[i + 1]
    BY <1>2, <2>1
  <2> QED
    BY <1>3, <2>1, <2>2 DEF Greedy
<1> QED
  BY <1>4, <1>5

(* What holds of the lines set after any number of words.                  *)
AllFit(p) == \A k \in DOMAIN p : Fits(<<p[k]>>)
Sound(p, r) ==
  /\ Glued(r.lines) \o FlattenSeq(r.line) = FlattenSeq(p)
  /\ \A i \in DOMAIN r.lines : Fits(r.lines[i])
  /\ Fits(r.line)
  /\ IF p = <<>> THEN r = Blankline ELSE r.line # <<>>
Thrifty(p, r) ==
  AllFit(p) =>
    /\ FlattenSeq(r.lines) \o r.line = p
    /\ Greedy(Append(r.lines, r.line))

LEMMA Placed ==
  ASSUME NEW p \in ALine, NEW word \in AWord, NEW r \in Setting
  PROVE  /\ r.lines \in Seq(ALine) /\ r.line \in ALine
         /\ Append(r.line, word) \in ALine /\ <<word>> \in ALine
         /\ FlattenSeq(p) \in AWord /\ FlattenSeq(r.line) \in AWord
         /\ Glued(r.lines) \in AWord /\ FlattenSeq(r.lines) \in ALine
         /\ FlattenSeq(Append(p, word)) = FlattenSeq(p) \o word
         /\ FlattenSeq(Append(r.line, word)) = FlattenSeq(r.line) \o word
         /\ FlattenSeq(<<word>>) = word
         /\ Append(p, word) # <<>> /\ Append(r.line, word) # <<>> /\ <<word>> # <<>>
<1>1. r.lines \in Seq(ALine) /\ r.line \in ALine
  BY DEF Setting
<1>2. /\ p \in Seq(Seq(Char)) /\ word \in Seq(Char) /\ r.line \in Seq(Seq(Char))
      /\ Append(r.line, word) \in ALine /\ <<word>> \in ALine
  BY <1>1 DEF ALine, AWord
<1>3. /\ FlattenSeq(p) \in AWord /\ FlattenSeq(r.line) \in AWord
      /\ FlattenSeq(Append(p, word)) = FlattenSeq(p) \o word
      /\ FlattenSeq(Append(r.line, word)) = FlattenSeq(r.line) \o word
  BY <1>2, FlatAppend DEF AWord
<1>4. FlattenSeq(<<word>>) = word
  BY <1>2, FlatOne
<1>5. Glued(r.lines) \in AWord /\ FlattenSeq(r.lines) \in ALine
  BY <1>1, GluedSums
<1>6. Append(p, word) # <<>> /\ Append(r.line, word) # <<>> /\ <<word>> # <<>>
  <2>1. \A line \in Seq(AWord) : Append(line, word) # <<>>
    <3> SUFFICES ASSUME NEW line \in Seq(AWord) PROVE Append(line, word) # <<>>
      OBVIOUS
    <3>1. Len(Append(line, word)) = Len(line) + 1 /\ Len(line) \in Nat
      BY AppendProperties, LenProperties
    <3>2. Len(<<>>) = 0
      OBVIOUS
    <3> QED
      BY <3>1, <3>2
  <2>2. p \in Seq(AWord) /\ r.line \in Seq(AWord)
    BY <1>1 DEF ALine
  <2>3. <<word>> # <<>>
    OBVIOUS
  <2> QED
    BY <2>1, <2>2, <2>3
<1> QED
  BY <1>1, <1>2, <1>3, <1>4, <1>5, <1>6

LEMMA AllFitSplits ==
  ASSUME NEW p \in ALine, NEW word \in AWord, AllFit(Append(p, word))
  PROVE  AllFit(p) /\ Fits(<<word>>)
<1>1. /\ Len(p) \in Nat /\ DOMAIN p = 1..Len(p) /\ DOMAIN Append(p, word) = 1..(Len(p) + 1)
      /\ Append(p, word)[Len(p) + 1] = word
      /\ \A n \in 1..Len(p) : Append(p, word)[n] = p[n]
  BY AppendProperties, LenProperties DEF ALine
<1>2. \A n \in 1..Len(p) : n \in 1..(Len(p) + 1)
  BY <1>1
<1>3. Len(p) + 1 \in 1..(Len(p) + 1)
  BY <1>1
<1> QED
  BY <1>1, <1>2, <1>3 DEF AllFit

LEMMA FlushedSums ==
  ASSUME NEW lines \in Seq(ALine), NEW line \in ALine
  PROVE  Glued(IF line = <<>> THEN lines ELSE Append(lines, line))
           = Glued(lines) \o FlattenSeq(line)
<1>1. CASE line = <<>>
  <2>1. FlattenSeq(line) = <<>> /\ Glued(lines) \in AWord
    BY <1>1, FlatNone, GluedSums
  <2> QED
    BY <1>1, <2>1, ConcatEmptySeq DEF AWord
<1>2. CASE line # <<>>
  BY <1>2, GluedSums
<1> QED
  BY <1>1, <1>2

LEMMA FlushedFit ==
  ASSUME NEW lines \in Seq(ALine), \A i \in DOMAIN lines : Fits(lines[i]),
         NEW line \in ALine, Fits(line)
  PROVE  \A i \in DOMAIN Append(lines, line) : Fits(Append(lines, line)[i])
<1>1. /\ Len(lines) \in Nat /\ DOMAIN lines = 1..Len(lines)
      /\ DOMAIN Append(lines, line) = 1..(Len(lines) + 1)
      /\ Append(lines, line)[Len(lines) + 1] = line
      /\ \A n \in 1..Len(lines) : Append(lines, line)[n] = lines[n]
  BY AppendProperties, LenProperties
<1>2. \A n \in 1..(Len(lines) + 1) : n \in 1..Len(lines) \/ n = Len(lines) + 1
  BY <1>1
<1> QED
  BY <1>1, <1>2

LEMMA BothFit ==
  ASSUME NEW lines \in Seq(ALine), \A i \in DOMAIN lines : Fits(lines[i]),
         NEW more \in Seq(ALine), \A i \in DOMAIN more : Fits(more[i])
  PROVE  \A i \in DOMAIN (lines \o more) : Fits((lines \o more)[i])
<1>1. /\ Len(lines) \in Nat /\ DOMAIN lines = 1..Len(lines)
      /\ Len(more) \in Nat /\ DOMAIN more = 1..Len(more)
      /\ DOMAIN (lines \o more) = 1..(Len(lines) + Len(more))
      /\ \A i \in 1..(Len(lines) + Len(more)) :
           (lines \o more)[i] = IF i <= Len(lines) THEN lines[i] ELSE more[i - Len(lines)]
  BY ConcatProperties, LenProperties
<1> SUFFICES ASSUME NEW i \in 1..(Len(lines) + Len(more)) PROVE Fits((lines \o more)[i])
  BY <1>1
<1>2. CASE i <= Len(lines)
  <2>1. i \in 1..Len(lines)
    BY <1>1, <1>2
  <2> QED
    BY <1>1, <1>2, <2>1
<1>3. CASE ~(i <= Len(lines))
  <2>1. i - Len(lines) \in 1..Len(more)
    BY <1>1, <1>3
  <2> QED
    BY <1>1, <1>3, <2>1
<1> QED
  BY <1>2, <1>3

LEMMA OneFits == ASSUME NEW w \in AWord PROVE Fits(<<w>>) <=> WordWidth(w) <= LineWidth
BY LineWidths DEF Fits

LEMMA SoundPlaces ==
  ASSUME NEW p \in ALine, NEW word \in AWord, NEW r \in Setting, Sound(p, r)
  PROVE  Sound(Append(p, word), Place(r, word))
<1> DEFINE s == Place(r, word)
           flushed == IF r.line = <<>> THEN r.lines ELSE Append(r.lines, r.line)
           c == Cut(word)
<1>1. /\ r.lines \in Seq(ALine) /\ r.line \in ALine
      /\ Append(r.line, word) \in ALine /\ <<word>> \in ALine
      /\ FlattenSeq(p) \in AWord /\ FlattenSeq(r.line) \in AWord /\ Glued(r.lines) \in AWord
      /\ FlattenSeq(Append(p, word)) = FlattenSeq(p) \o word
      /\ FlattenSeq(Append(r.line, word)) = FlattenSeq(r.line) \o word
      /\ FlattenSeq(<<word>>) = word
      /\ Append(p, word) # <<>> /\ Append(r.line, word) # <<>> /\ <<word>> # <<>>
  BY Placed
<1>2. /\ Glued(r.lines) \o FlattenSeq(r.line) = FlattenSeq(p)
      /\ \A i \in DOMAIN r.lines : Fits(r.lines[i])
      /\ Fits(r.line)
  BY DEF Sound
<1>3. flushed \in Seq(ALine) /\ Glued(flushed) = FlattenSeq(p)
  <2>1. Append(r.lines, r.line) \in Seq(ALine)
    BY <1>1, AppendProperties
  <2> QED
    BY <1>1, <1>2, <2>1, FlushedSums
<1>4. \A i \in DOMAIN flushed : Fits(flushed[i])
  <2>1. CASE r.line = <<>>
    BY <1>2, <2>1
  <2>2. CASE r.line # <<>>
    BY <1>1, <1>2, <2>2, FlushedFit
  <2> QED
    BY <2>1, <2>2
<1> SUFFICES /\ Glued(s.lines) \o FlattenSeq(s.line) = FlattenSeq(p) \o word
             /\ \A i \in DOMAIN s.lines : Fits(s.lines[i])
             /\ Fits(s.line)
             /\ s.line # <<>>
  BY <1>1 DEF Sound
<1>5. CASE Fits(Append(r.line, word))
  <2>1. s.lines = r.lines /\ s.line = Append(r.line, word)
    BY <1>1, <1>5 DEF Place, Fits, Setting
  <2>2. (Glued(r.lines) \o FlattenSeq(r.line)) \o word
          = Glued(r.lines) \o (FlattenSeq(r.line) \o word)
    BY <1>1, WordsRegroup
  <2> HIDE DEF s
  <2> QED
    BY <1>1, <1>2, <1>5, <2>1, <2>2
<1>6. CASE ~Fits(Append(r.line, word)) /\ Fits(<<word>>)
  <2>1. s.lines = flushed /\ s.line = <<word>>
    BY <1>6, OneFits DEF Place, Fits
  <2> HIDE DEF s, flushed
  <2> QED
    BY <1>1, <1>3, <1>4, <1>6, <2>1
<1>7. CASE ~Fits(Append(r.line, word)) /\ ~Fits(<<word>>)
  <2>1. s.lines = flushed \o c.full /\ s.line = <<c.buf>>
    BY <1>7, OneFits DEF Place, Fits
  <2>2. c \in Cutting /\ CutGood(word)
    BY CutIsTyped, CutIsGood DEF AWord
  <2>3. /\ c.full \in Seq(ALine) /\ c.buf \in AWord /\ <<c.buf>> # <<>>
        /\ Glued(c.full) \o c.buf = word
        /\ \A i \in DOMAIN c.full : Fits(c.full[i])
        /\ WordWidth(c.buf) <= LineWidth
    BY <2>2 DEF Cutting, CutGood
  <2> HIDE DEF s, flushed, c
  <2>4. Fits(<<c.buf>>)
    BY <2>3, OneFits
  <2>5. \A i \in DOMAIN s.lines : Fits(s.lines[i])
    BY <1>3, <1>4, <2>1, <2>3, BothFit
  <2>6. FlattenSeq(<<c.buf>>) = c.buf
    BY <2>3, FlatOne DEF AWord
  <2>7. Glued(flushed) \in AWord /\ Glued(c.full) \in AWord
    BY <1>1, <1>3, <2>3, GluedSums
  <2>8. (Glued(flushed) \o Glued(c.full)) \o c.buf = Glued(flushed) \o (Glued(c.full) \o c.buf)
    <3>1. c.buf \in AWord
      BY <2>3
    <3> QED
      BY <2>7, <3>1, WordsRegroup
  <2>9. Glued(s.lines) = Glued(flushed) \o Glued(c.full)
    BY <1>3, <2>1, <2>3, GluedConcat
  <2> QED
    BY <1>3, <2>1, <2>3, <2>4, <2>5, <2>6, <2>8, <2>9
<1> QED
  BY <1>5, <1>6, <1>7

LEMMA ThriftyPlaces ==
  ASSUME NEW p \in ALine, NEW word \in AWord, NEW r \in Setting, Sound(p, r), Thrifty(p, r)
  PROVE  Thrifty(Append(p, word), Place(r, word))
<1> DEFINE s == Place(r, word)
<1> SUFFICES ASSUME AllFit(Append(p, word))
             PROVE  /\ FlattenSeq(s.lines) \o s.line = Append(p, word)
                    /\ Greedy(Append(s.lines, s.line))
  BY DEF Thrifty
<1>1. /\ r.lines \in Seq(ALine) /\ r.line \in ALine
      /\ Append(r.line, word) \in ALine /\ <<word>> \in ALine
      /\ FlattenSeq(r.lines) \in ALine
  BY Placed
<1>2. Fits(<<word>>) /\ AllFit(p)
  BY AllFitSplits
<1>3. FlattenSeq(r.lines) \o r.line = p /\ Greedy(Append(r.lines, r.line))
  BY <1>2 DEF Thrifty
<1>4. Append(p, word) = FlattenSeq(r.lines) \o Append(r.line, word)
  <2>1. (FlattenSeq(r.lines) \o r.line) \o <<word>> = FlattenSeq(r.lines) \o (r.line \o <<word>>)
    BY <1>1, LinesRegroup, ZenonT(30)
  <2>2. Append(p, word) = p \o <<word>> /\ Append(r.line, word) = r.line \o <<word>>
    BY <1>1, AppendIsConcat DEF ALine
  <2> QED
    BY <1>3, <2>1, <2>2
<1>5. CASE Fits(Append(r.line, word))
  <2>1. s.lines = r.lines /\ s.line = Append(r.line, word)
    BY <1>1, <1>5 DEF Place, Fits, Setting
  <2>2. CASE r.line = <<>>
    <3>1. r.lines = <<>>
      BY <2>2 DEF Sound, Blankline
    <3>2. Len(Append(r.lines, Append(r.line, word))) = 1
      BY <3>1
    <3> HIDE DEF s
    <3> QED
      BY <1>4, <2>1, <3>2 DEF Greedy
  <2>3. CASE r.line # <<>>
    <3> HIDE DEF s
    <3>1. Greedy(Append(r.lines, Append(r.line, word)))
      BY <1>1, <1>3, <2>3, GreedyGrows
    <3> QED
      BY <1>4, <2>1, <3>1
  <2> QED
    BY <2>2, <2>3
<1>6. CASE ~Fits(Append(r.line, word))
  <2>1. r.line # <<>>
    <3>1. Append(<<>>, word) = <<word>>
      OBVIOUS
    <3> QED
      BY <1>2, <1>6, <3>1
  <2>2. s.lines = Append(r.lines, r.line) /\ s.line = <<word>>
    BY <1>2, <1>6, <2>1, OneFits DEF Place, Fits
  <2> HIDE DEF s
  <2>3. Greedy(Append(s.lines, s.line))
    BY <1>1, <1>3, <1>6, <2>2, GreedyBreaks
  <2>4. FlattenSeq(s.lines) = FlattenSeq(r.lines) \o r.line
    BY <1>1, <2>2, GluedSums
  <2>5. FlattenSeq(s.lines) \o s.line = Append(p, word)
    BY <1>1, <1>3, <2>2, <2>4, AppendIsConcat DEF ALine
  <2> QED
    BY <2>3, <2>5
<1> QED
  BY <1>5, <1>6

LEMMA WordsAreSet == ASSUME NEW p \in ALine PROVE Sound(p, SetWords(p)) /\ Thrifty(p, SetWords(p))
<1> DEFINE A == {q \in Seq(AWord) : Sound(q, SetWords(q)) /\ Thrifty(q, SetWords(q))}
<1>1. <<>> \in A
  <2>1. SetWords(<<>>) = Blankline /\ Blankline.lines = <<>> /\ Blankline.line = <<>>
    BY PlaceNone DEF Blankline
  <2>2. Fits(<<>>)
    BY LineWidths, CharTyped DEF Fits
  <2>3. <<>> \in Seq(AWord) /\ <<>> \o <<>> = <<>> /\ DOMAIN <<>> = {} /\ Len(Append(<<>>, <<>>)) = 1
    OBVIOUS
  <2>4. Sound(<<>>, SetWords(<<>>))
    BY <2>1, <2>2, <2>3, FlatNone, GluedNone DEF Sound
  <2>5. Greedy(Append(<<>>, <<>>))
    BY <2>3 DEF Greedy
  <2>6. Thrifty(<<>>, SetWords(<<>>))
    BY <2>1, <2>3, <2>5, FlatNone DEF Thrifty
  <2> QED
    BY <2>3, <2>4, <2>6
<1>2. ASSUME NEW q \in Seq(AWord), NEW word \in AWord, q \in A PROVE Append(q, word) \in A
  <2>1. Append(q, word) \in Seq(AWord) /\ q \in ALine
    BY DEF ALine
  <2>2. SetWords(q) \in Setting /\ SetWords(Append(q, word)) = Place(SetWords(q), word)
    BY PlaceAppend
  <2>3. Sound(q, SetWords(q)) /\ Thrifty(q, SetWords(q))
    BY <1>2
  <2>4. Sound(Append(q, word), Place(SetWords(q), word))
    BY <2>1, <2>2, <2>3, SoundPlaces
  <2>5. Thrifty(Append(q, word), Place(SetWords(q), word))
    BY <2>1, <2>2, <2>3, ThriftyPlaces
  <2> QED
    BY <2>1, <2>2, <2>4, <2>5
<1> HIDE DEF A
<1>3. p \in A
  BY <1>1, <1>2, Lengthening DEF ALine
<1> QED
  BY <1>3 DEF A

(* The theorem about a paragraph, whatever its words.                      *)
LEMMA WrapsFaithfully == ASSUME NEW p \in ALine PROVE Faithful(p)
<1> DEFINE r == SetWords(p)
           lines == WrapParagraph(p)
<1>1. r \in Setting
  <2>1. Len(p) \in 0..Len(p)
    BY LenProperties DEF ALine
  <2> QED
    BY <2>1, PlaceIs DEF ALine
<1>2. lines = Append(r.lines, r.line)
  BY DEF WrapParagraph, SetWords
<1>3. Sound(p, r) /\ Thrifty(p, r)
  BY WordsAreSet
<1> HIDE DEF r, lines
<1>4. r.lines \in Seq(ALine) /\ r.line \in ALine
  BY <1>1 DEF Setting
<1>5. Glued(lines) = FlattenSeq(p)
  BY <1>2, <1>3, <1>4, GluedSums DEF Sound
<1>6. \A i \in DOMAIN lines : Fits(lines[i])
  BY <1>2, <1>3, <1>4, FlushedFit DEF Sound
<1>7. AllFit(p) => FlattenSeq(lines) = p /\ Greedy(lines)
  BY <1>2, <1>3, <1>4, GluedSums DEF Thrifty
<1> QED
  BY <1>5, <1>6, <1>7 DEF Faithful, Glued, AllFit, Greedy, lines

-----------------------------------------------------------------------------
(* CardQuality                                                             *)

(* The texts of a card are made of the paragraphs it was given.            *)
AText == Seq(ALine)
Content == [1..4 -> AText]
TextsKept == texts = <<>> \/ texts \in Content

LEMMA ParagraphsAreLines == Paragraphs \subseteq ALine
BY CharactersFit DEF ALine, AWord, Char

LEMMA ContentsKept ==
  Contents \subseteq Content /\ [b \in 1..4 |-> Word] \in Content
<1>1. \A p \in ALine, q \in ALine : <<p>> \in AText /\ <<p, q>> \in AText
  BY DEF AText
<1>2. Word \in AText
  <2>1. PICK q \in Paragraphs : Len(q) = 1
    BY WordAssumption
  <2>2. (CHOOSE x \in Paragraphs : Len(x) = 1) \in Paragraphs
    BY <2>1
  <2> QED
    BY <1>1, <2>2, ParagraphsAreLines DEF Word
<1>3. <<>> \in AText /\ <<<<>>>> \in AText
  BY DEF AText, ALine
<1>4. ASSUME NEW long \in 1..4, NEW p \in Paragraphs, NEW q \in Paragraphs
      PROVE  [b \in 1..4 |-> IF b # long THEN <<q>> ELSE IF b = 3 THEN <<p, q>> ELSE <<p>>]
               \in Content
  <2>1. <<p>> \in AText /\ <<q>> \in AText /\ <<p, q>> \in AText
    BY <1>1, ParagraphsAreLines
  <2> QED
    BY <2>1 DEF Content
<1>5. ASSUME NEW body \in AText
      PROVE  [b \in 1..4 |-> IF b = 3 THEN body ELSE Word] \in Content
  BY <1>2 DEF Content
<1>6. [b \in 1..4 |-> Word] \in Content
  BY <1>2 DEF Content
<1>7. ASSUME NEW content \in Contents PROVE content \in Content
  BY <1>3, <1>4, <1>5 DEF Contents
<1> QED
  BY <1>6, <1>7

LEMMA TextsStayKept ==
  ASSUME TextsKept, [CardNext]_<<layoutVars, cardVars>> PROVE TextsKept'
<1>1. CASE UNCHANGED <<layoutVars, cardVars>>
  BY <1>1 DEF layoutVars, TextsKept
<1>2. ASSUME NEW content \in Content, NEW height, NEW c, NEW size,
             ParseCard(content, height, c, size)
      PROVE  TextsKept'
  BY <1>2 DEF ParseCard, Begin, layoutVars, TextsKept
<1>3. CASE DrawBlock
  BY <1>3 DEF DrawBlock, SetBlock, SetFooter, TextsKept
<1>4. CASE FontRaises
  BY <1>4 DEF FontRaises, layoutVars, TextsKept
<1>5. ASSUME NEW recent, NEW legible, CheckCard(recent, legible) PROVE TextsKept'
  BY <1>5 DEF CheckCard, layoutVars, TextsKept
<1> QED
  BY <1>1, <1>2, <1>3, <1>4, <1>5, ContentsKept DEF CardNext

(* Wrapping loses nothing and wastes nothing, whatever the paragraphs, the *)
(* widths of their characters and that of a line (renderer.py's _wrap).    *)
THEOREM TextsWrapFaithfully == CardSpec => []WrapFaithful
<1>1. CardInit => TextsKept
  BY DEF CardInit, LayoutInit, TextsKept
<1>2. TextsKept /\ [CardNext]_<<layoutVars, cardVars>> => TextsKept'
  BY TextsStayKept
<1>3. TextsKept => WrapFaithful
  <2> SUFFICES ASSUME TextsKept, NEW b \in DOMAIN texts, NEW i \in DOMAIN texts[b]
               PROVE  Faithful(texts[b][i])
    BY DEF WrapFaithful
  <2>1. texts \in Content /\ b \in 1..4
    BY DEF TextsKept, Content
  <2>2. texts[b] \in Seq(ALine)
    BY <2>1 DEF Content, AText
  <2>3. texts[b][i] \in ALine
    BY <2>2, ElementOfSeq, LenProperties
  <2> QED
    BY <2>3, WrapsFaithfully
<1> QED
  BY <1>1, <1>2, <1>3, PTL DEF CardSpec

(* A text shows exactly if it has a word.                                  *)
HasInk(lines) == \E i \in DOMAIN lines : lines[i] # <<>>

LEMMA ParagraphInk ==
  ASSUME NEW p \in ALine
  PROVE  WrapParagraph(p) \in Seq(ALine) /\ (HasInk(WrapParagraph(p)) <=> p # <<>>)
<1> DEFINE r == SetWords(p)
<1>1. r \in Setting
  <2>1. Len(p) \in 0..Len(p)
    BY LenProperties DEF ALine
  <2> QED
    BY <2>1, PlaceIs DEF ALine
<1>2. WrapParagraph(p) = Append(r.lines, r.line)
  BY DEF WrapParagraph, SetWords
<1>3. IF p = <<>> THEN r = Blankline ELSE r.line # <<>>
  BY WordsAreSet DEF Sound
<1> HIDE DEF r
<1>4. r.lines \in Seq(ALine) /\ r.line \in ALine
  BY <1>1 DEF Setting
<1>5. Append(r.lines, r.line) \in Seq(ALine)
  BY <1>4, AppendProperties
<1>6. CASE p = <<>>
  <2>1. Append(r.lines, r.line) = <<<<>>>>
    <3>1. r.lines = <<>> /\ r.line = <<>>
      BY <1>3, <1>6 DEF Blankline
    <3>2. Append(<<>>, <<>>) = <<<<>>>>
      OBVIOUS
    <3> QED
      BY <3>1, <3>2
  <2>2. DOMAIN <<<<>>>> = {1} /\ <<<<>>>>[1] = <<>>
    OBVIOUS
  <2> QED
    BY <1>2, <1>5, <1>6, <2>1, <2>2 DEF HasInk
<1>7. CASE p # <<>>
  <2>1. /\ Len(r.lines) + 1 \in DOMAIN Append(r.lines, r.line)
        /\ Append(r.lines, r.line)[Len(r.lines) + 1] = r.line
    BY <1>4, AppendProperties, LenProperties
  <2> QED
    BY <1>2, <1>3, <1>5, <1>7, <2>1 DEF HasInk
<1> QED
  BY <1>6, <1>7

LEMMA InkAdds ==
  ASSUME NEW s \in Seq(ALine), NEW t \in Seq(ALine)
  PROVE  HasInk(s \o t) <=> HasInk(s) \/ HasInk(t)
<1>1. /\ Len(s) \in Nat /\ DOMAIN s = 1..Len(s)
      /\ Len(t) \in Nat /\ DOMAIN t = 1..Len(t)
      /\ DOMAIN (s \o t) = 1..(Len(s) + Len(t))
      /\ \A i \in 1..(Len(s) + Len(t)) :
           (s \o t)[i] = IF i <= Len(s) THEN s[i] ELSE t[i - Len(s)]
  BY ConcatProperties, LenProperties
<1>2. ASSUME HasInk(s \o t) PROVE HasInk(s) \/ HasInk(t)
  <2>1. PICK i \in 1..(Len(s) + Len(t)) : (s \o t)[i] # <<>>
    BY <1>1, <1>2 DEF HasInk
  <2>2. (i <= Len(s) /\ i \in 1..Len(s)) \/ (~(i <= Len(s)) /\ i - Len(s) \in 1..Len(t))
    BY <1>1
  <2> QED
    BY <1>1, <2>1, <2>2 DEF HasInk
<1>3. ASSUME HasInk(s) PROVE HasInk(s \o t)
  <2>1. PICK i \in 1..Len(s) : s[i] # <<>>
    BY <1>1, <1>3 DEF HasInk
  <2>2. i \in 1..(Len(s) + Len(t)) /\ i <= Len(s)
    BY <1>1
  <2> QED
    BY <1>1, <2>1, <2>2 DEF HasInk
<1>4. ASSUME HasInk(t) PROVE HasInk(s \o t)
  <2>1. PICK i \in 1..Len(t) : t[i] # <<>>
    BY <1>1, <1>4 DEF HasInk
  <2>2. /\ Len(s) + i \in 1..(Len(s) + Len(t)) /\ ~(Len(s) + i <= Len(s))
        /\ (Len(s) + i) - Len(s) = i
    BY <1>1
  <2>3. (s \o t)[Len(s) + i] = t[i]
    BY <1>1, <2>2
  <2> QED
    BY <1>1, <2>1, <2>2, <2>3 DEF HasInk
<1> QED
  BY <1>2, <1>3, <1>4

Sections(text) == [i \in DOMAIN text |-> WrapParagraph(text[i])]
WrapGood(text) ==
  /\ Sections(text) \in Seq(Seq(ALine))
  /\ Wrap(text) \in Seq(ALine)
  /\ HasInk(Wrap(text)) <=> ~Empty(text)

LEMMA WrapsGood == ASSUME NEW text \in AText PROVE WrapGood(text)
<1> DEFINE A == {t \in Seq(ALine) : WrapGood(t)}
<1>1. <<>> \in A
  <2>1. Sections(<<>>) = <<>>
    BY DEF Sections
  <2>2. Wrap(<<>>) = <<>>
    BY <2>1, FlatNone DEF Wrap, Sections
  <2>3. <<>> \in Seq(Seq(ALine)) /\ <<>> \in Seq(ALine) /\ DOMAIN <<>> = {}
    OBVIOUS
  <2> QED
    BY <2>1, <2>2, <2>3 DEF WrapGood, HasInk, Empty
<1>2. ASSUME NEW t \in Seq(ALine), NEW p \in ALine, t \in A PROVE Append(t, p) \in A
  <2>1. /\ Sections(t) \in Seq(Seq(ALine)) /\ Wrap(t) \in Seq(ALine)
        /\ HasInk(Wrap(t)) <=> ~Empty(t)
    BY <1>2 DEF WrapGood
  <2>2. WrapParagraph(p) \in Seq(ALine) /\ (HasInk(WrapParagraph(p)) <=> p # <<>>)
    BY ParagraphInk
  <2>3. /\ Append(t, p) \in Seq(ALine) /\ Len(t) \in Nat
        /\ DOMAIN t = 1..Len(t) /\ DOMAIN Append(t, p) = 1..(Len(t) + 1)
        /\ Append(t, p)[Len(t) + 1] = p
        /\ \A n \in 1..Len(t) : Append(t, p)[n] = t[n]
    BY AppendProperties, LenProperties
  <2>4. Sections(Append(t, p)) = Append(Sections(t), WrapParagraph(p))
    <3> DEFINE a == Sections(Append(t, p))
               b == Append(Sections(t), WrapParagraph(p))
    <3>1. DOMAIN Sections(t) = 1..Len(t) /\ Len(Sections(t)) = Len(t)
      <4>1. DOMAIN Sections(t) = 1..Len(t)
        BY <2>3 DEF Sections
      <4> QED
        BY <2>1, <2>3, <4>1, LenProperties
    <3>2. /\ b \in Seq(Seq(ALine)) /\ Len(b) = Len(t) + 1
          /\ b[Len(t) + 1] = WrapParagraph(p)
          /\ \A n \in 1..Len(t) : b[n] = Sections(t)[n]
      BY <2>1, <2>2, <3>1, AppendProperties
    <3>3. \A n \in 1..Len(t) : Sections(t)[n] = WrapParagraph(t[n])
      BY <2>3 DEF Sections
    <3>4. a = [n \in 1..(Len(t) + 1) |-> WrapParagraph(Append(t, p)[n])]
      BY <2>3 DEF Sections
    <3>5. b = [n \in 1..(Len(t) + 1) |-> b[n]]
      <4>1. b \in [1..Len(b) -> Seq(ALine)] /\ Len(b) = Len(t) + 1
        BY <3>2, LenProperties
      <4> HIDE DEF b
      <4> QED
        BY <4>1
    <3> HIDE DEF a, b
    <3>6. \A n \in 1..(Len(t) + 1) : WrapParagraph(Append(t, p)[n]) = b[n]
      <4> SUFFICES ASSUME NEW n \in 1..(Len(t) + 1) PROVE WrapParagraph(Append(t, p)[n]) = b[n]
        OBVIOUS
      <4>1. n \in 1..Len(t) \/ n = Len(t) + 1
        BY <2>3
      <4> QED
        BY <2>3, <3>2, <3>3, <4>1
    <3> QED
      BY <3>4, <3>5, <3>6 DEF a, b
  <2>5. Wrap(Append(t, p)) = Wrap(t) \o WrapParagraph(p)
    <3>1. FlattenSeq(Append(Sections(t), WrapParagraph(p)))
            = FlattenSeq(Sections(t)) \o WrapParagraph(p)
      BY <2>1, <2>2, FlatAppend
    <3>2. \A u : Wrap(u) = FlattenSeq(Sections(u))
      BY DEF Wrap, Sections
    <3> QED
      BY <2>4, <3>1, <3>2
  <2>6. Sections(Append(t, p)) \in Seq(Seq(ALine))
    BY <2>1, <2>2, <2>4, AppendProperties
  <2>7. Wrap(Append(t, p)) \in Seq(ALine)
    BY <2>1, <2>2, <2>5, ConcatProperties
  <2>8. Empty(Append(t, p)) <=> Empty(t) /\ p = <<>>
    <3>1. \A n \in 1..(Len(t) + 1) : n \in 1..Len(t) \/ n = Len(t) + 1
      BY <2>3
    <3>2. Len(t) + 1 \in 1..(Len(t) + 1) /\ \A n \in 1..Len(t) : n \in 1..(Len(t) + 1)
      BY <2>3
    <3> QED
      BY <2>3, <3>1, <3>2 DEF Empty
  <2>9. HasInk(Wrap(Append(t, p))) <=> ~Empty(Append(t, p))
    BY <2>1, <2>2, <2>5, <2>8, InkAdds
  <2> QED
    BY <2>3, <2>6, <2>7, <2>9 DEF WrapGood
<1> HIDE DEF A
<1>3. text \in A
  BY <1>1, <1>2, Lengthening DEF AText
<1> QED
  BY <1>3 DEF A

(* Lines one below the other                                               *)
Drawn == [block : 1..4, words : ALine, top : Int, end : Int]
Within(d, upper, lower) == \A i \in DOMAIN d : upper <= d[i].top /\ d[i].end <= lower
Apart(d) == \A i, j \in DOMAIN d : i < j => d[i].end <= d[j].top
Shows(d, b) == \E i \in DOMAIN d : d[i].block = b /\ d[i].words # <<>>

LEMMA Multiples ==
  ASSUME NEW h \in Nat, NEW i \in Nat, NEW j \in Nat, i <= j
  PROVE  i * h \in Nat /\ j * h \in Nat /\ i * h <= j * h
<1>1. i * h \in Nat /\ j * h \in Nat /\ (j - i) * h \in Nat
  OBVIOUS
<1>2. j * h = i * h + (j - i) * h
  OBVIOUS
<1> QED
  BY <1>1, <1>2

LEMMA LinesDrawn ==
  ASSUME texts \in Content, NEW b \in 1..4, NEW top \in Int
  PROVE  LET lines == LinesFrom(b, top)
             height == Len(lines) * LineHeights[b]
         IN  /\ lines \in Seq(Drawn) /\ height \in Nat
             /\ Len(lines) = Len(Wrap(texts[b]))
             /\ Within(lines, top, top + height) /\ Apart(lines)
             /\ Shows(lines, b) <=> ~Empty(texts[b])
             /\ \A c \in 1..4 : c # b => ~Shows(lines, c)
<1> DEFINE wrapped == Wrap(texts[b])
           n == Len(wrapped)
           h == LineHeights[b]
           lines == LinesFrom(b, top)
<1>1. wrapped \in Seq(ALine) /\ (HasInk(wrapped) <=> ~Empty(texts[b]))
  <2>1. texts[b] \in AText
    BY DEF Content
  <2> QED
    BY <2>1, WrapsGood DEF WrapGood
<1>2. h \in Nat
  BY HeightsAssumption
<1>3. lines = [i \in 1..n |-> [block |-> b, words |-> wrapped[i],
                              top |-> top + (i - 1) * h, end |-> top + i * h]]
  BY DEF LinesFrom
<1> HIDE DEF wrapped, h, lines
<1>4. n \in Nat /\ DOMAIN wrapped = 1..n /\ \A i \in 1..n : wrapped[i] \in ALine
  BY <1>1, ElementOfSeq, LenProperties
<1> HIDE DEF n
<1>5. \A i \in 1..n : (i - 1) * h \in Nat /\ i * h \in Nat /\ i * h <= n * h
  <2> SUFFICES ASSUME NEW i \in 1..n
               PROVE  (i - 1) * h \in Nat /\ i * h \in Nat /\ i * h <= n * h
    OBVIOUS
  <2>1. i \in Nat /\ i - 1 \in Nat /\ i <= n
    BY <1>4
  <2> QED
    BY <1>2, <1>4, <2>1, Multiples
<1>6. ASSUME NEW i \in 1..n
      PROVE  [block |-> b, words |-> wrapped[i],
              top |-> top + (i - 1) * h, end |-> top + i * h] \in Drawn
  <2>1. top + (i - 1) * h \in Int /\ top + i * h \in Int
    BY <1>5
  <2> QED
    BY <1>4, <2>1 DEF Drawn
<1>7. lines \in Seq(Drawn) /\ Len(lines) = n /\ DOMAIN lines = 1..n
  <2>1. lines \in [1..n -> Drawn]
    BY <1>3, <1>6
  <2> QED
    BY <1>4, <2>1
<1>8. \A i \in 1..n : /\ lines[i].block = b /\ lines[i].words = wrapped[i]
                      /\ lines[i].top = top + (i - 1) * h /\ lines[i].end = top + i * h
  BY <1>3
<1>9. n * h \in Nat
  BY <1>2, <1>4, Multiples
<1>10. Within(lines, top, top + n * h)
  <2> SUFFICES ASSUME NEW i \in 1..n PROVE top <= lines[i].top /\ lines[i].end <= top + n * h
    BY <1>7 DEF Within
  <2> QED
    BY <1>5, <1>8, <1>9
<1>11. Apart(lines)
  <2> SUFFICES ASSUME NEW i \in 1..n, NEW j \in 1..n, i < j PROVE lines[i].end <= lines[j].top
    BY <1>7 DEF Apart
  <2>1. i \in Nat /\ j - 1 \in Nat /\ i <= j - 1
    BY <1>4
  <2>2. i * h \in Nat /\ (j - 1) * h \in Nat /\ i * h <= (j - 1) * h
    BY <1>2, <2>1, Multiples
  <2> QED
    BY <1>8, <2>2
<1>12. Shows(lines, b) <=> HasInk(wrapped)
  BY <1>4, <1>7, <1>8 DEF Shows, HasInk
<1>13. \A c \in 1..4 : c # b => ~Shows(lines, c)
  BY <1>7, <1>8 DEF Shows
<1> QED
  BY <1>1, <1>7, <1>9, <1>10, <1>11, <1>12, <1>13 DEF n, h, lines, wrapped

LEMMA Below ==
  ASSUME NEW d \in Seq(Drawn), NEW e \in Seq(Drawn),
         NEW upper \in Int, NEW middle \in Int, NEW edge \in Int, NEW lower \in Int,
         upper <= middle, middle <= edge, edge <= lower,
         Within(d, upper, middle), Within(e, edge, lower), Apart(d), Apart(e)
  PROVE  d \o e \in Seq(Drawn) /\ Within(d \o e, upper, lower) /\ Apart(d \o e)
<1>1. /\ Len(d) \in Nat /\ DOMAIN d = 1..Len(d)
      /\ Len(e) \in Nat /\ DOMAIN e = 1..Len(e)
      /\ DOMAIN (d \o e) = 1..(Len(d) + Len(e)) /\ d \o e \in Seq(Drawn)
      /\ \A i \in 1..(Len(d) + Len(e)) :
           (d \o e)[i] = IF i <= Len(d) THEN d[i] ELSE e[i - Len(d)]
  BY ConcatProperties, LenProperties
<1>2. /\ \A i \in 1..Len(d) : d[i].top \in Int /\ d[i].end \in Int
      /\ \A i \in 1..Len(e) : e[i].top \in Int /\ e[i].end \in Int
  <2>1. \A i \in 1..Len(d) : d[i] \in Drawn
    BY ElementOfSeq
  <2>2. \A i \in 1..Len(e) : e[i] \in Drawn
    BY ElementOfSeq
  <2> QED
    BY <2>1, <2>2 DEF Drawn
<1>3. /\ \A i \in 1..Len(d) : upper <= d[i].top /\ d[i].end <= middle
      /\ \A i \in 1..Len(e) : edge <= e[i].top /\ e[i].end <= lower
  BY <1>1 DEF Within
<1> DEFINE n == Len(d)
           m == Len(e)
           f == d \o e
<1>4. \A i \in 1..(n + m) : (i \in 1..n /\ f[i] = d[i])
                              \/ (i - n \in 1..m /\ i > n /\ f[i] = e[i - n])
  <2> SUFFICES ASSUME NEW i \in 1..(n + m)
               PROVE  (i \in 1..n /\ f[i] = d[i]) \/ (i - n \in 1..m /\ i > n /\ f[i] = e[i - n])
    OBVIOUS
  <2>1. (i <= n /\ i \in 1..n) \/ (~(i <= n) /\ i - n \in 1..m /\ i > n)
    BY <1>1
  <2> QED
    BY <1>1, <2>1
<1>5. Within(f, upper, lower)
  <2> SUFFICES ASSUME NEW i \in 1..(n + m) PROVE upper <= f[i].top /\ f[i].end <= lower
    BY <1>1 DEF Within
  <2>1. CASE i \in 1..n /\ f[i] = d[i]
    BY <1>2, <1>3, <2>1
  <2>2. CASE i - n \in 1..m /\ f[i] = e[i - n]
    BY <1>2, <1>3, <2>2
  <2> QED
    BY <1>4, <2>1, <2>2
<1>6. Apart(f)
  <2> SUFFICES ASSUME NEW i \in 1..(n + m), NEW j \in 1..(n + m), i < j
               PROVE  f[i].end <= f[j].top
    BY <1>1 DEF Apart
  <2> HIDE DEF f
  <2>1. CASE i \in 1..n /\ f[i] = d[i] /\ j \in 1..n /\ f[j] = d[j]
    BY <1>1, <2>1 DEF Apart
  <2>2. CASE i \in 1..n /\ f[i] = d[i] /\ j - n \in 1..m /\ f[j] = e[j - n]
    BY <1>2, <1>3, <2>2
  <2>3. CASE i - n \in 1..m /\ f[i] = e[i - n] /\ j - n \in 1..m /\ f[j] = e[j - n]
    <3>1. i - n < j - n
      BY <1>1
    <3> QED
      BY <1>1, <2>3, <3>1 DEF Apart
  <2>4. ~(i > n /\ j \in 1..n)
    BY <1>1
  <2> QED
    BY <1>4, <2>1, <2>2, <2>3, <2>4
<1> QED
  BY <1>1, <1>5, <1>6

LEMMA ShowsAdds ==
  ASSUME NEW d \in Seq(Drawn), NEW e \in Seq(Drawn), NEW b \in 1..4
  PROVE  Shows(d \o e, b) <=> Shows(d, b) \/ Shows(e, b)
<1>1. /\ Len(d) \in Nat /\ DOMAIN d = 1..Len(d)
      /\ Len(e) \in Nat /\ DOMAIN e = 1..Len(e)
      /\ DOMAIN (d \o e) = 1..(Len(d) + Len(e))
      /\ \A i \in 1..(Len(d) + Len(e)) :
           (d \o e)[i] = IF i <= Len(d) THEN d[i] ELSE e[i - Len(d)]
  BY ConcatProperties, LenProperties
<1> DEFINE Has(s, i) == s[i].block = b /\ s[i].words # <<>>
<1>2. ASSUME NEW i \in 1..(Len(d) + Len(e)), Has(d \o e, i)
      PROVE  Shows(d, b) \/ Shows(e, b)
  <2>1. (i <= Len(d) /\ i \in 1..Len(d)) \/ (~(i <= Len(d)) /\ i - Len(d) \in 1..Len(e))
    BY <1>1
  <2> QED
    BY <1>1, <1>2, <2>1 DEF Shows
<1>3. ASSUME NEW i \in 1..Len(d), Has(d, i) PROVE Shows(d \o e, b)
  <2>1. i \in 1..(Len(d) + Len(e)) /\ i <= Len(d)
    BY <1>1
  <2> QED
    BY <1>1, <1>3, <2>1 DEF Shows
<1>4. ASSUME NEW i \in 1..Len(e), Has(e, i) PROVE Shows(d \o e, b)
  <2>1. /\ Len(d) + i \in 1..(Len(d) + Len(e)) /\ ~(Len(d) + i <= Len(d))
        /\ (Len(d) + i) - Len(d) = i
    BY <1>1
  <2>2. (d \o e)[Len(d) + i] = e[i]
    BY <1>1, <2>1
  <2> QED
    BY <1>1, <1>4, <2>1, <2>2 DEF Shows
<1> QED
  BY <1>1, <1>2, <1>3, <1>4 DEF Shows

(* The card so far: its lines stand apart, above nextTop, and show the     *)
(* texts that were set.                                                    *)
Standing ==
  /\ block \in 0..5 /\ nextTop \in Nat /\ bottom \in Int
  /\ drawn \in Seq(Drawn)
  /\ IF block = 0 THEN texts = <<>> /\ drawn = <<>> ELSE texts \in Content
Showing == \A b \in 1..4 : Shows(drawn, b) <=> block > b /\ ~Empty(texts[b])
Stacked ==
  /\ block < 5 => Within(drawn, 0, nextTop) /\ Apart(drawn)
  /\ block = 5 /\ ~overflow => Within(drawn, 0, bottom) /\ Apart(drawn)
Judging ==
  /\ phase = "spec" => block = 0
  /\ phase = "judged" =>
       /\ block = 5
       /\ report["required_fields"] <=> \A b \in 1..4 : ~Empty(texts[b])
       /\ report["text_overflow"] <=> ~overflow
  /\ phase = "raised" => \/ color # Plain /\ ValidHex(color)
                         \/ block \in 1..4 /\ FontSize(block) = 0 /\ sides[1] < MinSide

(* A card that is drawn has a width, and the fonts of the blocks set have  *)
(* a size.                                                                 *)
Fitting ==
  phase \in {"render", "judged"} =>
    sides[1] \in Nat /\ \A b \in 1..4 : b < block => FontSize(b) > 0
CardInv == Standing /\ Showing /\ Stacked /\ Judging /\ Fitting

(* 0 is the quotient of a width that is less than the divisor.             *)
LEMMA TooNarrow ==
  ASSUME NEW b \in 1..4, sides[1] \in Nat
  PROVE  FontSize(b) \in Nat /\ (FontSize(b) = 0 => sides[1] < MinSide)
<1>1. FontDivs[b] \in 1..MinSide /\ MinSide \in Nat
  BY SizeAssumption
<1>2. \A w \in Nat, d \in Nat \ {0} : w \div d \in Nat /\ (w \div d = 0 => w < d)
  OBVIOUS
<1> QED
  BY <1>1, <1>2 DEF FontSize

LEMMA NothingShown ==
  (\A b \in 1..4 : ~Shows(<<>>, b)) /\ Within(<<>>, 0, 0) /\ Apart(<<>>)
BY DEF Shows, Within, Apart

LEMMA PlainReads == HexToRgb(Plain)
<1> DEFINE s == <<"0", "0">>
<1>1. \A i \in {1, 3, 5} : SubSeq(Plain, i, i + 1) = s
  <2>1. Plain \in Seq({"0"}) /\ Len(Plain) = 6
    BY DEF Plain
  <2>2. ASSUME NEW i \in {1, 3, 5} PROVE SubSeq(Plain, i, i + 1) = s
    <3>1. i \in Int /\ i + 1 \in Int /\ i <= i + 1 /\ (i + 1) - i + 1 = 2
      OBVIOUS
    <3>2. \A k \in i..(i + 1) : Plain[k] \in {"0"}
      <4>1. \A k \in i..(i + 1) : k \in 1..6
        OBVIOUS
      <4> QED
        BY <2>1, <4>1, ElementOfSeq
    <3>3. SubSeq(Plain, i, i + 1) \in Seq({"0"}) /\ Len(SubSeq(Plain, i, i + 1)) = 2
      BY <3>1, <3>2, SubSeqProperties
    <3>4. \A u \in Seq({"0"}) : Len(u) = 2 => u = s
      OBVIOUS
    <3> QED
      BY <3>3, <3>4
  <2> QED
    BY <2>2
<1>2. Trimmed(s) = s
  <2>1. {i \in DOMAIN s : s[i] # " "} = {1, 2}
    <3>1. DOMAIN s = {1, 2} /\ s[1] = "0" /\ s[2] = "0" /\ "0" # " "
      OBVIOUS
    <3> HIDE DEF s
    <3> QED
      BY <3>1
  <2>2. Min({1, 2}) = 1 /\ Max({1, 2}) = 2
    BY DEF Min, Max
  <2>3. SubSeq(s, 1, 2) = s
    <3>1. s \in Seq({"0"}) /\ Len(s) = 2
      OBVIOUS
    <3> HIDE DEF s
    <3> QED
      BY <3>1, SubSeqFull
  <2> QED
    BY <2>1, <2>2, <2>3 DEF Trimmed
<1>3. Unsigned(s) = s
  <2>1. ~IsPrefix(<<"+">>, s)
    BY DEF IsPrefix
  <2> QED
    BY <2>1 DEF Unsigned
<1>4. Unprefixed(s) = s
  <2>1. ~IsPrefix(<<"0", "x", "_">>, s) /\ ~IsPrefix(<<"0", "x">>, s)
    BY DEF IsPrefix
  <2> QED
    BY <2>1 DEF Unprefixed
<1>5. IsHex(s)
  <2>1. Unprefixed(Unsigned(Trimmed(s))) = s
    BY <1>2, <1>3, <1>4
  <2>2. s # <<>> /\ \A i \in DOMAIN s : s[i] = "0"
    OBVIOUS
  <2>3. "0" # "_"
    OBVIOUS
  <2> HIDE DEF s
  <2> QED
    BY <2>1, <2>2, <2>3 DEF IsHex
<1> QED
  BY <1>1, <1>5 DEF HexToRgb

LEMMA CardStarts == CardInit => CardInv
<1> SUFFICES ASSUME CardInit PROVE CardInv
  OBVIOUS
<1>1. Standing
  BY DEF CardInit, LayoutInit, Standing
<1>2. Showing
  BY NothingShown DEF CardInit, LayoutInit, Showing
<1>3. Stacked
  BY NothingShown DEF CardInit, LayoutInit, Stacked
<1>4. Judging /\ Fitting
  BY DEF CardInit, LayoutInit, Judging, Fitting
<1> QED
  BY <1>1, <1>2, <1>3, <1>4 DEF CardInv

LEMMA ParsingKeeps ==
  ASSUME CardInv, NEW content \in Content, NEW height \in Int, NEW c, NEW size,
         1 \in DOMAIN size, ParseCard(content, height, c, size)
  PROVE  CardInv'
<1>1. block = 0 /\ phase = "spec" /\ nextTop \in Nat /\ drawn = <<>> /\ bottom \in Int
  BY DEF CardInv, Standing, Judging, ParseCard
<1>2. CASE phase' = "render"
  <2>1. /\ texts' = content /\ bottom' = height /\ block' = 1
        /\ nextTop' = nextTop /\ drawn' = drawn /\ overflow' = overflow
    BY <1>2 DEF ParseCard, Begin
  <2>2. Standing'
    BY <1>1, <2>1 DEF Standing
  <2>3. Showing'
    BY <1>1, <2>1, NothingShown DEF Showing
  <2>4. Stacked'
    <3>1. Within(drawn, 0, nextTop) /\ Apart(drawn)
      BY <1>1 DEF CardInv, Stacked
    <3> QED
      BY <2>1, <3>1 DEF Stacked, Within, Apart
  <2>5. Judging'
    BY <1>2, <2>1 DEF Judging
  <2>6. Fitting'
    <3>1. sides' = size /\ Admitted(content, c, size)
      BY <1>2 DEF ParseCard
    <3>2. size[1] \in 1..MaxSide
      BY <3>1 DEF Admitted, ToSet
    <3>3. size[1] \in Nat /\ \A b \in 1..4 : ~(b < block')
      BY <2>1, <3>2, SizeAssumption
    <3> QED
      BY <3>1, <3>3 DEF Fitting
  <2> QED
    BY <2>2, <2>3, <2>4, <2>5, <2>6 DEF CardInv
<1>3. CASE phase' # "render"
  <2>1. UNCHANGED layoutVars /\ phase' \in {"refused", "raised"} /\ color' = c
    BY <1>3 DEF ParseCard
  <2>2. Standing' /\ Showing' /\ Stacked'
    BY <2>1 DEF CardInv, Standing, Showing, Stacked, Shows, Within, Apart, layoutVars
  <2>3. phase' = "raised" => ValidHex(c) /\ ~HexToRgb(c)
    BY DEF ParseCard, Admitted
  <2>4. Judging'
    <3>1. phase' = "raised" => color' # Plain /\ ValidHex(color')
      BY <2>1, <2>3, PlainReads
    <3> QED
      BY <1>1, <2>1, <3>1 DEF Judging, layoutVars, ValidHex
  <2>5. Fitting'
    BY <2>1 DEF Fitting
  <2> QED
    BY <2>2, <2>4, <2>5 DEF CardInv
<1> QED
  BY <1>2, <1>3

LEMMA FittingGrows ==
  ASSUME CardInv, DrawBlock, block' = block + 1 PROVE Fitting'
<1>1. /\ phase = "render" /\ FontSize(block) > 0 /\ block \in 1..4
      /\ UNCHANGED cardVars
  BY DEF DrawBlock
<1>2. sides[1] \in Nat /\ \A b \in 1..4 : b < block => FontSize(b) > 0
  BY <1>1 DEF CardInv, Fitting
<1>3. \A b \in 1..4 : b < block' => FontSize(b) > 0
  BY <1>1, <1>2
<1> QED
  BY <1>1, <1>2, <1>3 DEF Fitting, FontSize, cardVars

LEMMA SetBlockKeeps ==
  ASSUME CardInv, DrawBlock, SetBlock PROVE CardInv'
<1> DEFINE lines == LinesFrom(block, nextTop)
           height == Len(lines) * LineHeights[block]
<1>1. /\ block \in 1..3 /\ nextTop \in Nat /\ bottom \in Int /\ drawn \in Seq(Drawn)
      /\ texts \in Content
  BY DEF CardInv, Standing, SetBlock
<1>2. /\ lines \in Seq(Drawn) /\ height \in Nat
      /\ Within(lines, nextTop, nextTop + height) /\ Apart(lines)
      /\ Shows(lines, block) <=> ~Empty(texts[block])
      /\ \A c \in 1..4 : c # block => ~Shows(lines, c)
  <2>1. block \in 1..4 /\ nextTop \in Int
    BY <1>1
  <2> QED
    BY <1>1, <2>1, LinesDrawn
<1>3. /\ drawn' = drawn \o lines /\ nextTop' = nextTop + height + BlockGap
      /\ block' = block + 1 /\ texts' = texts /\ bottom' = bottom /\ overflow' = overflow
  BY DEF SetBlock
<1> HIDE DEF lines, height
<1>4. Within(drawn, 0, nextTop) /\ Apart(drawn)
  BY <1>1 DEF CardInv, Stacked
<1>5. BlockGap \in Nat
  BY HeightsAssumption
<1>6. drawn' \in Seq(Drawn) /\ Within(drawn', 0, nextTop') /\ Apart(drawn')
  <2>1. /\ nextTop + height \in Int /\ nextTop' \in Int /\ nextTop + height <= nextTop'
        /\ 0 <= nextTop /\ nextTop <= nextTop /\ nextTop <= nextTop'
    BY <1>1, <1>2, <1>3, <1>5
  <2>2. Within(lines, nextTop, nextTop')
    <3>1. \A i \in DOMAIN lines : lines[i].end \in Int
      <4>1. \A i \in DOMAIN lines : lines[i] \in Drawn
        BY <1>2, ElementOfSeq, LenProperties
      <4> QED
        BY <4>1 DEF Drawn
    <3> QED
      BY <1>1, <1>2, <2>1, <3>1 DEF Within
  <2>3. /\ drawn \o lines \in Seq(Drawn) /\ Within(drawn \o lines, 0, nextTop')
        /\ Apart(drawn \o lines)
    BY <1>1, <1>2, <1>4, <2>1, <2>2, Below
  <2> QED
    BY <1>3, <2>3
<1>7. Standing'
  <2>1. block' \in 0..5 /\ block' # 0 /\ nextTop' \in Nat
    BY <1>1, <1>2, <1>3, <1>5
  <2> QED
    BY <1>1, <1>3, <1>6, <2>1 DEF Standing
<1>8. Showing'
  <2> SUFFICES ASSUME NEW b \in 1..4
               PROVE  Shows(drawn', b) <=> block' > b /\ ~Empty(texts'[b])
    BY DEF Showing
  <2>1. Shows(drawn', b) <=> Shows(drawn, b) \/ Shows(lines, b)
    BY <1>1, <1>2, <1>3, ShowsAdds
  <2>2. Shows(drawn, b) <=> block > b /\ ~Empty(texts[b])
    BY DEF CardInv, Showing
  <2>3. block' > b <=> block > b \/ b = block
    BY <1>1, <1>3
  <2> QED
    BY <1>1, <1>2, <1>3, <2>1, <2>2, <2>3
<1>9. Stacked'
  <2>1. block' # 5
    BY <1>1, <1>3
  <2> QED
    BY <1>6, <2>1 DEF Stacked, Within, Apart
<1>10. Judging'
  BY DEF DrawBlock, Judging, cardVars
<1>11. Fitting'
  BY <1>3, FittingGrows
<1> QED
  BY <1>7, <1>8, <1>9, <1>10, <1>11 DEF CardInv

LEMMA SetFooterKeeps ==
  ASSUME CardInv, DrawBlock, SetFooter PROVE CardInv'
<1> DEFINE lines == LinesFrom(4, FooterTop)
           height == Len(lines) * LineHeights[4]
<1>1. /\ block = 4 /\ nextTop \in Nat /\ bottom \in Int /\ drawn \in Seq(Drawn)
      /\ texts \in Content
  BY DEF CardInv, Standing, SetFooter
<1>2. /\ FooterTop \in Int /\ FooterTop + height = bottom /\ height \in Nat
      /\ lines \in Seq(Drawn)
      /\ Within(lines, FooterTop, bottom) /\ Apart(lines)
      /\ Shows(lines, 4) <=> ~Empty(texts[4])
      /\ \A c \in 1..4 : c # 4 => ~Shows(lines, c)
  <2> DEFINE n == Len(Wrap(texts[4])) * LineHeights[4]
             other == LinesFrom(4, 0)
  <2>1. n \in Nat
    <3>1. /\ Len(other) * LineHeights[4] \in Nat /\ Len(other) = Len(Wrap(texts[4]))
      BY <1>1, LinesDrawn
    <3> QED
      BY <3>1
  <2>2. FooterTop = bottom - n
    BY DEF FooterTop
  <2> HIDE DEF n
  <2>3. FooterTop \in Int /\ FooterTop + n = bottom
    BY <1>1, <2>1, <2>2
  <2> HIDE DEF lines
  <2>4. /\ lines \in Seq(Drawn) /\ Len(lines) = Len(Wrap(texts[4]))
        /\ Within(lines, FooterTop, FooterTop + Len(lines) * LineHeights[4]) /\ Apart(lines)
        /\ Shows(lines, 4) <=> ~Empty(texts[4])
        /\ \A c \in 1..4 : c # 4 => ~Shows(lines, c)
    BY <1>1, <2>3, LinesDrawn DEF lines
  <2>5. height = n
    BY <2>4 DEF n
  <2> QED
    BY <2>1, <2>3, <2>4, <2>5
<1>3. /\ drawn' = drawn \o lines /\ overflow' = Overflows
      /\ block' = 5 /\ texts' = texts /\ bottom' = bottom /\ nextTop' = nextTop
  BY DEF SetFooter
<1> HIDE DEF lines, height
<1>4. Within(drawn, 0, nextTop) /\ Apart(drawn)
  BY <1>1 DEF CardInv, Stacked
<1>5. ~overflow' => Within(drawn', 0, bottom') /\ Apart(drawn')
  <2> SUFFICES ASSUME ~overflow' PROVE Within(drawn', 0, bottom') /\ Apart(drawn')
    OBVIOUS
  <2>1. nextTop <= FooterTop /\ FooterTop <= bottom /\ 0 <= nextTop /\ nextTop \in Int
    <3>1. ~(nextTop > FooterTop)
      BY <1>3 DEF Overflows
    <3>2. FooterTop \in Int /\ height \in Nat /\ FooterTop + height = bottom
      BY <1>2
    <3> QED
      BY <1>1, <3>1, <3>2
  <2>2. Within(drawn \o lines, 0, bottom) /\ Apart(drawn \o lines)
    BY <1>1, <1>2, <1>4, <2>1, Below
  <2> QED
    BY <1>3, <2>2
<1>6. Standing'
  <2>1. drawn \o lines \in Seq(Drawn)
    BY <1>1, <1>2, ConcatProperties
  <2> QED
    BY <1>1, <1>3, <2>1 DEF Standing
<1>7. Showing'
  <2> SUFFICES ASSUME NEW b \in 1..4
               PROVE  Shows(drawn', b) <=> block' > b /\ ~Empty(texts'[b])
    BY DEF Showing
  <2>1. Shows(drawn', b) <=> Shows(drawn, b) \/ Shows(lines, b)
    BY <1>1, <1>2, <1>3, ShowsAdds
  <2>2. Shows(drawn, b) <=> block > b /\ ~Empty(texts[b])
    BY DEF CardInv, Showing
  <2>3. block' > b /\ (block > b <=> b # 4)
    BY <1>1, <1>3
  <2> QED
    BY <1>1, <1>2, <1>3, <2>1, <2>2, <2>3
<1>8. Stacked'
  BY <1>3, <1>5 DEF Stacked, Within, Apart
<1>9. Judging'
  BY DEF DrawBlock, Judging, cardVars
<1>10. Fitting'
  <2>1. block' = block + 1
    BY <1>1, <1>3
  <2> QED
    BY <2>1, FittingGrows
<1> QED
  BY <1>6, <1>7, <1>8, <1>9, <1>10 DEF CardInv

LEMMA FontRaisesKeeps == ASSUME CardInv, FontRaises PROVE CardInv'
<1>1. /\ phase = "render" /\ phase' = "raised" /\ block \in 1..4 /\ FontSize(block) = 0
      /\ UNCHANGED <<color, sides, report, layoutVars>>
  BY DEF FontRaises
<1>2. Standing' /\ Showing' /\ Stacked'
  BY <1>1 DEF CardInv, Standing, Showing, Stacked, Shows, Within, Apart, layoutVars
<1>3. sides[1] < MinSide
  BY <1>1, TooNarrow DEF CardInv, Fitting
<1>4. block' = block /\ sides' = sides
  BY <1>1 DEF layoutVars
<1>5. Judging'
  BY <1>1, <1>3, <1>4 DEF Judging, FontSize
<1>6. Fitting'
  BY <1>1 DEF Fitting
<1> QED
  BY <1>2, <1>5, <1>6 DEF CardInv

LEMMA JudgingKeeps ==
  ASSUME CardInv, NEW recent, NEW legible, CheckCard(recent, legible) PROVE CardInv'
<1>1. UNCHANGED layoutVars /\ phase' = "judged" /\ block = 5
  BY DEF CheckCard
<1>2. Standing' /\ Showing' /\ Stacked'
  BY <1>1 DEF CardInv, Standing, Showing, Stacked, Shows, Within, Apart, layoutVars
<1>3. /\ report'["required_fields"] = (\A b \in 1..4 : ~Empty(texts[b]))
      /\ report'["text_overflow"] = ~overflow
  BY DEF CheckCard, Checks
<1>4. Judging'
  <2>1. block' = 5 /\ texts' = texts /\ overflow' = overflow
    BY <1>1 DEF layoutVars
  <2>2. phase' = "judged" /\ block' # 0 /\ phase' # "raised"
    BY <1>1, <2>1
  <2>3. (report["required_fields"])' <=> \A b \in 1..4 : ~Empty((texts')[b])
    BY <1>3, <2>1
  <2>4. (report["text_overflow"])' <=> ~overflow'
    BY <1>3, <2>1
  <2> QED
    BY <2>1, <2>2, <2>3, <2>4 DEF Judging, Empty
<1>5. Fitting'
  BY DEF CardInv, Fitting, FontSize, CheckCard, layoutVars
<1> QED
  BY <1>2, <1>4, <1>5 DEF CardInv

LEMMA CardStays == CardInv /\ [CardNext]_<<layoutVars, cardVars>> => CardInv'
<1> SUFFICES ASSUME CardInv, [CardNext]_<<layoutVars, cardVars>> PROVE CardInv'
  OBVIOUS
<1>1. CASE UNCHANGED <<layoutVars, cardVars>>
  BY <1>1 DEF CardInv, Standing, Showing, Stacked, Judging, Fitting, FontSize, Shows,
              Within, Apart, layoutVars, cardVars, Empty, ValidHex
<1>2. Heights \subseteq Int /\ Max(Heights) \in Int
  BY HeightsAssumption DEF Max
<1>3. ASSUME NEW content \in Content, NEW height \in Int, NEW c, NEW size,
             1 \in DOMAIN size, ParseCard(content, height, c, size)
      PROVE  CardInv'
  BY <1>3, ParsingKeeps
<1>4. CASE DrawBlock
  BY <1>4, SetBlockKeeps, SetFooterKeeps DEF DrawBlock
<1>5. CASE FontRaises
  BY <1>5, FontRaisesKeeps
<1>6. ASSUME NEW recent, NEW legible, CheckCard(recent, legible) PROVE CardInv'
  BY <1>6, JudgingKeeps
<1>7. 1 \in DOMAIN Expected /\ \A size \in Sides \X Sides : 1 \in DOMAIN size
  BY DEF Expected
<1> QED
  BY <1>1, <1>2, <1>3, <1>4, <1>5, <1>6, <1>7, ContentsKept DEF CardNext

(* The types of a card: what it is given, and what is said of it.          *)
CardTyped ==
  /\ bottom \in Heights \cup {0} /\ overflow \in BOOLEAN
  /\ phase \in Phases /\ color \in Colors \cup {Plain}
  /\ sides \in {<<0, 0>>, <<MinSide, MinSide>>} \cup (Sides \X Sides)
  /\ report = NoReport \/ report \in [Checks -> BOOLEAN]

LEMMA CardTypedStart == CardInit => CardTyped
BY DEF CardInit, LayoutInit, CardTyped, Phases

LEMMA ParseTyped ==
  ASSUME CardTyped, NEW content, NEW height \in Heights, NEW c \in Colors \cup {Plain},
         NEW size \in {<<MinSide, MinSide>>} \cup (Sides \X Sides),
         ParseCard(content, height, c, size)
  PROVE  CardTyped'
<1>1. color' = c /\ sides' = size /\ report' = report
  BY DEF ParseCard
<1>2. phase' \in Phases
  BY DEF ParseCard, Phases
<1>3. bottom' \in {height, bottom} /\ overflow' = overflow
  BY DEF ParseCard, Begin, layoutVars
<1> QED
  BY <1>1, <1>2, <1>3 DEF CardTyped

LEMMA CheckTyped ==
  ASSUME CardTyped, NEW recent, NEW legible \in BOOLEAN, CheckCard(recent, legible)
  PROVE  CardTyped'
<1> DEFINE verdict(c) ==
      CASE c = "required_fields"    -> \A b \in 1..4 : ~Empty(texts[b])
        [] c = "text_overflow"      -> ~overflow
        [] c = "min_contrast"       -> legible
        [] c = "min_resolution"     -> Min(ToSet(sides)) >= MinSide
        [] c = "content_similarity" -> \A r \in recent : ~Similar(Signature, r)
<1>1. /\ verdict("required_fields") \in BOOLEAN /\ verdict("text_overflow") \in BOOLEAN
      /\ verdict("min_contrast") \in BOOLEAN /\ verdict("content_similarity") \in BOOLEAN
      /\ verdict("min_resolution") \in BOOLEAN
  OBVIOUS
<1>2. \A c \in Checks : verdict(c) \in BOOLEAN
  BY <1>1 DEF Checks
<1>3. report' = [c \in Checks |-> verdict(c)]
  BY DEF CheckCard
<1> HIDE DEF verdict
<1>4. report' \in [Checks -> BOOLEAN]
  BY <1>2, <1>3
<1>5. phase' \in Phases /\ UNCHANGED <<color, sides, layoutVars>>
  BY DEF CheckCard, Phases
<1> QED
  BY <1>4, <1>5 DEF CardTyped, layoutVars

LEMMA CardTypedStep == CardTyped /\ [CardNext]_<<layoutVars, cardVars>> => CardTyped'
<1> SUFFICES ASSUME CardTyped, [CardNext]_<<layoutVars, cardVars>> PROVE CardTyped'
  OBVIOUS
<1>1. CASE UNCHANGED <<layoutVars, cardVars>>
  BY <1>1 DEF CardTyped, layoutVars, cardVars
<1>2. Max(Heights) \in Heights
  <2>1. Heights \subseteq Int /\ \E tallest \in Heights : \A h \in Heights : h <= tallest
    BY HeightsAssumption
  <2>2. \E tallest \in Heights : \A h \in Heights : tallest >= h
    BY <2>1
  <2> QED
    BY <2>2 DEF Max
<1>3. ASSUME NEW content \in Contents, NEW height \in Heights,
             ParseCard(content, height, Plain, Expected)
      PROVE  CardTyped'
  BY <1>3, ParseTyped DEF Expected
<1>4. ASSUME NEW c \in Colors, NEW content, ParseCard(content, Max(Heights), c, Expected)
      PROVE  CardTyped'
  BY <1>2, <1>4, ParseTyped DEF Expected
<1>5. ASSUME NEW size \in Sides \X Sides, NEW content,
             ParseCard(content, Max(Heights), Plain, size)
      PROVE  CardTyped'
  BY <1>2, <1>5, ParseTyped
<1>6. CASE DrawBlock
  <2>1. Overflows \in BOOLEAN
    BY DEF Overflows
  <2>2. bottom' = bottom /\ overflow' \in BOOLEAN
    BY <1>6, <2>1 DEF DrawBlock, SetBlock, SetFooter, CardTyped
  <2> QED
    BY <1>6, <2>2 DEF DrawBlock, cardVars, CardTyped
<1>7. CASE FontRaises
  BY <1>7 DEF FontRaises, CardTyped, Phases, layoutVars
<1>8. ASSUME NEW recent, NEW legible \in BOOLEAN, CheckCard(recent, legible)
      PROVE  CardTyped'
  BY <1>8, CheckTyped
<1> QED
  BY <1>1, <1>3, <1>4, <1>5, <1>6, <1>7, <1>8 DEF CardNext

LEMMA CardIsTyped == CardInv /\ CardTyped => CardTypeOK
<1> SUFFICES ASSUME CardInv, CardTyped PROVE CardTypeOK
  OBVIOUS
<1>1. block \in 0..5 /\ nextTop \in Nat /\ drawn \in Seq(Drawn)
  BY DEF CardInv, Standing
<1>2. \A i \in DOMAIN drawn : drawn[i].block \in 1..4 /\ drawn[i].top \in Int
  <2>1. \A i \in DOMAIN drawn : drawn[i] \in Drawn
    BY <1>1
  <2> QED
    BY <2>1 DEF Drawn
<1> QED
  BY <1>1, <1>2 DEF CardTyped, CardTypeOK, LayoutTypeOK

LEMMA ReportTold == CardInv => ReportTrue
<1> SUFFICES ASSUME CardInv PROVE ReportTrue
  OBVIOUS
<1>1. ASSUME phase = "judged"
      PROVE  /\ report["required_fields"] <=> \A b \in 1..4 : Visible(b)
             /\ report["text_overflow"] => CleanUnlessOverflow
             /\ \A b \in 1..4 : FontSize(b) > 0
  <2>1. /\ block = 5
        /\ report["required_fields"] <=> \A b \in 1..4 : ~Empty(texts[b])
        /\ report["text_overflow"] <=> ~overflow
    BY <1>1 DEF CardInv, Judging
  <2>2. \A b \in 1..4 : Shows(drawn, b) <=> ~Empty(texts[b])
    BY <2>1 DEF CardInv, Showing
  <2>3. \A b \in 1..4 : Visible(b) <=> Shows(drawn, b)
    BY DEF Visible, Shows
  <2>4. ~overflow => CleanUnlessOverflow
    BY <2>1 DEF CardInv, Stacked, Within, Apart, CleanUnlessOverflow
  <2>5. \A b \in 1..4 : FontSize(b) > 0
    BY <1>1, <2>1 DEF CardInv, Fitting
  <2> QED
    BY <2>1, <2>2, <2>3, <2>4, <2>5
<1>2. phase = "raised" =>
        \/ color # Plain /\ ValidHex(color)
        \/ block \in 1..4 /\ FontSize(block) = 0 /\ sides[1] < MinSide
  BY DEF CardInv, Judging
<1> QED
  BY <1>1, <1>2 DEF ReportTrue

(* The quality report of a card tells what a reader of it sees: what it    *)
(* calls present is drawn, what it calls clean stands apart and inside the *)
(* safe area.  A render of what parse_card_spec admitted raises on nothing *)
(* but a colour that is not six hex digits or a width that is too small    *)
(* for the font of a block, and then too small for the gate as well.       *)
THEOREM ReportsTellTheCard == CardSpec => []ReportTrue
<1> QED
  BY CardStarts, CardStays, ReportTold, PTL DEF CardSpec
==============================================================================
