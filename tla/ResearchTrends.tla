--------------------------- MODULE ResearchTrends ---------------------------
(***************************************************************************)
(* One call of the trend research tool (research/trends.py).  Every source *)
(* asked for is fetched by a thread of its own; the caller collects the    *)
(* answers in the order of the request and waits for each at most Timeout, *)
(* counted from the moment its turn comes.  What a source answers is       *)
(* reduced to: some items, only blank ones, an exception.                  *)
(*                                                                         *)
(* The caller is prompt: no time passes while it has something to collect  *)
(* or to give up.  The sources may answer at any moment, also after they   *)
(* were given up.                                                          *)
(***************************************************************************)
EXTENDS Integers, Sequences

CONSTANTS
  Sources,     \* the names an agent may ask for
  Registered,  \* those with a fetcher
  Timeout,     \* timeout_s, in ticks
  MaxAsked,    \* bound: names in a request
  Horizon      \* bound: ticks

ASSUME SourcesAssumption == Registered \subseteq Sources
ASSUME TimesAssumption ==
  Timeout \in Nat \ {0} /\ MaxAsked \in Nat /\ Horizon \in Nat

VARIABLES
  asked,    \* the sources selected, in order
  future,   \* the future of each source asked
  answered, \* history: when it was done, Never before
  clock,    \* ticks since the threads were started
  since,    \* when the caller began to wait for the next result
  results,  \* the SourceResults collected so far
  asking    \* is the call under way?

trendsVars == <<asked, future, answered, clock, since, results, asking>>

Never == -1
Requests == UNION {[1..n -> Sources] : n \in 0..MaxAsked}
Outcomes == {"items", "blank", "raised"}

TrendsInit ==
  /\ asked = <<>>
  /\ future = [s \in Sources |-> "none"]
  /\ answered = [s \in Sources |-> Never]
  /\ clock = 0 /\ since = 0
  /\ results = <<>>
  /\ asking = FALSE

-----------------------------------------------------------------------------
(* The threads start at once: there is a worker for every name.  A name    *)
(* asked for twice has one entry in the map of futures, the later one.     *)
Ask(request) ==
  /\ ~asking
  /\ asked' = request
  /\ future' = [s \in Sources |->
                  IF \E i \in DOMAIN request : request[i] = s
                  THEN "running" ELSE "none"]
  /\ answered' = [s \in Sources |-> Never]
  /\ clock' = 0 /\ since' = 0
  /\ results' = <<>>
  /\ asking' = (request # <<>>)

(* A thread ends; a name without a fetcher raises KeyError.  Abandoned     *)
(* threads run on after the call has returned, nobody sees them.           *)
Answer(s, outcome) ==
  /\ asking
  /\ future[s] = "running"
  /\ s \notin Registered => outcome = "raised"
  /\ future' = [future EXCEPT ![s] = outcome]
  /\ answered' = [answered EXCEPT ![s] = clock]
  /\ UNCHANGED <<asked, clock, since, results, asking>>

Turn == asked[Len(results) + 1]

(* Mutant: the timeout ends a tick too early.                             *)
OverdueEarly == clock - since >= Timeout - 1

Overdue == clock - since >= Timeout

Collected(result) ==
  /\ results' = Append(results, result)
  /\ since' = clock
  /\ asking' = (Len(results) + 1 < Len(asked))
  /\ UNCHANGED <<asked, future, answered, clock>>

(* The next source has answered: ok unless it raised, and blank items are  *)
(* dropped.                                                                *)
Collect ==
  /\ asking
  /\ future[Turn] # "running"
  /\ Collected([source |-> Turn,
                ok     |-> future[Turn] # "raised",
                items  |-> future[Turn] = "items"])

(* future.result(timeout) has timed out.                                   *)
GiveUp ==
  /\ asking
  /\ future[Turn] = "running"
  /\ Overdue
  /\ Collected([source |-> Turn, ok |-> FALSE, items |-> FALSE])

Tick ==
  /\ asking
  /\ clock < Horizon
  /\ future[Turn] = "running" /\ ~Overdue
  /\ clock' = clock + 1
  /\ UNCHANGED <<asked, future, answered, since, results, asking>>

TrendsNext ==
  \/ \E request \in Requests : Ask(request)
  \/ \E s \in Sources, outcome \in Outcomes : Answer(s, outcome)
  \/ Collect \/ GiveUp \/ Tick

TrendsSpec == TrendsInit /\ [][TrendsNext]_trendsVars

-----------------------------------------------------------------------------
(* Properties                                                              *)

(* Every variable stays in its type, and there is no more than one result  *)
(* for each name asked, in their order.                                    *)
TrendsTypeOK ==
  /\ asked \in Requests
  /\ future \in [Sources -> Outcomes \cup {"none", "running"}]
  /\ answered \in [Sources -> Nat \cup {Never}]
  /\ clock \in Nat /\ since \in 0..clock
  /\ results \in Seq([source : Sources, ok : BOOLEAN, items : BOOLEAN])
  /\ Len(results) <= Len(asked)
  /\ asking \in BOOLEAN /\ (asking <=> Len(results) < Len(asked))
  /\ \A i \in 1..Len(results) : results[i].source = asked[i]

(* A slow or failing source costs no other its place (FR-G4): one that     *)
(* answered within the timeout is never reported as failed, wherever it    *)
(* stands in the request and however long the others took.                 *)
Prompt(s) == /\ future[s] \in {"items", "blank"}
             /\ answered[s] < Timeout
PromptKept ==
  \A i \in 1..Len(results) : Prompt(results[i].source) => results[i].ok

(* Each name adds at most one timeout to the call.                         *)
CallBounded == since <= Timeout * Len(results) /\ clock - since <= Timeout

(* One source's delay holds up neither the rest nor the caller             *)
(* (trends.py:6-8, 62-67).                                                 *)
DelayContained == PromptKept /\ CallBounded
=============================================================================
