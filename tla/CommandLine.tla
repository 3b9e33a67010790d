---------------------------- MODULE CommandLine ----------------------------
(***************************************************************************)
(* The commands of the operations CLI (bootstrap.py): which settings each  *)
(* of them asks for, in which order, and what it has done by then.  A      *)
(* command reads its channel's row once; the operator may switch a channel *)
(* off or take its token away at any moment.  Cycles and postings are      *)
(* single steps here, PublishSystem has them in full.                      *)
(***************************************************************************)
EXTENDS Naturals, Sequences

CONSTANTS
  Shells,            \* terminals and cron jobs
  Accounts,          \* rows of channel
  AccountPlatform,   \* [Accounts -> {"instagram", "youtube"}]
  MaxStarted,        \* bound: commands begun
  MaxEdits           \* bound: rows of channel the operator edits

ASSUME AccountsAssumption ==
  AccountPlatform \in [Accounts -> {"instagram", "youtube"}]
ASSUME CommandBounds == MaxStarted \in Nat /\ MaxEdits \in Nat

VARIABLES
  modeOf,      \* channel.mode: "off" or "on", which is auto or hybrid
  grantOf,     \* whether channel.token_encrypted holds a token that works
  landed,      \* the publications: whose they are, and what became of them
  shell,       \* what runs in each shell and how far it is
  started, edits

shellVars == <<modeOf, grantOf, landed, shell, started, edits>>

(* DATABASE_URL and a valid key; IG_USER_ID; the key of the model; the     *)
(* sandbox; SNS_CHANNEL_TOKEN; slots that parse.                           *)
Settings == {"config", "igUser", "model", "sandbox", "secret", "slots"}

(* Mutant: the cycle is opened before the sandbox is asked for.            *)
CycleOpenedFirst == <<"config", "channel", "publisher", "poller", "model", "open",
                      "sandbox", "agents", "batch">>

CycleSteps == <<"config", "channel", "publisher", "poller", "model", "sandbox",
                "open", "agents", "batch">>

(* The commands, as their functions go through them; main() is first.      *)
Steps == [
  cycle   |-> CycleSteps,
  pending |-> <<"config", "channel", "publisher", "batch">>,
  metrics |-> <<"config", "channel", "poller", "poll">>,
  approve |-> <<"config", "approve">>,
  token   |-> <<"config", "secret", "store">>,
  ytAuth  |-> <<"config", "channel", "store">>,
  resident |-> <<"config", "slots", "channel", "publisher", "poller", "model", "loop">>]

NoCommand == [command |-> "none", account |-> "none", has |-> {}, at |-> 0,
              ended |-> "done", mode |-> "off", token |-> FALSE, did |-> {}, rows |-> <<>>]

CommandsInit ==
  /\ modeOf = [a \in Accounts |-> "on"]
  /\ grantOf = [a \in Accounts |-> TRUE]
  /\ landed = <<>>
  /\ shell = [s \in Shells |-> NoCommand]
  /\ started = 0 /\ edits = 0

-----------------------------------------------------------------------------
(* Which refusals a step may meet                                          *)

Step(s) == IF shell[s].ended # "no" THEN "none" ELSE Steps[shell[s].command][shell[s].at]

OnYouTube(s) == AccountPlatform[shell[s].account] = "youtube"

Without(s, x) == Step(s) = x /\ x \notin shell[s].has

NoConfig(s) == Without(s, "config")
NoModel(s) == Without(s, "model")
NotSandboxed(s) == Without(s, "sandbox")
NoSecret(s) == Without(s, "secret")
BadSlots(s) == Without(s, "slots")
ChannelOff(s) == Step(s) = "channel" /\ modeOf[shell[s].account] = "off"

(* A grant of YouTube is looked at when an adapter is built; for Instagram *)
(* that is the account's id only.                                          *)
NoPublisher(s) ==
  /\ Step(s) = "publisher"
  /\ IF OnYouTube(s) THEN ~grantOf[shell[s].account] ELSE "igUser" \notin shell[s].has

NoPoller(s) == Step(s) = "poller" /\ OnYouTube(s) /\ ~grantOf[shell[s].account]

(* asyncio.run inside the loop that runs the slots.                        *)
LoopRuns(s) == Step(s) = "loop"

Lacks(s) ==
  \/ NoConfig(s) \/ NoModel(s) \/ NotSandboxed(s) \/ NoSecret(s) \/ BadSlots(s)
  \/ ChannelOff(s) \/ NoPublisher(s) \/ NoPoller(s) \/ LoopRuns(s)

-----------------------------------------------------------------------------
BeginCommand(s, c, a, env) ==
  /\ shell[s].ended # "no"
  /\ started < MaxStarted
  /\ c = "ytAuth" => AccountPlatform[a] = "youtube"
  /\ shell' = [shell EXCEPT ![s] = [NoCommand EXCEPT
       !.command = c, !.account = a, !.has = env, !.at = 1, !.ended = "no"]]
  /\ started' = started + 1
  /\ UNCHANGED <<modeOf, grantOf, landed, edits>>

(* The exception of a setting ends the process.                            *)
Refuse(s) ==
  /\ Lacks(s)
  /\ shell' = [shell EXCEPT ![s].ended = "refused"]
  /\ UNCHANGED <<modeOf, grantOf, landed, started, edits>>

(* The next step, or the end of the command.                               *)
Advanced(record) ==
  IF record.at = Len(Steps[record.command]) THEN [record EXCEPT !.ended = "done"]
                                            ELSE [record EXCEPT !.at = @ + 1]

Pass(s) ==
  /\ Step(s) \in Settings \cup {"channel", "publisher", "poller"}
  /\ ~Lacks(s)
  /\ LET a == shell[s].account
         read == [shell[s] EXCEPT !.mode = modeOf[a], !.token = grantOf[a]]
     IN shell' = [shell EXCEPT ![s] = Advanced(IF Step(s) = "channel" THEN read ELSE @)]
  /\ UNCHANGED <<modeOf, grantOf, landed, started, edits>>

(* A step that changes what others see.                                    *)
Does(s, x) ==
  shell' = [shell EXCEPT ![s] = Advanced([shell[s] EXCEPT !.did = @ \cup {x}])]

(* create_cycle; the agents, and what they made lands for the operator, in *)
(* either mode; the metrics slot.                                          *)
Work(s) ==
  LET step == Step(s) IN
  /\ step \in {"open", "agents", "poll"}
  /\ Does(s, step)
  /\ \/ step = "agents"
        /\ landed' = Append(landed, [owner |-> shell[s].account, state |-> "waits"])
     \/ UNCHANGED landed
  /\ UNCHANGED <<modeOf, grantOf, started, edits>>

(* approve_publication: one publication, whatever its channel.             *)
ApprovePublication(s) ==
  /\ Step(s) = "approve"
  /\ \E n \in 1..Len(landed) :
       /\ landed[n].state = "waits"
       /\ landed' = [landed EXCEPT ![n].state = "pending"]
  /\ Does(s, "approve")
  /\ UNCHANGED <<modeOf, grantOf, started, edits>>

ApproveNone(s) ==
  /\ Step(s) = "approve"
  /\ shell' = [shell EXCEPT ![s].ended = "unknown"]
  /\ UNCHANGED <<modeOf, grantOf, landed, started, edits>>

(* save_channel_token, and what the browser gave yt-auth.                  *)
Store(s) ==
  /\ Step(s) = "store"
  /\ grantOf' = [grantOf EXCEPT ![shell[s].account] = TRUE]
  /\ Does(s, "store")
  /\ UNCHANGED <<modeOf, landed, started, edits>>

-----------------------------------------------------------------------------
(* The batch: whatever passed, of every channel (publish/runner.py:49-63)  *)

SelectRows(s) ==
  /\ Step(s) = "batch" /\ "batch" \notin shell[s].did
  /\ shell' = [shell EXCEPT
       ![s].rows = SelectSeq([n \in 1..Len(landed) |-> n],
                             LAMBDA n : landed[n].state = "pending"),
       ![s].did = @ \cup {"batch"}]
  /\ UNCHANGED <<modeOf, grantOf, landed, started, edits>>

(* PlatformDispatch has the adapter of the command's platform only.        *)
Routed(s, n) ==
  AccountPlatform[landed[n].owner] = AccountPlatform[shell[s].account]

(* The adapter posts on the account of the command, or is refused for good *)
(* or for now.                                                             *)
PostRow(s) ==
  LET n == Head(shell[s].rows) IN
  /\ Step(s) = "batch" /\ shell[s].rows # <<>>
  /\ Routed(s, n)
  /\ OnYouTube(s) \/ shell[s].token
  /\ \/ /\ landed' = [landed EXCEPT ![n] =
             [owner |-> @.owner, state |-> "published", on |-> shell[s].account]]
        /\ shell' = [shell EXCEPT ![s].rows = Tail(@), ![s].did = @ \cup {"post"}]
     \/ /\ \E state \in {"failed", "pending"} : landed' = [landed EXCEPT ![n].state = state]
        /\ shell' = [shell EXCEPT ![s].rows = Tail(@)]
  /\ UNCHANGED <<modeOf, grantOf, started, edits>>

(* A row of another platform, and a token that is not there when the       *)
(* request asks for it, raise out of the batch.                            *)
RowRaises(s) ==
  LET n == Head(shell[s].rows) IN
  /\ Step(s) = "batch" /\ shell[s].rows # <<>>
  /\ ~Routed(s, n) \/ ~(OnYouTube(s) \/ shell[s].token)
  /\ shell' = [shell EXCEPT ![s].ended = IF Routed(s, n) THEN "refused" ELSE "foreign"]
  /\ UNCHANGED <<modeOf, grantOf, landed, started, edits>>

RowsDone(s) ==
  /\ Step(s) = "batch" /\ "batch" \in shell[s].did /\ shell[s].rows = <<>>
  /\ shell' = [shell EXCEPT ![s] = Advanced(@)]
  /\ UNCHANGED <<modeOf, grantOf, landed, started, edits>>

(* The operator, and who took the token back.                              *)
EditChannel(a) ==
  /\ edits < MaxEdits
  /\ edits' = edits + 1
  /\ \/ modeOf[a] # "off" /\ modeOf' = [modeOf EXCEPT ![a] = "off"] /\ UNCHANGED grantOf
     \/ grantOf[a] /\ grantOf' = [grantOf EXCEPT ![a] = FALSE] /\ UNCHANGED modeOf
  /\ UNCHANGED <<landed, shell, started>>

(* Bound: a command lacks one setting at most.                             *)
Environments == {Settings} \cup {Settings \ {x} : x \in Settings}

CommandsNext ==
  \/ \E s \in Shells :
       \/ \E c \in DOMAIN Steps, a \in Accounts, env \in Environments : BeginCommand(s, c, a, env)
       \/ Refuse(s) \/ Pass(s) \/ Work(s) \/ ApprovePublication(s) \/ ApproveNone(s)
       \/ Store(s) \/ SelectRows(s) \/ PostRow(s) \/ RowRaises(s) \/ RowsDone(s)
  \/ \E a \in Accounts : EditChannel(a)

CommandsSpec == CommandsInit /\ [][CommandsNext]_shellVars

-----------------------------------------------------------------------------
CommandsTypeOK ==
  /\ modeOf \in [Accounts -> {"on", "off"}]
  /\ grantOf \in [Accounts -> BOOLEAN]
  /\ \A s \in Shells : /\ shell[s].ended \in {"no", "done", "refused", "unknown", "foreign"}
                       /\ shell[s].has \subseteq Settings
                       /\ shell[s].token \in BOOLEAN
  /\ \A n \in 1..Len(landed) : landed[n].owner \in Accounts
  /\ started \in 0..MaxStarted /\ edits \in 0..MaxEdits

(* What a command lacks ends it before it costs anything (fail-fast:       *)
(* config.py:1-4, sandbox.py:1-6, bootstrap.py:189): no cycle is opened,   *)
(* no model asked, nothing posted or stored.  The exception is the token   *)
(* of Instagram, asked for lazily (bootstrap.py:94): a cycle is run before *)
(* it is missed, but nothing is posted then, nor failed for it.            *)
FailsFast ==
  \A s \in Shells : shell[s].ended = "refused" =>
    \/ shell[s].did = {}
    \/ ~shell[s].token /\ shell[s].did \subseteq {"open", "agents", "batch"}

(* A channel that was off when the command began posts nothing, and a post *)
(* is on the platform its publication was made for.  On the account it was *)
(* made for it need not be: _SELECT_PENDING takes the rows of every        *)
(* channel, those of one that is off included.                             *)
PostsOnPlatform ==
  /\ \A s \in Shells : "post" \in shell[s].did => shell[s].mode # "off"
  /\ \A n \in 1..Len(landed) : landed[n].state = "published" =>
       AccountPlatform[landed[n].on] = AccountPlatform[landed[n].owner]

CommandsInOrder == FailsFast /\ PostsOnPlatform
=============================================================================
