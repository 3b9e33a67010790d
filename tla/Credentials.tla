----------------------------- MODULE Credentials -----------------------------
(***************************************************************************)
(* The token of one channel (crypto.py, config.py, adapters/youtube/       *)
(* auth_db.py, bootstrap.py): encrypted in the channel's row, read by      *)
(* every command, refreshed and written back by those of a YouTube         *)
(* channel.  Around it are the operator, who registers tokens, rotates the *)
(* key of the environment and takes grants back, and Google, which         *)
(* refreshes a grant that was not taken back.                              *)
(***************************************************************************)
EXTENDS Naturals, FiniteSets

CONSTANTS
  Commands,   \* the CLI processes
  Keys,       \* the encryption keys
  Version,    \* [Keys -> Nat] the versions the environment gives with them
  Grants,     \* the grants Google may issue
  MaxWrites   \* bound: tokens registered by set-token

ASSUME CredentialsAssumption ==
  Keys # {} /\ Version \in [Keys -> Nat \ {0}] /\ MaxWrites \in Nat

VARIABLES
  channel,    \* the channel's platform
  envKey,     \* the key of the environment
  stored,     \* the row's token columns
  revoked,    \* the grants that were taken back
  issued,     \* the grants that Google has issued
  writes,     \* how often set-token ran
  place,      \* where each command is
  auth,       \* is it yt-auth, which may open a browser?
  key,        \* the key it was started with
  found,      \* the row it read
  cred,       \* the credentials in its memory
  overtaken   \* was the key rotated or a grant taken back while it ran?

outside     == <<envKey, revoked, issued, writes>>
commandVars == <<place, auth, key, found, cred, overtaken>>
tokenVars   == <<channel, envKey, stored, revoked, issued, writes, commandVars>>

Absent == [kind |-> "none"]

(* What a token column may hold in plain: a user's credentials, with a     *)
(* refresh token or with an empty one, or a text that is no such JSON; an  *)
(* Instagram token is a text.  fresh: the access token has not expired.    *)
Tokens == [kind : {"full", "hollow"}, grant : Grants, fresh : BOOLEAN]
Text   == [kind |-> "text"]
Rows   == [token : Tokens \cup {Text}, key : Keys,
           version : {Version[k] : k \in Keys}]

(* The exceptions a command may end with.                                  *)
Errors == {"DecryptionError", "ValueError", "RefreshError", "YouTubeAuthError", "Denied"}

TokensInit ==
  /\ channel \in {"instagram", "youtube"}
  /\ envKey \in Keys
  /\ stored = Absent
  /\ revoked = {} /\ issued = {} /\ writes = 0
  /\ place = [c \in Commands |-> "idle"]
  /\ auth = [c \in Commands |-> FALSE]
  /\ key = [c \in Commands |-> Absent]
  /\ found = [c \in Commands |-> Absent]
  /\ cred = [c \in Commands |-> Absent]
  /\ overtaken = [c \in Commands |-> FALSE]

-----------------------------------------------------------------------------
Encrypted(token, k) == [token |-> token, key |-> k, version |-> Version[k]]
Goes(c, there) == place' = [place EXCEPT ![c] = there]

(* main() reads the environment; load_channel finds the channel.           *)
StartCommand(c, interactive) ==
  /\ place[c] = "idle"
  /\ interactive => channel = "youtube"
  /\ Goes(c, "load")
  /\ auth' = [auth EXCEPT ![c] = interactive]
  /\ key' = [key EXCEPT ![c] = envKey]
  /\ UNCHANGED <<channel, stored, outside, found, cred, overtaken>>

(* Without credentials that are valid.                                     *)
WithoutCredentials(c) == IF auth[c] THEN "flow" ELSE "YouTubeAuthError"

(* Mutant: whatever is wrong with the token is called invalid credentials. *)
RestoredInvalid(c, r) ==
  IF r.key # key[c] \/ r.token = Text THEN WithoutCredentials(c)
  ELSE IF r.token.fresh THEN "ready"
  ELSE IF r.token.kind = "full" THEN "refresh" ELSE WithoutCredentials(c)

(* decrypt raises for a token of another key, the restoring for a text.    *)
Restored(c, r) ==
  IF r.key # key[c] THEN "DecryptionError"
  ELSE IF r.token = Text THEN "ValueError"
  ELSE IF r.token.fresh THEN "ready"
  ELSE IF r.token.kind = "full" THEN "refresh" ELSE WithoutCredentials(c)

(* ensure_credentials, up to the refresh.                                  *)
LoadYouTube(c) ==
  /\ place[c] = "load" /\ channel = "youtube"
  /\ found' = [found EXCEPT ![c] = stored]
  /\ Goes(c, IF stored = Absent THEN WithoutCredentials(c) ELSE Restored(c, stored))
  /\ cred' = [cred EXCEPT ![c] =
       IF stored # Absent /\ stored.key = key[c] /\ stored.token # Text
       THEN stored.token ELSE Absent]
  /\ UNCHANGED <<channel, stored, outside, auth, key, overtaken>>

(* token_provider: what load_channel read is decrypted when it is used.    *)
LoadInstagram(c) ==
  /\ place[c] = "load" /\ channel = "instagram"
  /\ found' = [found EXCEPT ![c] = stored]
  /\ Goes(c, "provide")
  /\ UNCHANGED <<channel, stored, outside, auth, key, cred, overtaken>>
Provide(c) ==
  /\ place[c] = "provide"
  /\ Goes(c, IF found[c] = Absent THEN "ValueError"
             ELSE IF found[c].key # key[c] THEN "DecryptionError" ELSE "ready")
  /\ UNCHANGED <<channel, stored, outside, auth, key, found, cred, overtaken>>

(* Mutant: a token that could not be refreshed is taken out of the row.    *)
RefreshForgets(c) ==
  /\ place[c] = "refresh"
  /\ \/ /\ cred[c].grant \notin revoked
        /\ cred' = [cred EXCEPT ![c].fresh = TRUE]
        /\ Goes(c, "persist")
        /\ UNCHANGED stored
     \/ Goes(c, "RefreshError") /\ stored' = Absent /\ UNCHANGED cred
  /\ UNCHANGED <<channel, outside, auth, key, found, overtaken>>

(* Google refreshes, or raises: for good, or because it cannot be reached. *)
Refresh(c) ==
  /\ place[c] = "refresh"
  /\ \/ /\ cred[c].grant \notin revoked
        /\ cred' = [cred EXCEPT ![c].fresh = TRUE]
        /\ Goes(c, "persist")
     \/ Goes(c, "RefreshError") /\ UNCHANGED cred
  /\ UNCHANGED <<channel, stored, outside, auth, key, found, overtaken>>

(* persist_credentials of what was refreshed, whatever the row is now; it  *)
(* may have expired again by then.                                         *)
Persist(c) ==
  /\ place[c] = "persist"
  /\ stored' = Encrypted(cred[c], key[c])
  /\ Goes(c, IF cred[c].fresh THEN "ready" ELSE WithoutCredentials(c))
  /\ UNCHANGED <<channel, outside, auth, key, found, cred, overtaken>>

(* The user consents, to a grant that is new, or does not.                 *)
Flow(c) ==
  /\ place[c] = "flow"
  /\ \/ \E g \in Grants \ issued :
          /\ issued' = issued \cup {g}
          /\ cred' = [cred EXCEPT ![c] = [kind |-> "full", grant |-> g, fresh |-> TRUE]]
          /\ Goes(c, "persist_new")
     \/ Goes(c, "Denied") /\ UNCHANGED <<issued, cred>>
  /\ UNCHANGED <<channel, envKey, stored, revoked, writes, auth, key, found, overtaken>>

(* persist_credentials of the new grant, which is returned as it is.       *)
PersistNew(c) ==
  /\ place[c] = "persist_new"
  /\ stored' = Encrypted(cred[c], key[c])
  /\ Goes(c, "ready")
  /\ UNCHANGED <<channel, outside, auth, key, found, cred, overtaken>>

(* A cycle asks again for the poller of the metrics, with the channel it   *)
(* has loaded, and every call of Instagram asks for the token.             *)
AskAgain(c) ==
  /\ place[c] = "ready" /\ ~auth[c]
  /\ Goes(c, IF channel = "youtube" THEN "load" ELSE "provide")
  /\ UNCHANGED <<channel, stored, outside, auth, key, found, cred, overtaken>>

(* The command ends, with its work, its exception or without either.       *)
CommandEnds(c) ==
  /\ place[c] # "idle"
  /\ Goes(c, "idle")
  /\ auth' = [auth EXCEPT ![c] = FALSE]
  /\ key' = [key EXCEPT ![c] = Absent]
  /\ found' = [found EXCEPT ![c] = Absent]
  /\ cred' = [cred EXCEPT ![c] = Absent]
  /\ overtaken' = [overtaken EXCEPT ![c] = FALSE]
  /\ UNCHANGED <<channel, stored, outside>>

-----------------------------------------------------------------------------
(* The operator, Google and time                                           *)

(* set-token: one UPDATE, of whatever SNS_CHANNEL_TOKEN holds.             *)
SetToken(token) ==
  /\ writes < MaxWrites
  /\ channel = "instagram" => token = Text
  /\ token # Text => token.grant \notin revoked
  /\ stored' = Encrypted(token, envKey)
  /\ issued' = IF token = Text THEN issued ELSE issued \cup {token.grant}
  /\ writes' = writes + 1
  /\ UNCHANGED <<channel, envKey, revoked, commandVars>>

Overtake == overtaken' = [c \in Commands |-> overtaken[c] \/ place[c] # "idle"]

Rotate(k) ==
  /\ k # envKey
  /\ envKey' = k
  /\ Overtake
  /\ UNCHANGED <<channel, stored, revoked, issued, writes, place, auth, key, found, cred>>

Revoke(g) ==
  /\ g \in issued \ revoked
  /\ revoked' = revoked \cup {g}
  /\ Overtake
  /\ UNCHANGED <<channel, envKey, stored, issued, writes, place, auth, key, found, cred>>

(* An hour passes for the access token in the row, or in a process that    *)
(* has still to look whether it is valid.                                  *)
ExpireStored ==
  /\ stored # Absent /\ stored.token # Text
  /\ stored' = [stored EXCEPT !.token.fresh = FALSE]
  /\ UNCHANGED <<channel, outside, commandVars>>
ExpireHeld(c) ==
  /\ place[c] = "persist"
  /\ cred' = [cred EXCEPT ![c].fresh = FALSE]
  /\ UNCHANGED <<channel, stored, outside, place, auth, key, found, overtaken>>

Command(c) ==
  \/ \E interactive \in BOOLEAN : StartCommand(c, interactive)
  \/ LoadYouTube(c) \/ LoadInstagram(c) \/ Provide(c)
  \/ Refresh(c) \/ Persist(c) \/ Flow(c) \/ PersistNew(c)
  \/ AskAgain(c) \/ CommandEnds(c)

TokensNext ==
  \/ \E c \in Commands : Command(c) \/ ExpireHeld(c)
  \/ \E token \in Tokens \cup {Text} : SetToken(token)
  \/ \E k \in Keys : Rotate(k)
  \/ \E g \in Grants : Revoke(g)
  \/ ExpireStored

TokensSpec == TokensInit /\ [][TokensNext]_tokenVars

-----------------------------------------------------------------------------
(* Properties                                                              *)

Places == {"idle", "load", "provide", "refresh", "persist", "flow", "persist_new", "ready"}

TokensTypeOK ==
  /\ channel \in {"instagram", "youtube"} /\ envKey \in Keys
  /\ stored \in Rows \cup {Absent}
  /\ revoked \subseteq issued /\ issued \subseteq Grants /\ writes \in 0..MaxWrites
  /\ place \in [Commands -> Places \cup Errors]
  /\ auth \in [Commands -> BOOLEAN] /\ overtaken \in [Commands -> BOOLEAN]
  /\ key \in [Commands -> Keys \cup {Absent}]
  /\ found \in [Commands -> Rows \cup {Absent}]
  /\ cred \in [Commands -> Tokens \cup {Absent}]

(* The next command can work with what the row holds.                      *)
Usable(r) ==
  /\ r # Absent /\ r.key = envKey /\ r.version = Version[r.key]
  /\ channel = "youtube" =>
       r.token # Text /\ r.token.kind = "full" /\ r.token.grant \notin revoked

(* Commands that overlap may refresh, re-issue and write in any order: a   *)
(* token that can be used stays one that can (auth_db.py:3-5), until the   *)
(* operator takes it back, rotates the key or registers another, or a      *)
(* command writes that was running while the operator did.                 *)
UsableStays ==
  [][Usable(stored) /\ ~Usable(stored)' =>
       \/ envKey' # envKey \/ revoked' # revoked \/ writes' # writes
       \/ \E c \in Commands : overtaken[c] /\ place'[c] # place[c]]_tokenVars

(* When a command advises to issue the credentials anew with yt-auth       *)
(* (auth_db.py:73-76), yt-auth does not stumble over the row the command   *)
(* saw: it can be decrypted and restored, and if it has a refresh token    *)
(* Google honours it, unless it was taken back in the meantime.            *)
AdviceHelps ==
  \A c \in Commands : place[c] = "YouTubeAuthError" /\ found[c] # Absent =>
    LET r == found[c] IN
    /\ r.key = key[c] /\ r.token # Text
    /\ r.token.kind = "full" => r.token.grant \notin revoked \/ overtaken[c]
=============================================================================
