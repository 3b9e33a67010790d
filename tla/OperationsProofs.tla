-------------------------- MODULE OperationsProofs --------------------------
(***************************************************************************)
(* What the operator relies on, for any number of writers and lineages of  *)
(* the playbook, and of commands, keys, grants and channels: the versions  *)
(* of the playbook advance, a channel's token stays usable, and a command  *)
(* that lacks something ends before it costs anything.  And what all the   *)
(* services promise when they stand side by side.                          *)
(***************************************************************************)
EXTENDS Services, ServicesProofs, SequenceTheorems, TLAPS

-----------------------------------------------------------------------------
(* The playbook                                                            *)


(* A row about to be inserted follows one that is there, and is above all  *)
(* those its statement saw.                                                *)
Follows(w) ==
  LET p == pending[w] IN
  p # NoWrite =>
    /\ p.version = 1 \/ p.version - 1 \in VersionsOf(p.lineage)
    /\ p.after <= Len(guidance[p.lineage])
    /\ \A j \in 1..p.after : guidance[p.lineage][j].version < p.version

(* No statement saw its own row.                                           *)
SawEarlier ==
  \A l \in Lineages : \A i \in 1..Len(guidance[l]) : guidance[l][i].after < i

PlaybookInv ==
  /\ PlaybookTypeOK /\ VersionsAdvance /\ SawEarlier
  /\ \A w \in Writers : Follows(w)

LEMMA RowTypes ==
  ASSUME PlaybookTypeOK, NEW l \in Lineages
  PROVE  /\ guidance[l] \in Seq(PlaybookRows) /\ Len(guidance[l]) \in Nat
         /\ \A i \in 1..Len(guidance[l]) :
              guidance[l][i].version \in Nat \ {0} /\ guidance[l][i].after \in Nat
         /\ VersionsOf(l) \subseteq Nat
<1>1. guidance[l] \in Seq(PlaybookRows) /\ Len(guidance[l]) \in Nat
  BY DEF PlaybookTypeOK
<1>2. \A i \in 1..Len(guidance[l]) : guidance[l][i] \in PlaybookRows
  BY <1>1
<1>3. \A r \in PlaybookRows : r.version \in Nat \ {0} /\ r.after \in Nat
  BY DEF PlaybookRows
<1>4. \A i \in 1..Len(guidance[l]) :
        guidance[l][i].version \in Nat \ {0} /\ guidance[l][i].after \in Nat
  BY <1>2, <1>3
<1>5. VersionsOf(l) \subseteq Nat
  <2> SUFFICES ASSUME NEW v \in VersionsOf(l) PROVE v \in Nat
    OBVIOUS
  <2>1. PICK i \in 1..Len(guidance[l]) : v = guidance[l][i].version
    BY DEF VersionsOf
  <2> QED
    BY <1>4, <2>1
<1> QED
  BY <1>1, <1>4, <1>5

LEMMA PlaybookStart == PlaybookInit => PlaybookInv
<1> SUFFICES ASSUME PlaybookInit PROVE PlaybookInv
  OBVIOUS
<1>1. PlaybookTypeOK
  BY DEF PlaybookInit, PlaybookTypeOK
<1>2. \A l \in Lineages : guidance[l] = <<>> /\ Len(guidance[l]) = 0
  BY DEF PlaybookInit
<1>3. VersionsAdvance /\ SawEarlier
  BY <1>2, LineagesAssumption
  DEF SawEarlier, VersionsAdvance, NoVersionSkipped, OneRowPerVersion, TiesOverlapped
<1>4. \A w \in Writers : Follows(w)
  BY DEF PlaybookInit, Follows
<1> QED
  BY <1>1, <1>3, <1>4 DEF PlaybookInv

LEMMA BeginStep ==
  ASSUME PlaybookInv, NEW w \in Writers, NEW l \in Lineages, BeginWrite(w, l)
  PROVE  PlaybookInv'
<1>1. PICK v \in {0} \cup Versions :
        /\ Latest(l, v)
        /\ pending' = [pending EXCEPT ![w] =
             [lineage |-> l, version |-> v + 1, after |-> Len(guidance[l])]]
  BY DEF BeginWrite
<1>2. guidance' = guidance /\ written' = written + 1
  BY DEF BeginWrite
<1>3. guidance[l] \in Seq(PlaybookRows) /\ Len(guidance[l]) \in Nat
  BY DEF PlaybookInv, PlaybookTypeOK
<1>4. v \in {0} \cup VersionsOf(l) /\ \A n \in VersionsOf(l) : n <= v
  BY <1>1 DEF Latest
<1>5. v \in Nat
  BY <1>4, RowTypes DEF PlaybookInv
<1>6. PlaybookTypeOK'
  BY <1>1, <1>2, <1>3, <1>5 DEF PlaybookInv, PlaybookTypeOK
<1>7. VersionsAdvance' /\ SawEarlier'
  BY <1>2 DEF PlaybookInv, SawEarlier, VersionsAdvance, NoVersionSkipped, OneRowPerVersion,
              TiesOverlapped
<1>8. ASSUME NEW x \in Writers PROVE Follows(x)'
  <2>1. CASE x = w
    <3>1. pending'[x] = [lineage |-> l, version |-> v + 1, after |-> Len(guidance[l])]
      BY <1>1, <2>1 DEF PlaybookInv, PlaybookTypeOK
    <3>2. \A j \in 1..Len(guidance[l]) : guidance[l][j].version < v + 1
      <4> TAKE j \in 1..Len(guidance[l])
      <4>1. guidance[l][j].version \in VersionsOf(l)
        BY DEF VersionsOf
      <4>2. guidance[l][j].version \in Nat /\ guidance[l][j].version <= v
        BY <1>4, <4>1, RowTypes DEF PlaybookInv
      <4> QED
        BY <1>5, <4>2
    <3>3. v + 1 - 1 = v /\ (v = 0 => v + 1 = 1)
      BY <1>5
    <3>4. VersionsOf(l)' = VersionsOf(l)
      BY <1>2 DEF VersionsOf
    <3>5. v + 1 = 1 \/ v + 1 - 1 \in VersionsOf(l)'
      BY <1>4, <3>3, <3>4
    <3> QED
      BY <1>2, <1>3, <3>1, <3>2, <3>5 DEF Follows
  <2>2. CASE x # w
    BY <1>1, <1>2, <2>2 DEF PlaybookInv, PlaybookTypeOK, Follows, VersionsOf
  <2> QED
    BY <2>1, <2>2
<1> QED
  BY <1>6, <1>7, <1>8 DEF PlaybookInv

LEMMA InsertStep ==
  ASSUME PlaybookInv, NEW w \in Writers, InsertRow(w)
  PROVE  PlaybookInv'
<1> DEFINE l == pending[w].lineage
           new == [version |-> pending[w].version, after |-> pending[w].after]
           n == Len(guidance[l])
<1>1. /\ l \in Lineages /\ new \in PlaybookRows /\ pending[w] # NoWrite
      /\ new.version \in Nat \ {0} /\ new.after \in Nat
  BY DEF InsertRow, PlaybookInv, PlaybookTypeOK, PlaybookRows
<1>2. guidance[l] \in Seq(PlaybookRows) /\ n \in Nat
  BY <1>1 DEF PlaybookInv, PlaybookTypeOK
<1>3. /\ guidance' = [guidance EXCEPT ![l] = Append(@, new)]
      /\ pending' = [pending EXCEPT ![w] = NoWrite]
      /\ written' = written
  BY DEF InsertRow
<1>4. /\ guidance'[l] = Append(guidance[l], new)
      /\ \A k \in Lineages : k # l => guidance'[k] = guidance[k]
  BY <1>1, <1>3 DEF PlaybookInv, PlaybookTypeOK
<1>5. /\ Len(guidance'[l]) = n + 1 /\ guidance'[l][n + 1] = new
      /\ \A i \in 1..n : guidance'[l][i] = guidance[l][i]
  BY <1>1, <1>2, <1>4
<1>6. \A i \in 1..(n + 1) : i \in 1..n \/ i = n + 1
  BY <1>2
<1>7. /\ new.version = 1 \/ new.version - 1 \in VersionsOf(l)
      /\ new.after <= n
      /\ \A j \in 1..new.after : guidance[l][j].version < new.version
  BY <1>1 DEF PlaybookInv, Follows
<1>8. PlaybookTypeOK'
  <2>1. guidance' \in [Lineages -> Seq(PlaybookRows)]
    BY <1>1, <1>2, <1>3 DEF PlaybookInv, PlaybookTypeOK
  <2> QED
    BY <1>3, <2>1 DEF PlaybookInv, PlaybookTypeOK
<1>9. NoVersionSkipped'
  <2> SUFFICES ASSUME NEW k \in Lineages, NEW i \in 1..Len(guidance'[k])
               PROVE  \/ guidance'[k][i].version = 1
                      \/ \E j \in 1..(i - 1) :
                           guidance'[k][j].version = guidance'[k][i].version - 1
    BY DEF NoVersionSkipped
  <2>1. CASE k # l
    BY <1>4, <2>1 DEF PlaybookInv, VersionsAdvance, NoVersionSkipped
  <2>2. CASE k = l /\ i = n + 1
    <3>1. guidance'[k][i] = new /\ i - 1 = n
      BY <1>2, <1>5, <2>2
    <3>2. CASE new.version = 1
      BY <3>1, <3>2
    <3>3. CASE new.version - 1 \in VersionsOf(l)
      <4>1. PICK j \in 1..n : guidance[l][j].version = new.version - 1
        BY <3>3 DEF VersionsOf
      <4> QED
        BY <1>5, <2>2, <3>1, <4>1
    <3> QED
      BY <1>7, <3>2, <3>3
  <2>3. CASE k = l /\ i \in 1..n
    <3>1. guidance'[k][i] = guidance[l][i] /\ 1..(i - 1) \subseteq 1..n
      BY <1>2, <1>5, <2>3
    <3>2. \A j \in 1..(i - 1) : guidance'[k][j] = guidance[l][j]
      BY <1>5, <2>3, <3>1
    <3> QED
      BY <2>3, <3>1, <3>2 DEF PlaybookInv, VersionsAdvance, NoVersionSkipped
  <2> QED
    BY <1>5, <1>6, <2>1, <2>2, <2>3
<1>10. OneRowPerVersion'
  <2> SUFFICES ASSUME NEW k \in Referenced, NEW i \in 1..Len(guidance'[k])
               PROVE  guidance'[k][i].version = i
    BY DEF OneRowPerVersion
  <2>1. k \in Lineages
    BY LineagesAssumption
  <2>2. CASE k # l
    BY <1>4, <2>1, <2>2 DEF PlaybookInv, VersionsAdvance, OneRowPerVersion
  <2>3. CASE k = l /\ i \in 1..n
    BY <1>5, <2>3 DEF PlaybookInv, VersionsAdvance, OneRowPerVersion
  <2>4. CASE k = l /\ i = n + 1
    <3>1. \A j \in 1..n : guidance[l][j].version = j
      BY <2>4 DEF PlaybookInv, VersionsAdvance, OneRowPerVersion
    <3>2. VersionsOf(l) = 1..n
      BY <3>1 DEF VersionsOf
    <3>3. new.version \notin VersionsOf(l)
      BY <2>4 DEF InsertRow, Taken
    <3>4. new.version = n + 1
      BY <1>1, <1>2, <1>7, <3>2, <3>3
    <3> QED
      BY <1>5, <2>4, <3>4
  <2> QED
    BY <1>5, <1>6, <2>2, <2>3, <2>4
<1>11. TiesOverlapped'
  <2> SUFFICES ASSUME NEW k \in Lineages,
                      NEW i \in 1..Len(guidance'[k]), NEW j \in 1..Len(guidance'[k]),
                      j <= guidance'[k][i].after
               PROVE  guidance'[k][j].version < guidance'[k][i].version
    BY DEF TiesOverlapped
  <2>1. CASE k # l
    BY <1>4, <2>1 DEF PlaybookInv, VersionsAdvance, TiesOverlapped
  <2>2. CASE k = l /\ i = n + 1
    <3>1. guidance'[k][i] = new /\ j \in 1..new.after /\ j \in 1..n
      BY <1>1, <1>2, <1>5, <1>7, <2>2
    <3> QED
      BY <1>5, <1>7, <2>2, <3>1
  <2>3. CASE k = l /\ i \in 1..n /\ j \in 1..n
    BY <1>5, <2>3 DEF PlaybookInv, VersionsAdvance, TiesOverlapped
  <2>4. CASE k = l /\ i \in 1..n /\ j = n + 1
    <3>1. guidance'[k][i] = guidance[l][i] /\ guidance[l][i].after < i
      BY <1>1, <1>5, <2>4 DEF PlaybookInv, SawEarlier
    <3>2. guidance[l][i].after \in Nat
      BY <1>1, <2>4, RowTypes DEF PlaybookInv
    <3> QED
      BY <1>2, <2>4, <3>1, <3>2
  <2> QED
    BY <1>5, <1>6, <2>1, <2>2, <2>3, <2>4
<1>12. SawEarlier'
  <2> SUFFICES ASSUME NEW k \in Lineages, NEW i \in 1..Len(guidance'[k])
               PROVE  guidance'[k][i].after < i
    BY DEF SawEarlier
  <2>1. CASE k # l
    BY <1>4, <2>1 DEF PlaybookInv, SawEarlier
  <2>2. CASE k = l /\ i = n + 1
    BY <1>1, <1>2, <1>5, <1>7, <2>2
  <2>3. CASE k = l /\ i \in 1..n
    BY <1>1, <1>5, <2>3 DEF PlaybookInv, SawEarlier
  <2> QED
    BY <1>5, <1>6, <2>1, <2>2, <2>3
<1>13. ASSUME NEW x \in Writers PROVE Follows(x)'
  <2>1. CASE x = w
    <3>1. pending'[x] = NoWrite
      BY <1>3, <2>1 DEF PlaybookInv, PlaybookTypeOK
    <3> QED
      BY <3>1 DEF Follows
  <2>2. CASE x # w /\ pending[x] # NoWrite
    <3> DEFINE k == pending[x].lineage
    <3>1. pending'[x] = pending[x] /\ k \in Lineages /\ pending[x].after \in Nat
      BY <1>3, <2>2 DEF PlaybookInv, PlaybookTypeOK
    <3>2. Follows(x)
      BY DEF PlaybookInv
    <3>3. CASE k # l
      <4>1. guidance'[k] = guidance[k]
        BY <1>4, <3>1, <3>3
      <4> QED
        BY <3>1, <3>2, <4>1 DEF Follows, VersionsOf
    <3>4. CASE k = l
      <4>1. VersionsOf(k) \subseteq VersionsOf(k)'
        <5> SUFFICES ASSUME NEW v \in VersionsOf(k) PROVE v \in VersionsOf(k)'
          OBVIOUS
        <5>1. PICK i \in 1..n : v = guidance[l][i].version
          BY <3>4 DEF VersionsOf
        <5>2. v = guidance'[l][i].version /\ i \in 1..Len(guidance'[l])
          BY <1>2, <1>5, <5>1
        <5> QED
          BY <3>1, <3>4, <5>2 DEF VersionsOf
      <4>2. /\ pending[x].after <= n
            /\ \A j \in 1..pending[x].after : guidance[l][j].version < pending[x].version
        BY <2>2, <3>2, <3>4 DEF Follows
      <4>3. \A j \in 1..pending[x].after : guidance'[l][j] = guidance[l][j]
        BY <1>2, <1>5, <3>1, <4>2
      <4>4. pending[x].after <= Len(guidance'[l])
        BY <1>2, <1>5, <3>1, <4>2
      <4>5. pending[x].version = 1 \/ pending[x].version - 1 \in VersionsOf(k)'
        BY <2>2, <3>2, <4>1 DEF Follows
      <4> QED
        BY <3>1, <3>4, <4>2, <4>3, <4>4, <4>5 DEF Follows
    <3> QED
      BY <3>3, <3>4
  <2>3. CASE x # w /\ pending[x] = NoWrite
    <3>1. pending'[x] = NoWrite
      BY <1>3, <2>3 DEF PlaybookInv, PlaybookTypeOK
    <3> QED
      BY <3>1 DEF Follows
  <2> QED
    BY <2>1, <2>2, <2>3
<1> QED
  BY <1>8, <1>9, <1>10, <1>11, <1>12, <1>13 DEF PlaybookInv, VersionsAdvance

LEMMA RefusedStep ==
  ASSUME PlaybookInv, NEW w \in Writers, InsertRefused(w)
  PROVE  PlaybookInv'
<1>1. /\ guidance' = guidance /\ written' = written
      /\ pending' = [pending EXCEPT ![w] = NoWrite]
  BY DEF InsertRefused
<1>2. PlaybookTypeOK' /\ VersionsAdvance' /\ SawEarlier'
  BY <1>1 DEF PlaybookInv, PlaybookTypeOK, SawEarlier, VersionsAdvance,
              NoVersionSkipped, OneRowPerVersion, TiesOverlapped
<1>3. \A x \in Writers : Follows(x)'
  BY <1>1 DEF PlaybookInv, PlaybookTypeOK, Follows, VersionsOf
<1> QED
  BY <1>2, <1>3 DEF PlaybookInv

LEMMA PlaybookInvStep == PlaybookInv /\ [PlaybookNext]_playbookVars => PlaybookInv'
<1> SUFFICES ASSUME PlaybookInv, [PlaybookNext]_playbookVars PROVE PlaybookInv'
  OBVIOUS
<1>1. CASE PlaybookNext
  BY <1>1, BeginStep, InsertStep, RefusedStep DEF PlaybookNext
<1>2. CASE UNCHANGED playbookVars
  <2>1. VersionsAdvance' /\ SawEarlier' /\ PlaybookTypeOK'
    BY <1>2 DEF playbookVars, PlaybookInv, PlaybookTypeOK, SawEarlier, VersionsOf,
       VersionsAdvance, NoVersionSkipped, OneRowPerVersion, TiesOverlapped
  <2>2. ASSUME NEW w \in Writers PROVE Follows(w)'
    BY <1>2 DEF playbookVars, PlaybookInv, Follows, VersionsOf
  <2> QED
    BY <2>1, <2>2 DEF PlaybookInv
<1> QED
  BY <1>1, <1>2

(* Versions advance (FR-L4), for every number of writers and lineages: no  *)
(* version before the one below it, each once where the UNIQUE constraint  *)
(* binds, and no tie but of writes that overlapped (playbook.py:22-27).    *)
THEOREM PlaybookAdvances == PlaybookSpec => []VersionsAdvance
<1>1. PlaybookInv => VersionsAdvance
  BY DEF PlaybookInv
<1> QED
  BY <1>1, PlaybookStart, PlaybookInvStep, PTL DEF PlaybookSpec

-----------------------------------------------------------------------------
(* The token of a channel                                                  *)

(* A command holds a key, the environment's unless it was overtaken.       *)
HoldsKey(c) ==
  place[c] # "idle" => key[c] \in Keys /\ (~overtaken[c] => key[c] = envKey)

(* What a command is about to write is a full token, whose grant stands    *)
(* unless the command was overtaken.                                       *)
HoldsFull(c) ==
  place[c] \in {"refresh", "persist", "persist_new"} =>
    /\ cred[c] \in Tokens /\ cred[c].kind = "full"
    /\ place[c] # "refresh" => cred[c].grant \notin revoked \/ overtaken[c]

(* What it refreshes is what it read, with its own key.                    *)
HoldsFound(c) ==
  place[c] \in {"refresh", "persist"} =>
    /\ found[c] # Absent /\ found[c].key = key[c] /\ found[c].token # Text
    /\ found[c].token.kind = "full" /\ found[c].token.grant = cred[c].grant

TokensInv ==
  /\ TokensTypeOK /\ AdviceHelps
  /\ \A c \in Commands : HoldsKey(c) /\ HoldsFull(c) /\ HoldsFound(c)

LEMMA TokenShapes ==
  /\ \A t \in Tokens : t # Text /\ t # Absent
  /\ \A r \in Rows : r # Absent
<1>1. \A t \in Tokens : t.kind \in {"full", "hollow"}
  BY DEF Tokens
<1>2. Text.kind = "text" /\ Absent.kind = "none"
  BY DEF Text, Absent
<1>3. Absent \notin Rows
  BY DEF Absent, Rows
<1> QED
  BY <1>1, <1>2, <1>3

LEMMA TokensStart == TokensInit => TokensInv
<1> SUFFICES ASSUME TokensInit PROVE TokensInv
  OBVIOUS
<1>1. TokensTypeOK
  BY CredentialsAssumption DEF TokensInit, TokensTypeOK, Places
<1>2. AdviceHelps
  BY DEF TokensInit, AdviceHelps
<1>3. \A c \in Commands : HoldsKey(c) /\ HoldsFull(c) /\ HoldsFound(c)
  BY DEF TokensInit, HoldsKey, HoldsFull, HoldsFound
<1> QED
  BY <1>1, <1>2, <1>3 DEF TokensInv

LEMMA EncryptedType ==
  ASSUME NEW t \in Tokens \cup {Text}, NEW k \in Keys
  PROVE  Encrypted(t, k) \in Rows
BY CredentialsAssumption DEF Encrypted, Rows

(* Where LoadYouTube goes, and what it has in its memory then.             *)
LEMMA LoadedWell ==
  ASSUME TokensInv, NEW c \in Commands, LoadYouTube(c)
  PROVE  /\ TokensTypeOK'
         /\ found'[c] = stored
         /\ place'[c] = "refresh" =>
              /\ stored # Absent /\ stored.key = key[c] /\ stored.token \in Tokens
              /\ stored.token.kind = "full" /\ cred'[c] = stored.token
         /\ place'[c] \notin {"persist", "persist_new"}
         /\ place'[c] = "YouTubeAuthError" /\ stored # Absent =>
              /\ stored.key = key[c] /\ stored.token # Text
              /\ stored.token.kind = "hollow"
<1> USE DEF TokensInv, TokensTypeOK
<1>1. stored \in Rows \cup {Absent}
  OBVIOUS
<1>2. stored # Absent => stored.token \in Tokens \cup {Text} /\ stored.key \in Keys
  BY <1>1 DEF Rows
<1> DEFINE there ==  IF stored = Absent THEN WithoutCredentials(c) ELSE Restored(c, stored)
           decoded == IF stored # Absent /\ stored.key = key[c] /\ stored.token # Text
                    THEN stored.token ELSE Absent
<1>3. /\ place' = [place EXCEPT ![c] = there]
      /\ found' = [found EXCEPT ![c] = stored]
      /\ cred' = [cred EXCEPT ![c] = decoded]
      /\ UNCHANGED <<channel, stored, outside, auth, key, overtaken>>
  BY DEF LoadYouTube, Goes
<1>4. there \in {"DecryptionError", "ValueError", "ready", "refresh", "flow",
                 "YouTubeAuthError"}
  BY DEF Restored, WithoutCredentials
<1>5. decoded \in Tokens \cup {Absent}
  BY <1>2
<1>6. there = "refresh" =>
        /\ stored # Absent /\ stored.key = key[c] /\ stored.token # Text
        /\ stored.token.kind = "full"
  BY DEF Restored, WithoutCredentials
<1>7. there = "YouTubeAuthError" /\ stored # Absent =>
        /\ stored.key = key[c] /\ stored.token # Text
        /\ stored.token.kind # "full"
  BY DEF Restored, WithoutCredentials
<1>8. place'[c] = there /\ found'[c] = stored /\ cred'[c] = decoded
  BY <1>3
<1>9. stored # Absent /\ stored.token # Text => stored.token.kind \in {"full", "hollow"}
  BY <1>2 DEF Tokens
<1> HIDE DEF there
<1>10. TokensTypeOK'
  <2>1. place' \in [Commands -> Places \cup Errors]
    BY <1>3, <1>4 DEF Places, Errors
  <2>2. cred' \in [Commands -> Tokens \cup {Absent}]
    BY <1>3, <1>5
  <2> QED
    BY <1>3, <2>1, <2>2 DEF outside
<1>11. there \notin {"persist", "persist_new"}
  BY <1>4
<1> QED
  BY <1>2, <1>6, <1>7, <1>8, <1>9, <1>10, <1>11

(* A step that leaves a command as it is, but for its having been          *)
(* overtaken, leaves what it holds.                                        *)
LEMMA LeftAlone ==
  ASSUME TokensInv, NEW c \in Commands,
         UNCHANGED <<place[c], key[c], found[c], cred[c]>>,
         \/ overtaken'[c]
         \/ overtaken'[c] = overtaken[c] /\ UNCHANGED <<envKey, revoked>>
         \/ place[c] = "idle"
  PROVE  /\ HoldsKey(c)' /\ HoldsFull(c)' /\ HoldsFound(c)'
         /\ place'[c] = "YouTubeAuthError" /\ found'[c] # Absent =>
              /\ found'[c].key = key'[c] /\ found'[c].token # Text
              /\ found'[c].token.kind = "full" =>
                   found'[c].token.grant \notin revoked' \/ overtaken'[c]
BY DEF TokensInv, HoldsKey, HoldsFull, HoldsFound, AdviceHelps

(* A step of the command c, and of no other, keeps the invariant when it   *)
(* keeps the types and what c holds.                                       *)
LEMMA CommandMoves ==
  ASSUME TokensInv, NEW c \in Commands, TokensTypeOK',
         UNCHANGED <<envKey, revoked>>,
         HoldsKey(c)', HoldsFull(c)', HoldsFound(c)',
         place'[c] = "YouTubeAuthError" /\ found'[c] # Absent =>
           /\ found'[c].key = key'[c] /\ found'[c].token # Text
           /\ found'[c].token.kind = "full" =>
                found'[c].token.grant \notin revoked' \/ overtaken'[c],
         \A d \in Commands \ {c} :
           UNCHANGED <<place[d], key[d], found[d], cred[d], overtaken[d]>>
  PROVE  TokensInv'
<1>1. \A d \in Commands : HoldsKey(d)' /\ HoldsFull(d)' /\ HoldsFound(d)'
  BY LeftAlone DEF HoldsKey, HoldsFull, HoldsFound
<1>2. AdviceHelps'
  BY LeftAlone DEF AdviceHelps
<1> QED
  BY <1>1, <1>2 DEF TokensInv, HoldsKey, HoldsFull, HoldsFound

LEMMA CommandKeeps ==
  ASSUME TokensInv, NEW c \in Commands, Command(c) \/ ExpireHeld(c)
  PROVE  TokensInv'
<1> USE DEF TokensTypeOK
<1>0. /\ TokensTypeOK /\ HoldsKey(c) /\ HoldsFull(c) /\ HoldsFound(c)
      /\ place[c] = "YouTubeAuthError" /\ found[c] # Absent =>
           /\ found[c].key = key[c] /\ found[c].token # Text
           /\ found[c].token.kind = "full" =>
                found[c].token.grant \notin revoked \/ overtaken[c]
  BY DEF TokensInv, AdviceHelps
<1>1. ASSUME NEW i \in BOOLEAN, StartCommand(c, i) PROVE TokensInv'
  <2>1. TokensTypeOK'
    BY <1>0, <1>1 DEF StartCommand, Goes, Places, outside
  <2>2. /\ place'[c] = "load" /\ key'[c] = envKey
        /\ UNCHANGED <<envKey, revoked, found, cred, overtaken>>
        /\ \A d \in Commands \ {c} : UNCHANGED <<place[d], key[d]>>
    BY <1>0, <1>1 DEF StartCommand, Goes, outside
  <2>3. HoldsKey(c)' /\ HoldsFull(c)' /\ HoldsFound(c)'
    BY <1>0, <2>2 DEF HoldsKey, HoldsFull, HoldsFound
  <2> QED
    BY <2>1, <2>2, <2>3, CommandMoves
<1>2. ASSUME LoadYouTube(c) PROVE TokensInv'
  <2>1. /\ place[c] = "load"
        /\ UNCHANGED <<envKey, revoked, key, overtaken>>
        /\ \A d \in Commands \ {c} : UNCHANGED <<place[d], found[d], cred[d]>>
    BY <1>2 DEF LoadYouTube, Goes, outside
  <2>2. HoldsKey(c)'
    BY <1>0, <2>1 DEF HoldsKey
  <2>3. HoldsFull(c)' /\ HoldsFound(c)'
    BY <1>2, <2>1, LoadedWell, TokenShapes DEF HoldsFull, HoldsFound
  <2> QED
    BY <1>2, <2>1, <2>2, <2>3, LoadedWell, CommandMoves
<1>3. ASSUME LoadInstagram(c) PROVE TokensInv'
  <2>1. TokensTypeOK'
    BY <1>0, <1>3 DEF LoadInstagram, Goes, Places, outside
  <2>2. /\ place[c] = "load" /\ place'[c] = "provide"
        /\ UNCHANGED <<envKey, revoked, key, cred, overtaken>>
        /\ \A d \in Commands \ {c} : UNCHANGED <<place[d], found[d]>>
    BY <1>0, <1>3 DEF LoadInstagram, Goes, outside
  <2>3. HoldsKey(c)' /\ HoldsFull(c)' /\ HoldsFound(c)'
    BY <1>0, <2>2 DEF HoldsKey, HoldsFull, HoldsFound
  <2> QED
    BY <2>1, <2>2, <2>3, CommandMoves
(* The steps that only move a command on, to a place where nothing is due. *)
<1>4. ASSUME NEW there \in {"ValueError", "DecryptionError", "ready", "load", "provide",
                            "RefreshError", "Denied"},
             place[c] # "idle", Goes(c, there),
             UNCHANGED <<channel, stored, outside, auth, key, found, cred, overtaken>>
      PROVE  TokensInv'
  <2>1. TokensTypeOK'
    BY <1>0, <1>4 DEF Goes, Places, Errors, outside
  <2>2. /\ place'[c] = there
        /\ UNCHANGED <<envKey, revoked>>
        /\ \A d \in Commands \ {c} : UNCHANGED place[d]
    BY <1>0, <1>4 DEF Goes, outside
  <2>3. HoldsKey(c)' /\ HoldsFull(c)' /\ HoldsFound(c)'
    BY <1>0, <1>4, <2>2 DEF HoldsKey, HoldsFull, HoldsFound
  <2> QED
    BY <1>4, <2>1, <2>2, <2>3, CommandMoves
<1>5. ASSUME Provide(c) PROVE TokensInv'
  BY <1>4, <1>5 DEF Provide
<1>6. ASSUME Refresh(c) PROVE TokensInv'
  <2>1. CASE Goes(c, "RefreshError") /\ UNCHANGED cred
    BY <1>4, <1>6, <2>1 DEF Refresh
  <2>2. CASE /\ cred[c].grant \notin revoked
             /\ cred' = [cred EXCEPT ![c].fresh = TRUE]
             /\ Goes(c, "persist")
    <3>1. /\ place[c] = "refresh"
          /\ UNCHANGED <<channel, stored, outside, auth, key, found, overtaken>>
      BY <1>6 DEF Refresh
    <3>2. cred[c] \in Tokens /\ cred[c].kind = "full"
      BY <1>0, <3>1 DEF HoldsFull
    <3>3. /\ cred'[c] = [cred[c] EXCEPT !.fresh = TRUE]
          /\ \A d \in Commands \ {c} : cred'[d] = cred[d]
      BY <1>0, <2>2
    <3>4. cred'[c] \in Tokens /\ cred'[c].kind = "full" /\ cred'[c].grant = cred[c].grant
      BY <3>2, <3>3 DEF Tokens
    <3>5. cred' \in [Commands -> Tokens \cup {Absent}]
      BY <1>0, <2>2, <3>2, <3>4
    <3>6. TokensTypeOK'
      BY <1>0, <2>2, <3>1, <3>5 DEF Goes, Places, outside
    <3>7. /\ place'[c] = "persist" /\ UNCHANGED <<envKey, revoked>>
          /\ \A d \in Commands \ {c} : UNCHANGED place[d]
      BY <1>0, <2>2, <3>1 DEF Goes, outside
    <3>8. HoldsKey(c)' /\ HoldsFull(c)' /\ HoldsFound(c)'
      BY <1>0, <2>2, <3>1, <3>4, <3>7 DEF HoldsKey, HoldsFull, HoldsFound
    <3> QED
      BY <3>1, <3>3, <3>6, <3>7, <3>8, CommandMoves
  <2> QED
    BY <1>6, <2>1, <2>2 DEF Refresh
<1>7. ASSUME Persist(c) \/ PersistNew(c) PROVE TokensInv'
  <2> DEFINE there == IF place[c] = "persist_new" \/ cred[c].fresh THEN "ready"
                      ELSE WithoutCredentials(c)
  <2>1. /\ place[c] \in {"persist", "persist_new"}
        /\ stored' = Encrypted(cred[c], key[c])
        /\ place' = [place EXCEPT ![c] = there]
        /\ UNCHANGED <<channel, outside, auth, key, found, cred, overtaken>>
    BY <1>7 DEF Persist, PersistNew, Goes
  <2>2. cred[c] \in Tokens /\ key[c] \in Keys
    BY <1>0, <2>1 DEF HoldsFull, HoldsKey
  <2>3. stored' \in Rows
    BY <2>1, <2>2, EncryptedType
  <2>4. there \in {"ready", "flow", "YouTubeAuthError"}
    BY DEF WithoutCredentials
  <2>5. there = "YouTubeAuthError" => place[c] = "persist"
    BY <2>1
  <2> HIDE DEF there
  <2>6. TokensTypeOK'
    BY <1>0, <2>1, <2>3, <2>4 DEF Places, Errors, outside
  <2>7. /\ place'[c] = there /\ UNCHANGED <<envKey, revoked>>
        /\ \A d \in Commands \ {c} : UNCHANGED place[d]
    BY <1>0, <2>1 DEF outside
  <2>8. HoldsKey(c)' /\ HoldsFull(c)' /\ HoldsFound(c)'
    BY <1>0, <2>1, <2>4, <2>7 DEF HoldsKey, HoldsFull, HoldsFound
  <2>9. place'[c] = "YouTubeAuthError" =>
          /\ found[c].key = key[c] /\ found[c].token # Text
          /\ found[c].token.grant \notin revoked \/ overtaken[c]
    BY <1>0, <2>5, <2>7 DEF HoldsFull, HoldsFound
  <2> QED
    BY <2>1, <2>6, <2>7, <2>8, <2>9, CommandMoves
<1>8. ASSUME Flow(c) PROVE TokensInv'
  <2>1. CASE Goes(c, "Denied") /\ UNCHANGED <<issued, cred>>
    BY <1>4, <1>8, <2>1 DEF Flow, outside
  <2>2. ASSUME NEW g \in Grants \ issued,
               issued' = issued \cup {g},
               cred' = [cred EXCEPT ![c] = [kind |-> "full", grant |-> g, fresh |-> TRUE]],
               Goes(c, "persist_new")
        PROVE  TokensInv'
    <3> DEFINE new == [kind |-> "full", grant |-> g, fresh |-> TRUE]
    <3>1. /\ place[c] = "flow"
          /\ UNCHANGED <<channel, envKey, stored, revoked, writes, auth, key, found, overtaken>>
      BY <1>8 DEF Flow
    <3>2. new \in Tokens /\ new.kind = "full" /\ new.grant \notin revoked
      BY <1>0 DEF Tokens
    <3> HIDE DEF new
    <3>3. /\ place'[c] = "persist_new" /\ cred'[c] = new
          /\ \A d \in Commands \ {c} : UNCHANGED <<place[d], cred[d]>>
      BY <1>0, <2>2 DEF Goes, new
    <3>4. cred' \in [Commands -> Tokens \cup {Absent}]
      BY <1>0, <2>2, <3>2 DEF new
    <3>5. TokensTypeOK'
      BY <1>0, <2>2, <3>1, <3>4 DEF Goes, Places
    <3>6. HoldsKey(c)' /\ HoldsFull(c)' /\ HoldsFound(c)'
      BY <1>0, <3>1, <3>2, <3>3 DEF HoldsKey, HoldsFull, HoldsFound
    <3> QED
      BY <3>1, <3>3, <3>5, <3>6, CommandMoves
  <2> QED
    BY <1>8, <2>1, <2>2 DEF Flow
<1>9. ASSUME AskAgain(c) PROVE TokensInv'
  BY <1>4, <1>9 DEF AskAgain
<1>10. ASSUME CommandEnds(c) PROVE TokensInv'
  <2>1. TokensTypeOK'
    BY <1>0, <1>10 DEF CommandEnds, Goes, Places, outside
  <2>2. /\ place'[c] = "idle" /\ UNCHANGED <<envKey, revoked>>
        /\ \A d \in Commands \ {c} :
             UNCHANGED <<place[d], key[d], found[d], cred[d], overtaken[d]>>
    BY <1>0, <1>10 DEF CommandEnds, Goes, outside
  <2>3. HoldsKey(c)' /\ HoldsFull(c)' /\ HoldsFound(c)'
    BY <2>2 DEF HoldsKey, HoldsFull, HoldsFound
  <2> QED
    BY <2>1, <2>2, <2>3, CommandMoves
<1>11. ASSUME ExpireHeld(c) PROVE TokensInv'
  <2>1. /\ place[c] = "persist"
        /\ cred' = [cred EXCEPT ![c].fresh = FALSE]
        /\ UNCHANGED <<channel, stored, outside, place, auth, key, found, overtaken>>
    BY <1>11 DEF ExpireHeld
  <2>2. cred[c] \in Tokens /\ cred[c].kind = "full"
    BY <1>0, <2>1 DEF HoldsFull
  <2>3. /\ cred'[c] = [cred[c] EXCEPT !.fresh = FALSE]
        /\ \A d \in Commands \ {c} : cred'[d] = cred[d]
    BY <1>0, <2>1
  <2>4. cred'[c] \in Tokens /\ cred'[c].kind = "full" /\ cred'[c].grant = cred[c].grant
    BY <2>2, <2>3 DEF Tokens
  <2>5. cred' \in [Commands -> Tokens \cup {Absent}]
    BY <1>0, <2>1, <2>2, <2>4
  <2>6. TokensTypeOK'
    BY <1>0, <2>1, <2>5 DEF outside
  <2>7. HoldsKey(c)' /\ HoldsFull(c)' /\ HoldsFound(c)'
    BY <1>0, <2>1, <2>4 DEF HoldsKey, HoldsFull, HoldsFound, outside
  <2> QED
    BY <1>0, <2>1, <2>3, <2>6, <2>7, CommandMoves DEF outside
<1> QED
  BY <1>1, <1>2, <1>3, <1>5, <1>6, <1>7, <1>8, <1>9, <1>10, <1>11 DEF Command

LEMMA OutsideKeeps ==
  ASSUME TokensInv,
         \/ \E token \in Tokens \cup {Text} : SetToken(token)
         \/ \E k \in Keys : Rotate(k)
         \/ \E g \in Grants : Revoke(g)
         \/ ExpireStored
         \/ UNCHANGED tokenVars
  PROVE  TokensInv'
<1> USE DEF TokensTypeOK
<1>0. TokensTypeOK
  BY DEF TokensInv
<1>1. /\ UNCHANGED <<channel, place, auth, key, found, cred>>
      /\ \/ UNCHANGED <<envKey, revoked, overtaken>>
         \/ overtaken' = [c \in Commands |-> overtaken[c] \/ place[c] # "idle"]
  BY DEF SetToken, Rotate, Revoke, Overtake, ExpireStored, tokenVars, commandVars, outside
<1>2. \A c \in Commands : \/ overtaken'[c]
                          \/ overtaken'[c] = overtaken[c] /\ UNCHANGED <<envKey, revoked>>
                          \/ place[c] = "idle"
  BY <1>0, <1>1
<1>3. TokensTypeOK'
  <2>1. overtaken' \in [Commands -> BOOLEAN]
    BY <1>0, <1>1
  <2>2. ASSUME NEW token \in Tokens \cup {Text}, SetToken(token) PROVE TokensTypeOK'
    <3>1. Encrypted(token, envKey) \in Rows
      BY <1>0, EncryptedType
    <3>2. token # Text => token.grant \in Grants
      BY DEF Tokens
    <3> QED
      BY <1>0, <1>1, <2>1, <2>2, <3>1, <3>2, CredentialsAssumption DEF SetToken
  <2>3. ASSUME NEW k \in Keys, Rotate(k) PROVE TokensTypeOK'
    BY <1>0, <1>1, <2>1, <2>3 DEF Rotate
  <2>4. ASSUME NEW g \in Grants, Revoke(g) PROVE TokensTypeOK'
    BY <1>0, <1>1, <2>1, <2>4 DEF Revoke
  <2>5. ASSUME ExpireStored PROVE TokensTypeOK'
    <3>1. stored \in Rows /\ stored.token \in Tokens
      BY <1>0, <2>5 DEF ExpireStored, Rows
    <3>2. [stored.token EXCEPT !.fresh = FALSE] \in Tokens
      BY <3>1 DEF Tokens
    <3>3. stored' = [stored EXCEPT !.token = [stored.token EXCEPT !.fresh = FALSE]]
      BY <2>5 DEF ExpireStored
    <3>4. stored' \in Rows
      BY <3>1, <3>2, <3>3 DEF Rows
    <3> QED
      BY <1>0, <1>1, <2>1, <2>5, <3>4 DEF ExpireStored, outside
  <2>6. ASSUME UNCHANGED tokenVars PROVE TokensTypeOK'
    BY <1>0, <2>6 DEF tokenVars, outside, commandVars
  <2> QED
    BY <2>2, <2>3, <2>4, <2>5, <2>6
<1>4. \A c \in Commands : HoldsKey(c)' /\ HoldsFull(c)' /\ HoldsFound(c)'
  BY <1>1, <1>2, LeftAlone
<1>5. AdviceHelps'
  BY <1>1, <1>2, LeftAlone DEF AdviceHelps
<1> QED
  BY <1>3, <1>4, <1>5 DEF TokensInv

LEMMA TokensInvStep == TokensInv /\ [TokensNext]_tokenVars => TokensInv'
BY CommandKeeps, OutsideKeeps DEF TokensNext

(* When a command advises to issue the credentials anew, yt-auth does not  *)
(* stumble over the row it saw (auth_db.py:73-76): for any commands that   *)
(* overlap, with the operator and Google at work in between.               *)
THEOREM AdviceIsSound == TokensSpec => []AdviceHelps
<1>1. TokensInv => AdviceHelps
  BY DEF TokensInv
<1> QED
  BY <1>1, TokensStart, TokensInvStep, PTL DEF TokensSpec

LEMMA UsableStep ==
  TokensInv /\ [TokensNext]_tokenVars =>
    [Usable(stored) /\ ~Usable(stored)' =>
       \/ envKey' # envKey \/ revoked' # revoked \/ writes' # writes
       \/ \E c \in Commands : overtaken[c] /\ place'[c] # place[c]]_tokenVars
<1> SUFFICES ASSUME TokensInv, [TokensNext]_tokenVars, Usable(stored),
                    UNCHANGED <<envKey, revoked, writes>>,
                    \A c \in Commands : overtaken[c] => place'[c] = place[c]
             PROVE  Usable(stored)'
  OBVIOUS
<1>1. TokensTypeOK
  BY DEF TokensInv
<1>2. ASSUME UNCHANGED <<channel, stored>> PROVE Usable(stored)'
  BY <1>2 DEF Usable
<1>3. ASSUME NEW c \in Commands, Persist(c) \/ PersistNew(c) PROVE Usable(stored)'
  <2>1. /\ place[c] \in {"persist", "persist_new"} /\ place'[c] # place[c]
        /\ stored' = Encrypted(cred[c], key[c]) /\ channel' = channel
    BY <1>1, <1>3 DEF Persist, PersistNew, Goes, WithoutCredentials, TokensTypeOK
  <2>2. ~overtaken[c]
    BY <2>1
  <2>3. key[c] = envKey /\ key[c] \in Keys
    BY <2>1, <2>2 DEF TokensInv, HoldsKey
  <2>4. cred[c] \in Tokens /\ cred[c].kind = "full" /\ cred[c].grant \notin revoked
    BY <2>1, <2>2 DEF TokensInv, HoldsFull
  <2>5. /\ stored'.token = cred[c] /\ stored'.key = key[c]
        /\ stored'.version = Version[key[c]]
    BY <2>1 DEF Encrypted
  <2>6. stored' # Absent
    BY <2>1, <2>3, <2>4, EncryptedType, TokenShapes
  <2> QED
    BY <2>3, <2>4, <2>5, <2>6, TokenShapes DEF Usable
<1>4. ASSUME ExpireStored PROVE Usable(stored)'
  <2>1. stored \in Rows /\ stored.token \in Tokens
    BY <1>1, <1>4 DEF ExpireStored, Rows, TokensTypeOK
  <2> DEFINE t == [stored.token EXCEPT !.fresh = FALSE]
  <2>2. t \in Tokens /\ t.kind = stored.token.kind /\ t.grant = stored.token.grant
    BY <2>1 DEF Tokens
  <2>3. stored' = [stored EXCEPT !.token = t] /\ channel' = channel
    BY <1>4 DEF ExpireStored
  <2> HIDE DEF t
  <2>4. /\ stored' \in Rows /\ stored'.token = t /\ stored'.key = stored.key
        /\ stored'.version = stored.version
    BY <2>1, <2>2, <2>3 DEF Rows
  <2> QED
    BY <2>2, <2>3, <2>4, TokenShapes DEF Usable
<1>5. ASSUME NEW token \in Tokens \cup {Text}, SetToken(token) PROVE FALSE
  BY <1>1, <1>5 DEF SetToken, TokensTypeOK
<1>6. ASSUME NEW k \in Keys, Rotate(k) PROVE FALSE
  BY <1>6 DEF Rotate
<1>7. ASSUME NEW g \in Grants, Revoke(g) PROVE FALSE
  BY <1>7 DEF Revoke
<1>8. ASSUME NEW c \in Commands, Command(c) \/ ExpireHeld(c) PROVE Usable(stored)'
  BY <1>2, <1>3, <1>8 DEF Command, ExpireHeld, StartCommand, LoadYouTube, LoadInstagram,
     Provide, Refresh, Flow, AskAgain, CommandEnds
<1> QED
  BY <1>2, <1>4, <1>5, <1>6, <1>7, <1>8 DEF TokensNext, tokenVars

(* A token that can be used stays one that can (auth_db.py:3-5): whatever  *)
(* commands refresh, re-issue and write it at once, only the operator, or  *)
(* a command the operator overtook, makes it unusable.                     *)
THEOREM TokensStayUsable == TokensSpec => UsableStays
BY TokensStart, TokensInvStep, UsableStep, PTL DEF TokensSpec, UsableStays

-----------------------------------------------------------------------------
(* The commands                                                            *)

(* The steps that may find something lacking.                              *)
MayLack == {"config", "slots", "channel", "publisher", "poller", "model",
           "sandbox", "secret", "loop"}

(* The steps of a command that is running: it checks before it does        *)
(* anything, and a batch comes after the channel was read.                 *)
LEMMA StepsInOrder ==
  ASSUME NEW c \in DOMAIN Steps
  PROVE  /\ Len(Steps[c]) \in Nat \ {0}
         /\ \A i \in 1..Len(Steps[c]) - 1 :
              Steps[c][i + 1] \in MayLack => Steps[c][i] \in MayLack
         /\ \A i \in 1..Len(Steps[c]) :
              /\ Steps[c][i] # "none"
              /\ Steps[c][i] = "batch" =>
                   /\ c \in {"cycle", "pending"}
                   /\ \E j \in 1..(i - 1) : Steps[c][j] = "channel"
              /\ c \in {"cycle", "pending"} =>
                   Steps[c][i] \notin {"poll", "approve", "store"}
<1>1. c \in {"cycle", "pending", "metrics", "approve", "token", "ytAuth", "resident"}
  BY DEF Steps
<1>2. CASE c = "cycle"
  <2>1. Steps[c] = <<"config", "channel", "publisher", "poller", "model", "sandbox",
                     "open", "agents", "batch">>
    BY <1>2 DEF Steps, CycleSteps
  <2>2. Steps[c][2] = "channel" /\ Len(Steps[c]) = 9
    BY <2>1
  <2> QED
    BY <1>2, <2>1, <2>2 DEF MayLack
<1>3. CASE c = "pending"
  <2>1. Steps[c] = <<"config", "channel", "publisher", "batch">>
    BY <1>3 DEF Steps
  <2> QED
    BY <1>3, <2>1 DEF MayLack
<1>4. CASE c = "metrics"
  <2>1. Steps[c] = <<"config", "channel", "poller", "poll">>
    BY <1>4 DEF Steps
  <2> QED
    BY <1>4, <2>1 DEF MayLack
<1>5. CASE c = "approve"
  <2>1. Steps[c] = <<"config", "approve">>
    BY <1>5 DEF Steps
  <2> QED
    BY <1>5, <2>1 DEF MayLack
<1>6. CASE c = "token"
  <2>1. Steps[c] = <<"config", "secret", "store">>
    BY <1>6 DEF Steps
  <2> QED
    BY <1>6, <2>1 DEF MayLack
<1>7. CASE c = "ytAuth"
  <2>1. Steps[c] = <<"config", "channel", "store">>
    BY <1>7 DEF Steps
  <2> QED
    BY <1>7, <2>1 DEF MayLack
<1>8. CASE c = "resident"
  <2>1. Steps[c] = <<"config", "slots", "channel", "publisher", "poller", "model", "loop">>
    BY <1>8 DEF Steps
  <2> QED
    BY <1>8, <2>1 DEF MayLack
<1> QED
  BY <1>1, <1>2, <1>3, <1>4, <1>5, <1>6, <1>7, <1>8

Fields == {"command", "account", "has", "at", "ended", "mode", "token", "did", "rows"}
IsShell(r) == DOMAIN r = Fields /\ r = [x \in DOMAIN r |-> r[x]]

States == {"waits", "pending", "published", "failed"}
Landed == [owner : Accounts, state : States]
            \cup [owner : Accounts, state : States, on : Accounts]

(* A running command is at one of its steps, and by its channel's mode not *)
(* switched off if it has read it.                                         *)
Underway(r) ==
  r.ended = "no" =>
    /\ r.command \in DOMAIN Steps /\ r.account \in Accounts
    /\ r.at \in 1..Len(Steps[r.command])
    /\ (\E j \in 1..(r.at - 1) : Steps[r.command][j] = "channel") => r.mode # "off"

(* While it checks it has done nothing; a cycle or a batch does nothing    *)
(* but what is theirs.                                                     *)
DidInOrder(r) ==
  r.ended = "no" =>
    /\ Steps[r.command][r.at] \in MayLack => r.did = {}
    /\ r.command \in {"cycle", "pending"} =>
         r.did \subseteq {"open", "agents", "batch", "post"}

(* What was posted was posted with a token, or by YouTube's adapter, for a *)
(* channel that was on.                                                    *)
PostedWith(r) ==
  "post" \in r.did =>
    r.mode # "off" /\ (AccountPlatform[r.account] = "youtube" \/ r.token)

(* What it lacked ended the command before it did anything, but for the    *)
(* token that a batch asks for.                                            *)
RefusedEarly(r) ==
  r.ended = "refused" =>
    r.did = {} \/ (~r.token /\ r.did \subseteq {"open", "agents", "batch"})

ShellInv(r) ==
  IsShell(r) /\ Underway(r) /\ DidInOrder(r) /\ PostedWith(r) /\ RefusedEarly(r)

LandedInv ==
  /\ landed \in Seq(Landed)
  /\ \A n \in 1..Len(landed) : landed[n].state = "published" =>
       AccountPlatform[landed[n].on] = AccountPlatform[landed[n].owner]

CommandsInv ==
  /\ shell = [s \in Shells |-> shell[s]]
  /\ \A s \in Shells : ShellInv(shell[s])
  /\ LandedInv

LEMMA CommandsStart == CommandsInit => CommandsInv
<1> SUFFICES ASSUME CommandsInit PROVE CommandsInv
  OBVIOUS
<1>1. ShellInv(NoCommand)
  BY DEF ShellInv, NoCommand, IsShell, Fields, Underway, DidInOrder, PostedWith, RefusedEarly
<1>2. LandedInv
  BY DEF CommandsInit, LandedInv
<1> QED
  BY <1>1, <1>2 DEF CommandsInit, CommandsInv

(* The next step, or the end, of a running command that may have done      *)
(* something at the present one.                                           *)
LEMMA AdvanceKeeps ==
  ASSUME NEW r, ShellInv(r), r.ended = "no", NEW d,
         d = r.did \/ Steps[r.command][r.at] \notin MayLack,
         "post" \in d => "post" \in r.did,
         r.command \in {"cycle", "pending"} =>
           d \subseteq {"open", "agents", "batch", "post"},
         NEW mode, NEW token,
         \/ mode = r.mode /\ token = r.token /\ Steps[r.command][r.at] # "channel"
         \/ Steps[r.command][r.at] = "channel" /\ mode # "off"
  PROVE  ShellInv(Advanced([r EXCEPT !.mode = mode, !.token = token, !.did = d]))
<1> DEFINE q == [r EXCEPT !.mode = mode, !.token = token, !.did = d]
           a == Advanced(q)
<1>1. /\ IsShell(r) /\ r.command \in DOMAIN Steps /\ r.account \in Accounts
      /\ r.at \in 1..Len(Steps[r.command])
  BY DEF ShellInv, Underway
<1>2. /\ Len(Steps[r.command]) \in Nat \ {0}
      /\ \A i \in 1..Len(Steps[r.command]) - 1 :
           Steps[r.command][i + 1] \in MayLack => Steps[r.command][i] \in MayLack
  BY <1>1, StepsInOrder
<1>3. /\ q.command = r.command /\ q.account = r.account /\ q.at = r.at
      /\ q.ended = "no" /\ q.mode = mode /\ q.token = token /\ q.did = d
      /\ IsShell(q)
  BY <1>1 DEF IsShell, Fields
<1> HIDE DEF q
<1>4. /\ a.command = r.command /\ a.account = r.account
      /\ a.mode = mode /\ a.token = token /\ a.did = d /\ IsShell(a)
      /\ \/ a.ended = "done"
         \/ a.ended = "no" /\ a.at = r.at + 1 /\ r.at < Len(Steps[r.command])
  BY <1>1, <1>2, <1>3 DEF Advanced, IsShell, Fields
<1> HIDE DEF a
<1>5. Underway(a)
  <2> SUFFICES ASSUME a.ended = "no",
                      \E j \in 1..(a.at - 1) : Steps[a.command][j] = "channel"
               PROVE  a.mode # "off"
    BY <1>1, <1>2, <1>4 DEF Underway
  <2>1. PICK j \in 1..r.at : Steps[r.command][j] = "channel"
    BY <1>1, <1>2, <1>4
  <2>2. CASE j = r.at
    BY <1>4, <2>1, <2>2
  <2>3. CASE j # r.at
    <3>1. j \in 1..(r.at - 1)
      BY <1>1, <1>2, <2>3
    <3>2. r.mode # "off"
      BY <2>1, <3>1 DEF ShellInv, Underway
    <3> QED
      BY <1>4, <3>2
  <2> QED
    BY <2>2, <2>3
<1>6. DidInOrder(a)
  <2>1. a.ended = "no" /\ Steps[a.command][a.at] \in MayLack =>
          Steps[r.command][r.at] \in MayLack
    BY <1>1, <1>2, <1>4
  <2>2. Steps[r.command][r.at] \in MayLack => d = {}
    BY DEF ShellInv, DidInOrder
  <2> QED
    BY <1>4, <2>1, <2>2 DEF DidInOrder
<1>7. PostedWith(a)
  <2>1. Steps[r.command][r.at] = "channel" => "post" \notin d
    BY DEF ShellInv, DidInOrder, MayLack
  <2> QED
    BY <1>4, <2>1 DEF PostedWith, ShellInv
<1>8. RefusedEarly(a)
  BY <1>4 DEF RefusedEarly
<1>9. a = Advanced([r EXCEPT !.mode = mode, !.token = token, !.did = d])
  BY DEF a, q
<1> QED
  BY <1>4, <1>5, <1>6, <1>7, <1>8, <1>9 DEF ShellInv

LEMMA SameFields ==
  ASSUME NEW r, IsShell(r), NEW d, NEW mode, NEW token
  PROVE  /\ [r EXCEPT !.mode = r.mode, !.token = r.token, !.did = d]
              = [r EXCEPT !.did = d]
         /\ [r EXCEPT !.mode = mode, !.token = token, !.did = r.did]
              = [r EXCEPT !.mode = mode, !.token = token]
         /\ [r EXCEPT !.did = r.did] = r
BY DEF IsShell, Fields

LEMMA ShellMoves ==
  ASSUME CommandsInv, NEW s \in Shells, NEW r, ShellInv(r),
         shell' = [shell EXCEPT ![s] = r], LandedInv'
  PROVE  CommandsInv'
<1>1. shell' = [t \in Shells |-> shell'[t]]
  BY DEF CommandsInv
<1>2. \A t \in Shells : shell'[t] = IF t = s THEN r ELSE shell[t]
  BY DEF CommandsInv
<1>3. \A t \in Shells : ShellInv(shell'[t])
  BY <1>2 DEF CommandsInv
<1> QED
  BY <1>1, <1>3 DEF CommandsInv

LEMMA LandedSame == ASSUME LandedInv, UNCHANGED landed PROVE LandedInv'
BY DEF LandedInv

(* A publication changes, or nothing does when there is none of that       *)
(* number.                                                                 *)
LEMMA LandedChanges ==
  ASSUME LandedInv, NEW n, NEW r,
         n \in 1..Len(landed) =>
           /\ r \in Landed
           /\ r.state = "published" => AccountPlatform[r.on] = AccountPlatform[r.owner],
         landed' = [landed EXCEPT ![n] = r]
  PROVE  LandedInv'
<1>1. landed \in Seq(Landed)
  BY DEF LandedInv
<1>2. CASE n \in 1..Len(landed)
  <2>1. /\ landed' \in Seq(Landed) /\ Len(landed') = Len(landed)
        /\ \A m \in 1..Len(landed) : landed'[m] = IF m = n THEN r ELSE landed[m]
    BY <1>1, <1>2
  <2> QED
    BY <2>1 DEF LandedInv
<1>3. CASE n \notin 1..Len(landed)
  <2>1. landed' = landed
    BY <1>1, <1>3
  <2> QED
    BY <2>1, LandedSame
<1> QED
  BY <1>2, <1>3

LEMMA LandedGrows ==
  ASSUME LandedInv, NEW a \in Accounts,
         landed' = Append(landed, [owner |-> a, state |-> "waits"])
  PROVE  LandedInv'
<1> DEFINE r == [owner |-> a, state |-> "waits"]
<1>1. landed \in Seq(Landed) /\ r \in Landed /\ r.state # "published"
  BY DEF LandedInv, Landed, States
<1> HIDE DEF r
<1>2. landed' = Append(landed, r)
  BY DEF r
<1>3. /\ landed' \in Seq(Landed) /\ Len(landed') = Len(landed) + 1
      /\ \A m \in 1..Len(landed) : landed'[m] = landed[m]
      /\ landed'[Len(landed) + 1] = r
  BY <1>1, <1>2
<1>4. Len(landed) \in Nat
  BY <1>1
<1> QED
  BY <1>1, <1>3, <1>4 DEF LandedInv

LEMMA StateChanges ==
  ASSUME NEW r \in Landed, NEW state \in States
  PROVE  /\ [r EXCEPT !.state = state] \in Landed
         /\ [r EXCEPT !.state = state].state = state
BY DEF Landed

LEMMA AtStep ==
  ASSUME CommandsInv, NEW s \in Shells, Step(s) # "none"
  PROVE  /\ shell[s].ended = "no" /\ ShellInv(shell[s])
         /\ Step(s) = Steps[shell[s].command][shell[s].at]
         /\ shell[s].command \in DOMAIN Steps /\ shell[s].account \in Accounts
         /\ shell[s].command \in {"cycle", "pending"} =>
              Step(s) \notin {"poll", "approve", "store"}
         /\ Step(s) = "batch" =>
              /\ shell[s].did \subseteq {"open", "agents", "batch", "post"}
              /\ shell[s].mode # "off"
<1>1. /\ shell[s].ended = "no" /\ ShellInv(shell[s])
      /\ Step(s) = Steps[shell[s].command][shell[s].at]
  BY DEF Step, CommandsInv
<1>2. /\ shell[s].command \in DOMAIN Steps /\ shell[s].account \in Accounts
      /\ shell[s].at \in 1..Len(Steps[shell[s].command])
      /\ (\E j \in 1..(shell[s].at - 1) : Steps[shell[s].command][j] = "channel")
            => shell[s].mode # "off"
  BY <1>1 DEF ShellInv, Underway
<1> QED
  BY <1>1, <1>2, StepsInOrder DEF ShellInv, DidInOrder

LEMMA CommandStep ==
  ASSUME CommandsInv, NEW s \in Shells,
         \/ \E c \in DOMAIN Steps, a \in Accounts, env \in Environments :
              BeginCommand(s, c, a, env)
         \/ Refuse(s) \/ Pass(s) \/ Work(s) \/ ApprovePublication(s) \/ ApproveNone(s)
         \/ Store(s) \/ SelectRows(s) \/ PostRow(s) \/ RowRaises(s) \/ RowsDone(s)
  PROVE  CommandsInv'
<1> DEFINE r == shell[s]
<1>0. ShellInv(r) /\ IsShell(r) /\ LandedInv
  BY DEF CommandsInv, ShellInv
<1>1. ASSUME NEW c \in DOMAIN Steps, NEW a \in Accounts, NEW env \in Environments,
             BeginCommand(s, c, a, env)
      PROVE  CommandsInv'
  <2> DEFINE q == [NoCommand EXCEPT !.command = c, !.account = a, !.has = env,
                                    !.at = 1, !.ended = "no"]
  <2>1. /\ q.command = c /\ q.account = a /\ q.at = 1 /\ q.ended = "no" /\ q.did = {}
        /\ IsShell(q)
    BY DEF NoCommand, IsShell, Fields
  <2>2. shell' = [shell EXCEPT ![s] = q] /\ UNCHANGED landed
    BY <1>1 DEF BeginCommand
  <2> HIDE DEF q
  <2>3. ShellInv(q)
    BY <2>1, StepsInOrder DEF ShellInv, Underway, DidInOrder, PostedWith, RefusedEarly
  <2> QED
    BY <1>0, <2>2, <2>3, ShellMoves, LandedSame
(* An end that leaves what was done.                                       *)
<1>2. ASSUME NEW end \in {"refused", "unknown", "foreign"},
             end = "refused" =>
               r.did = {} \/ (~r.token /\ r.did \subseteq {"open", "agents", "batch"}),
             shell' = [shell EXCEPT ![s].ended = end], UNCHANGED landed
      PROVE  CommandsInv'
  <2> DEFINE q == [r EXCEPT !.ended = end]
  <2>1. /\ q.command = r.command /\ q.account = r.account /\ q.ended = end
        /\ q.mode = r.mode /\ q.token = r.token /\ q.did = r.did /\ IsShell(q)
    BY <1>0 DEF IsShell, Fields
  <2>2. shell' = [shell EXCEPT ![s] = q]
    BY <1>2
  <2> HIDE DEF q
  <2>3. ShellInv(q)
    BY <1>0, <1>2, <2>1 DEF ShellInv, Underway, DidInOrder, PostedWith, RefusedEarly
  <2> QED
    BY <1>0, <1>2, <2>2, <2>3, ShellMoves, LandedSame
<1>3. ASSUME Refuse(s) PROVE CommandsInv'
  <2>1. Step(s) \in MayLack
    BY <1>3 DEF Refuse, Lacks, NoConfig, NoModel, NotSandboxed, NoSecret, BadSlots, Without,
       ChannelOff, NoPublisher, NoPoller, LoopRuns, MayLack
  <2>2. r.did = {}
    BY <2>1, AtStep DEF MayLack, ShellInv, DidInOrder
  <2>3. shell' = [shell EXCEPT ![s].ended = "refused"] /\ UNCHANGED landed
    BY <1>3 DEF Refuse
  <2> QED
    BY <1>2, <2>2, <2>3
(* What was done at a step that is not a check.                            *)
<1>4. ASSUME NEW d, Step(s) # "none", Step(s) \notin MayLack, "post" \in d => "post" \in r.did,
             r.command \in {"cycle", "pending"} =>
               d \subseteq {"open", "agents", "batch", "post"},
             shell' = [shell EXCEPT ![s] = Advanced([r EXCEPT !.did = d])],
             LandedInv'
      PROVE  CommandsInv'
  <2>1. Step(s) # "channel"
    BY <1>4 DEF MayLack
  <2>2. ShellInv(Advanced([r EXCEPT !.mode = r.mode, !.token = r.token, !.did = d]))
    BY <1>0, <1>4, <2>1, AtStep, AdvanceKeeps
  <2>3. ShellInv(Advanced([r EXCEPT !.did = d]))
    BY <1>0, <2>2, SameFields
  <2> QED
    BY <1>4, <2>3, ShellMoves
<1>5. ASSUME Pass(s) PROVE CommandsInv'
  <2> DEFINE read == [r EXCEPT !.mode = modeOf[r.account], !.token = grantOf[r.account]]
  <2>1. /\ Step(s) \in Settings \cup {"channel", "publisher", "poller"} /\ ~Lacks(s)
        /\ shell' = [shell EXCEPT ![s] = Advanced(IF Step(s) = "channel" THEN read ELSE r)]
        /\ UNCHANGED landed
    BY <1>5 DEF Pass
  <2>2. Step(s) # "none"
    BY <2>1 DEF Settings
  <2>3. r.command \in {"cycle", "pending"} =>
          r.did \subseteq {"open", "agents", "batch", "post"}
    BY <2>2, AtStep DEF ShellInv, DidInOrder
  <2>4. CASE Step(s) = "channel"
    <3>1. modeOf[r.account] # "off"
      BY <2>1, <2>4 DEF Lacks, ChannelOff
    <3>2. ShellInv(Advanced([r EXCEPT !.mode = modeOf[r.account],
                                      !.token = grantOf[r.account], !.did = r.did]))
      BY <2>2, <2>3, <2>4, <3>1, AtStep, AdvanceKeeps
    <3>3. ShellInv(Advanced(read))
      BY <1>0, <3>2, SameFields
    <3> QED
      BY <1>0, <2>1, <2>4, <3>3, ShellMoves, LandedSame
  <2>5. CASE Step(s) # "channel"
    <3>1. ShellInv(Advanced([r EXCEPT !.mode = r.mode, !.token = r.token, !.did = r.did]))
      BY <2>2, <2>3, <2>5, AtStep, AdvanceKeeps
    <3>2. ShellInv(Advanced(r))
      BY <1>0, <3>1, SameFields
    <3> QED
      BY <1>0, <2>1, <2>5, <3>2, ShellMoves, LandedSame
  <2> QED
    BY <2>4, <2>5
<1>6. ASSUME Work(s) PROVE CommandsInv'
  <2>1. /\ Step(s) \in {"open", "agents", "poll"}
        /\ shell' = [shell EXCEPT ![s] = Advanced([r EXCEPT !.did = r.did \cup {Step(s)}])]
        /\ \/ landed' = Append(landed, [owner |-> r.account, state |-> "waits"])
           \/ UNCHANGED landed
    BY <1>6 DEF Work, Does
  <2>2. LandedInv'
    BY <1>0, <2>1, AtStep, LandedGrows, LandedSame
  <2>3. Step(s) # "none" /\ Step(s) \notin MayLack /\ Step(s) # "post"
    BY <2>1 DEF MayLack
  <2>4. r.command \in {"cycle", "pending"} =>
          r.did \cup {Step(s)} \subseteq {"open", "agents", "batch", "post"}
    BY <2>1, <2>3, AtStep DEF ShellInv, DidInOrder
  <2> QED
    BY <1>4, <2>1, <2>2, <2>3, <2>4
<1>7. ASSUME ApprovePublication(s) PROVE CommandsInv'
  <2>1. PICK n \in 1..Len(landed) : landed' = [landed EXCEPT ![n].state = "pending"]
    BY <1>7 DEF ApprovePublication, Does
  <2>2. landed[n] \in Landed /\ "pending" \in States
    BY <1>0 DEF LandedInv, States
  <2>3. LandedInv'
    BY <1>0, <2>1, <2>2, StateChanges, LandedChanges
  <2>4. /\ Step(s) = "approve"
        /\ shell' = [shell EXCEPT ![s] = Advanced([r EXCEPT !.did = r.did \cup {"approve"}])]
    BY <1>7 DEF ApprovePublication, Does
  <2>5. r.command \notin {"cycle", "pending"} /\ Step(s) # "none" /\ Step(s) \notin MayLack
    BY <2>4, AtStep DEF MayLack
  <2> QED
    BY <1>4, <2>3, <2>4, <2>5
<1>8. ASSUME ApproveNone(s) PROVE CommandsInv'
  BY <1>2, <1>8 DEF ApproveNone
<1>9. ASSUME Store(s) PROVE CommandsInv'
  <2>1. /\ Step(s) = "store" /\ UNCHANGED landed
        /\ shell' = [shell EXCEPT ![s] = Advanced([r EXCEPT !.did = r.did \cup {"store"}])]
    BY <1>9 DEF Store, Does
  <2>2. r.command \notin {"cycle", "pending"} /\ Step(s) # "none" /\ Step(s) \notin MayLack
    BY <2>1, AtStep DEF MayLack
  <2> QED
    BY <1>0, <1>4, <2>1, <2>2, LandedSame
(* A step of the batch, which stays where it is.                           *)
<1>10. ASSUME NEW rest, NEW d, Step(s) = "batch", d \subseteq r.did \cup {"batch", "post"},
              "post" \in d => "post" \in r.did \/ (OnYouTube(s) \/ r.token),
              shell' = [shell EXCEPT ![s] = [r EXCEPT !.rows = rest, !.did = d]],
              LandedInv'
       PROVE  CommandsInv'
  <2> DEFINE q == [r EXCEPT !.rows = rest, !.did = d]
  <2>1. /\ q.command = r.command /\ q.account = r.account /\ q.ended = r.ended
        /\ q.at = r.at /\ q.mode = r.mode /\ q.token = r.token /\ q.did = d /\ IsShell(q)
    BY <1>0 DEF IsShell, Fields
  <2> HIDE DEF q
  <2>2. r.ended = "no" /\ Steps[r.command][r.at] = "batch" /\ r.mode # "off"
    BY <1>10, AtStep
  <2>3. d \subseteq {"open", "agents", "batch", "post"}
    BY <1>10, AtStep
  <2>4. ShellInv(q)
    BY <1>0, <1>10, <2>1, <2>2, <2>3
       DEF ShellInv, Underway, DidInOrder, PostedWith, RefusedEarly, MayLack, OnYouTube
  <2> QED
    BY <1>10, <2>4, ShellMoves DEF q
<1>11. ASSUME SelectRows(s) PROVE CommandsInv'
  <2> DEFINE d == r.did \cup {"batch"}
  <2>1. /\ Step(s) = "batch" /\ UNCHANGED landed
        /\ \E rest : shell' = [shell EXCEPT ![s] = [r EXCEPT !.rows = rest, !.did = d]]
    BY <1>11 DEF SelectRows
  <2>2. PICK rest : shell' = [shell EXCEPT ![s] = [r EXCEPT !.rows = rest, !.did = d]]
    BY <2>1
  <2>3. d \subseteq r.did \cup {"batch", "post"} /\ ("post" \in d => "post" \in r.did)
    OBVIOUS
  <2> HIDE DEF d
  <2> QED
    BY <1>0, <1>10, <2>1, <2>2, <2>3, LandedSame
<1>12. ASSUME PostRow(s) PROVE CommandsInv'
  <2> DEFINE n == Head(r.rows)
  <2>1. /\ Step(s) = "batch" /\ Routed(s, n) /\ (OnYouTube(s) \/ r.token)
        /\ \/ /\ landed' = [landed EXCEPT ![n] =
                   [owner |-> landed[n].owner, state |-> "published", on |-> r.account]]
              /\ shell' = [shell EXCEPT ![s] = [r EXCEPT !.rows = Tail(r.rows),
                                                !.did = r.did \cup {"post"}]]
           \/ /\ \E state \in {"failed", "pending"} :
                   landed' = [landed EXCEPT ![n] = [landed[n] EXCEPT !.state = state]]
              /\ shell' = [shell EXCEPT ![s] = [r EXCEPT !.rows = Tail(r.rows)]]
    BY <1>12 DEF PostRow
  <2> HIDE DEF n
  <2>2. n \in 1..Len(landed) => landed[n] \in Landed
    BY <1>0 DEF LandedInv
  <2>3. r.account \in Accounts
    BY <2>1, AtStep
  <2>4. CASE /\ landed' = [landed EXCEPT ![n] =
                   [owner |-> landed[n].owner, state |-> "published", on |-> r.account]]
             /\ shell' = [shell EXCEPT ![s] = [r EXCEPT !.rows = Tail(r.rows),
                                               !.did = r.did \cup {"post"}]]
    <3> DEFINE new == [owner |-> landed[n].owner, state |-> "published", on |-> r.account]
    <3>1. n \in 1..Len(landed) => new \in Landed
      BY <2>2, <2>3 DEF Landed, States
    <3>2. AccountPlatform[new.on] = AccountPlatform[new.owner]
      BY <2>1 DEF Routed
    <3>3. LandedInv'
      BY <1>0, <2>4, <3>1, <3>2, LandedChanges
    <3> DEFINE d == r.did \cup {"post"}
    <3>4. d \subseteq r.did \cup {"batch", "post"}
      OBVIOUS
    <3>5. shell' = [shell EXCEPT ![s] = [r EXCEPT !.rows = Tail(r.rows), !.did = d]]
      BY <2>4
    <3> HIDE DEF d
    <3> QED
      BY <1>10, <2>1, <3>3, <3>4, <3>5
  <2>5. ASSUME NEW state \in {"failed", "pending"},
               landed' = [landed EXCEPT ![n] = [landed[n] EXCEPT !.state = state]],
               shell' = [shell EXCEPT ![s] = [r EXCEPT !.rows = Tail(r.rows)]]
        PROVE  CommandsInv'
    <3>1. state \in States /\ state # "published"
      BY DEF States
    <3>2. LandedInv'
      BY <1>0, <2>2, <2>5, <3>1, StateChanges, LandedChanges
    <3>3. [r EXCEPT !.rows = Tail(r.rows)] = [r EXCEPT !.rows = Tail(r.rows), !.did = r.did]
      BY <1>0 DEF IsShell, Fields
    <3> QED
      BY <1>10, <2>1, <2>5, <3>2, <3>3
  <2> QED
    BY <2>1, <2>4, <2>5
<1>13. ASSUME RowRaises(s) PROVE CommandsInv'
  <2> DEFINE n == Head(r.rows)
             end == IF Routed(s, n) THEN "refused" ELSE "foreign"
  <2>1. /\ Step(s) = "batch" /\ UNCHANGED landed
        /\ ~Routed(s, n) \/ ~(OnYouTube(s) \/ r.token)
        /\ shell' = [shell EXCEPT ![s].ended = end]
    BY <1>13 DEF RowRaises
  <2>2. end = "refused" => ~r.token /\ r.did \subseteq {"open", "agents", "batch"}
    BY <1>0, <2>1, AtStep DEF ShellInv, PostedWith, OnYouTube
  <2> QED
    BY <1>2, <2>1, <2>2
<1>14. ASSUME RowsDone(s) PROVE CommandsInv'
  <2>1. /\ Step(s) = "batch" /\ UNCHANGED landed
        /\ shell' = [shell EXCEPT ![s] = Advanced(r)]
    BY <1>14 DEF RowsDone
  <2>2. shell' = [shell EXCEPT ![s] = Advanced([r EXCEPT !.did = r.did])]
    BY <1>0, <2>1, SameFields
  <2>3. Step(s) # "none" /\ Step(s) \notin MayLack
    BY <2>1 DEF MayLack
  <2> QED
    BY <1>0, <1>4, <2>1, <2>2, <2>3, AtStep, LandedSame
<1> QED
  BY <1>1, <1>3, <1>5, <1>6, <1>7, <1>8, <1>9, <1>11, <1>12, <1>13, <1>14

LEMMA CommandsInvStep == CommandsInv /\ [CommandsNext]_shellVars => CommandsInv'
<1> SUFFICES ASSUME CommandsInv, [CommandsNext]_shellVars PROVE CommandsInv'
  OBVIOUS
<1>1. ASSUME UNCHANGED <<landed, shell>> PROVE CommandsInv'
  BY <1>1, LandedSame DEF CommandsInv
<1>2. ASSUME NEW a \in Accounts, EditChannel(a) PROVE CommandsInv'
  BY <1>1, <1>2 DEF EditChannel
<1> QED
  BY <1>1, <1>2, CommandStep DEF CommandsNext, shellVars

(* The types of what the commands and the operator write.                  *)
ShellTyped(r) ==
  /\ r.ended \in {"no", "done", "refused", "unknown", "foreign"}
  /\ r.has \subseteq Settings /\ r.token \in BOOLEAN
CommandsTyped ==
  /\ modeOf \in [Accounts -> {"on", "off"}] /\ grantOf \in [Accounts -> BOOLEAN]
  /\ \A s \in Shells : ShellTyped(shell[s])
  /\ started \in 0..MaxStarted /\ edits \in 0..MaxEdits

LEMMA CommandsTypedStart == CommandsInit => CommandsTyped
<1> SUFFICES ASSUME CommandsInit PROVE CommandsTyped
  OBVIOUS
<1>1. ShellTyped(NoCommand)
  BY DEF ShellTyped, NoCommand
<1>2. \A s \in Shells : shell[s] = NoCommand
  BY DEF CommandsInit
<1>3. started \in 0..MaxStarted /\ edits \in 0..MaxEdits
  BY CommandBounds DEF CommandsInit
<1>4. modeOf \in [Accounts -> {"on", "off"}] /\ grantOf \in [Accounts -> BOOLEAN]
  BY DEF CommandsInit
<1> QED
  BY <1>1, <1>2, <1>3, <1>4 DEF CommandsTyped

LEMMA TypedMoves ==
  ASSUME CommandsInv, CommandsTyped, NEW s \in Shells, NEW r, ShellTyped(r),
         shell' = [shell EXCEPT ![s] = r]
  PROVE  \A t \in Shells : ShellTyped(shell'[t])
<1>1. \A t \in Shells : shell'[t] = IF t = s THEN r ELSE shell[t]
  BY DEF CommandsInv
<1> QED
  BY <1>1 DEF CommandsTyped

LEMMA TypedAdvances ==
  ASSUME NEW r, IsShell(r), ShellTyped(r) PROVE ShellTyped(Advanced(r))
BY DEF IsShell, Fields, ShellTyped, Advanced

LEMMA TypedFields ==
  ASSUME NEW r, IsShell(r), ShellTyped(r), NEW mode, NEW token \in BOOLEAN, NEW did,
         NEW end \in {"refused", "unknown", "foreign"}
  PROVE  /\ ShellTyped([r EXCEPT !.ended = end])
         /\ LET q == [r EXCEPT !.mode = mode, !.token = token] IN IsShell(q) /\ ShellTyped(q)
         /\ LET q == [r EXCEPT !.did = did] IN IsShell(q) /\ ShellTyped(q)
BY DEF IsShell, Fields, ShellTyped

LEMMA TypedRows ==
  ASSUME NEW r, IsShell(r), ShellTyped(r), NEW rows, NEW did
  PROVE  /\ ShellTyped([r EXCEPT !.rows = rows, !.did = did])
         /\ ShellTyped([r EXCEPT !.rows = rows])
BY DEF IsShell, Fields, ShellTyped

LEMMA CommandTyped ==
  ASSUME CommandsInv, CommandsTyped, NEW s \in Shells,
         \/ \E c \in DOMAIN Steps, a \in Accounts, env \in Environments :
              BeginCommand(s, c, a, env)
         \/ Refuse(s) \/ Pass(s) \/ Work(s) \/ ApprovePublication(s) \/ ApproveNone(s)
         \/ Store(s) \/ SelectRows(s) \/ PostRow(s) \/ RowRaises(s) \/ RowsDone(s)
  PROVE  CommandsTyped'
<1> DEFINE r == shell[s]
           Kept == UNCHANGED <<modeOf, grantOf, started, edits>>
           Ended(end) == shell' = [shell EXCEPT ![s].ended = end]
           Did(x) == Does(s, x)
<1>0. IsShell(r) /\ ShellTyped(r)
  BY DEF CommandsInv, ShellInv, CommandsTyped
<1>1. ASSUME NEW q, ShellTyped(q), shell' = [shell EXCEPT ![s] = q], Kept
      PROVE  CommandsTyped'
  <2>1. \A t \in Shells : ShellTyped(shell'[t])
    BY <1>1, TypedMoves
  <2> QED
    BY <1>1, <2>1 DEF CommandsTyped
<1>2. ASSUME NEW end \in {"refused", "unknown", "foreign"}, Ended(end), Kept
      PROVE  CommandsTyped'
  <2>1. ShellTyped([r EXCEPT !.ended = end])
    BY <1>0, TypedFields
  <2>2. shell' = [shell EXCEPT ![s] = [r EXCEPT !.ended = end]]
    BY <1>2
  <2> QED
    BY <1>1, <1>2, <2>1, <2>2
<1>3. ASSUME NEW x, Did(x) PROVE \E q : ShellTyped(q) /\ shell' = [shell EXCEPT ![s] = q]
  <2> DEFINE q == [r EXCEPT !.did = @ \cup {x}]
  <2>1. IsShell(q) /\ ShellTyped(q)
    BY <1>0, TypedFields
  <2>2. shell' = [shell EXCEPT ![s] = Advanced(q)]
    BY <1>3 DEF Does
  <2> QED
    BY <2>1, <2>2, TypedAdvances
<1>4. ASSUME NEW c \in DOMAIN Steps, NEW a \in Accounts, NEW env \in Environments,
             BeginCommand(s, c, a, env)
      PROVE  CommandsTyped'
  <2> DEFINE q == [NoCommand EXCEPT !.command = c, !.account = a, !.has = env,
                                    !.at = 1, !.ended = "no"]
  <2>1. env \subseteq Settings
    BY DEF Environments
  <2>2. ShellTyped(q)
    BY <2>1 DEF ShellTyped, NoCommand
  <2>3. /\ shell' = [shell EXCEPT ![s] = q] /\ started < MaxStarted
        /\ started' = started + 1 /\ UNCHANGED <<modeOf, grantOf, edits>>
    BY <1>4 DEF BeginCommand
  <2> HIDE DEF q
  <2>4. \A t \in Shells : ShellTyped(shell'[t])
    BY <2>2, <2>3, TypedMoves
  <2>5. started' \in 0..MaxStarted
    BY <2>3, CommandBounds DEF CommandsTyped
  <2> QED
    BY <2>3, <2>4, <2>5 DEF CommandsTyped
<1>5. CASE Refuse(s)
  BY <1>2, <1>5 DEF Refuse
<1>6. CASE Pass(s)
  <2> DEFINE read == [r EXCEPT !.mode = modeOf[r.account], !.token = grantOf[r.account]]
             q == IF Step(s) = "channel" THEN read ELSE r
  <2>1. Step(s) # "none"
    BY <1>6 DEF Pass, Settings
  <2>2. grantOf[r.account] \in BOOLEAN
    BY <2>1, AtStep DEF CommandsTyped
  <2>3. IsShell(q) /\ ShellTyped(q)
    BY <1>0, <2>2, TypedFields
  <2>4. shell' = [shell EXCEPT ![s] = Advanced(q)] /\ Kept
    BY <1>6 DEF Pass
  <2> HIDE DEF q
  <2> QED
    BY <1>1, <2>3, <2>4, TypedAdvances
<1>7. CASE Work(s)
  <2>1. PICK x : Did(x) /\ Kept
    BY <1>7 DEF Work
  <2> QED
    BY <1>1, <1>3, <2>1
<1>8. CASE ApprovePublication(s)
  BY <1>1, <1>3, <1>8 DEF ApprovePublication
<1>9. CASE ApproveNone(s)
  BY <1>2, <1>9 DEF ApproveNone
<1>10. CASE Store(s)
  <2>1. PICK q : ShellTyped(q) /\ shell' = [shell EXCEPT ![s] = q]
    BY <1>3, <1>10 DEF Store
  <2>2. \A t \in Shells : ShellTyped(shell'[t])
    BY <2>1, TypedMoves
  <2>3. grantOf' \in [Accounts -> BOOLEAN] /\ UNCHANGED <<modeOf, started, edits>>
    BY <1>10 DEF Store, CommandsTyped
  <2> QED
    BY <2>2, <2>3 DEF CommandsTyped
<1>11. CASE SelectRows(s)
  <2> DEFINE rows == SelectSeq([n \in 1..Len(landed) |-> n],
                               LAMBDA n : landed[n].state = "pending")
             did == r.did \cup {"batch"}
  <2>1. shell' = [shell EXCEPT ![s] = [r EXCEPT !.rows = rows, !.did = did]] /\ Kept
    BY <1>11 DEF SelectRows, CommandsInv
  <2> HIDE DEF rows, did
  <2>2. ShellTyped([r EXCEPT !.rows = rows, !.did = did])
    BY <1>0, TypedRows
  <2> QED
    BY <1>1, <2>1, <2>2
<1>12. CASE PostRow(s)
  <2> DEFINE rows == Tail(r.rows)
             did == r.did \cup {"post"}
  <2>1. /\ Kept
        /\ \/ shell' = [shell EXCEPT ![s] = [r EXCEPT !.rows = rows, !.did = did]]
           \/ shell' = [shell EXCEPT ![s] = [r EXCEPT !.rows = rows]]
    BY <1>12 DEF PostRow, CommandsInv
  <2> HIDE DEF rows, did
  <2>2. /\ ShellTyped([r EXCEPT !.rows = rows, !.did = did])
        /\ ShellTyped([r EXCEPT !.rows = rows])
    BY <1>0, TypedRows
  <2> QED
    BY <1>1, <2>1, <2>2
<1>13. CASE RowRaises(s)
  BY <1>2, <1>13 DEF RowRaises
<1>14. CASE RowsDone(s)
  <2>1. shell' = [shell EXCEPT ![s] = Advanced(r)] /\ Kept
    BY <1>14 DEF RowsDone
  <2> QED
    BY <1>0, <1>1, <2>1, TypedAdvances
<1> QED
  BY <1>4, <1>5, <1>6, <1>7, <1>8, <1>9, <1>10, <1>11, <1>12, <1>13, <1>14

LEMMA CommandsTypedStep ==
  CommandsInv /\ CommandsTyped /\ [CommandsNext]_shellVars => CommandsTyped'
<1> SUFFICES ASSUME CommandsInv, CommandsTyped, [CommandsNext]_shellVars
             PROVE  CommandsTyped'
  OBVIOUS
<1>1. CASE UNCHANGED shellVars
  BY <1>1 DEF shellVars, CommandsTyped
<1>2. ASSUME NEW a \in Accounts, EditChannel(a) PROVE CommandsTyped'
  <2>1. /\ modeOf' \in [Accounts -> {"on", "off"}] /\ grantOf' \in [Accounts -> BOOLEAN]
        /\ edits < MaxEdits /\ edits' = edits + 1 /\ UNCHANGED <<shell, started>>
    BY <1>2 DEF EditChannel, CommandsTyped
  <2>2. edits' \in 0..MaxEdits
    BY <2>1, CommandBounds DEF CommandsTyped
  <2> QED
    BY <2>1, <2>2 DEF CommandsTyped
<1> QED
  BY <1>1, <1>2, CommandTyped DEF CommandsNext

LEMMA CommandsAreTyped == CommandsInv /\ CommandsTyped => CommandsTypeOK
<1> SUFFICES ASSUME CommandsInv, CommandsTyped PROVE CommandsTypeOK
  OBVIOUS
<1>1. \A n \in 1..Len(landed) : landed[n].owner \in Accounts
  <2>1. \A n \in 1..Len(landed) : landed[n] \in Landed
    BY DEF CommandsInv, LandedInv
  <2> QED
    BY <2>1 DEF Landed
<1> QED
  BY <1>1 DEF CommandsTyped, ShellTyped, CommandsTypeOK

(* What a command lacks ends it before it costs anything (config.py:1-4,   *)
(* sandbox.py:1-6, bootstrap.py:189), but for the token of Instagram; and  *)
(* a channel that was off posts nothing, while every post is on the        *)
(* platform it was made for: for any shells and accounts, with the         *)
(* operator switching channels off in between.                             *)
THEOREM CommandsAreOrdered == CommandsSpec => []CommandsInOrder
<1>1. CommandsInv => CommandsInOrder
  <2> SUFFICES ASSUME CommandsInv PROVE FailsFast /\ PostsOnPlatform
    BY DEF CommandsInOrder
  <2>1. FailsFast
    BY DEF CommandsInv, ShellInv, RefusedEarly, FailsFast
  <2>2. PostsOnPlatform
    BY DEF CommandsInv, ShellInv, PostedWith, LandedInv, PostsOnPlatform
  <2> QED
    BY <2>1, <2>2
<1> QED
  BY <1>1, CommandsStart, CommandsInvStep, PTL DEF CommandsSpec

-----------------------------------------------------------------------------
(* The types of each service                                               *)

LEMMA CardTypes == CardSpec => []CardTypeOK
BY CardStarts, CardStays, CardTypedStart, CardTypedStep, CardIsTyped, PTL DEF CardSpec

LEMMA AlertsTypes == AlertsSpec => []AlertsTypeOK
BY AlertsStart, AlertStep, AlertTypedStep, AlertsTyped, PTL DEF AlertsSpec

LEMMA ScoreboardTypes == ScoreboardSpec => []ScoreboardTypeOK
BY ScoreStart, ScoreStep, ScoreboardTyped, PTL DEF ScoreboardSpec

LEMMA TrendsTypes == TrendsSpec => []TrendsTypeOK
<1>1. TrendsInv => TrendsTypeOK
  BY DEF TrendsInv
<1> QED
  BY <1>1, TrendsCorrect, PTL

LEMMA MigrationsTypes == MigrationsSpec => []MigrationsTypeOK
<1>1. MigrationsInv => MigrationsTypeOK
  BY DEF MigrationsInv
<1> QED
  BY <1>1, MigrationsCorrect, PTL

LEMMA VideoTypes == VideoSpec => []VideoTypeOK
<1>1. VideoInv => VideoTypeOK
  BY DEF VideoInv
<1> QED
  BY <1>1, VideoInvHolds, PTL

LEMMA TokensTypes == TokensSpec => []TokensTypeOK
<1>1. TokensInv => TokensTypeOK
  BY DEF TokensInv
<1> QED
  BY <1>1, TokensStart, TokensInvStep, PTL DEF TokensSpec

LEMMA PlaybookTypes == PlaybookSpec => []PlaybookTypeOK
<1>1. PlaybookInv => PlaybookTypeOK
  BY DEF PlaybookInv
<1> QED
  BY <1>1, PlaybookStart, PlaybookInvStep, PTL DEF PlaybookSpec

LEMMA MediaTypes == MediaSpec => []MediaTypeOK
<1>1. MediaInv => MediaTypeOK
  BY DEF MediaInv
<1> QED
  BY <1>1, MediaStart, MediaInvStep, PTL DEF MediaSpec

LEMMA CommandsTypes == CommandsSpec => []CommandsTypeOK
BY CommandsStart, CommandsInvStep, CommandsTypedStart, CommandsTypedStep,
   CommandsAreTyped, PTL DEF CommandsSpec

-----------------------------------------------------------------------------
(* The services side by side                                               *)

(* A step of the composition is a step of one service, and leaves every    *)
(* other alone.                                                            *)
LEMMA OneServiceSteps ==
  [ServicesNext]_servicesVars =>
    /\ [TrendsNext]_trendsVars /\ [MigrationsNext]_migrationVars
    /\ [CardNext]_<<layoutVars, cardVars>> /\ [VideoNext]_videoVars
    /\ [AlertsNext]_alertVars /\ [ScoreboardNext]_scoreVars
    /\ [TokensNext]_tokenVars /\ [PlaybookNext]_playbookVars
    /\ [MediaNext]_mediaVars /\ [CommandsNext]_shellVars
    /\ UNCHANGED part
<1> SUFFICES ASSUME [ServicesNext]_servicesVars
             PROVE  /\ [TrendsNext]_trendsVars /\ [MigrationsNext]_migrationVars
                    /\ [CardNext]_<<layoutVars, cardVars>> /\ [VideoNext]_videoVars
                    /\ [AlertsNext]_alertVars /\ [ScoreboardNext]_scoreVars
                    /\ [TokensNext]_tokenVars /\ [PlaybookNext]_playbookVars
                    /\ [MediaNext]_mediaVars /\ [CommandsNext]_shellVars
                    /\ UNCHANGED part
  OBVIOUS
<1>1. CASE ServicesNext
  BY <1>1, Zenon DEF ServicesNext
<1>2. CASE UNCHANGED servicesVars
  BY <1>2 DEF servicesVars
<1> QED
  BY <1>1, <1>2

(* The composition implements every service's specification: whatever is   *)
(* proved of a service alone holds of it beside the others (the components *)
(* that share neither a table nor a file).                                 *)
THEOREM ServicesAreIndependent ==
  ServicesSpec =>
    /\ TrendsSpec /\ MigrationsSpec /\ CardSpec /\ VideoSpec /\ AlertsSpec
    /\ ScoreboardSpec /\ TokensSpec /\ PlaybookSpec /\ MediaSpec /\ CommandsSpec
<1>1. ServicesInit =>
        /\ TrendsInit /\ MigrationsInit /\ CardInit /\ VideoInit /\ AlertsInit
        /\ ScoreboardInit /\ TokensInit /\ PlaybookInit /\ MediaInit /\ CommandsInit
  BY DEF ServicesInit
<1> QED
  BY <1>1, OneServiceSteps, PTL
     DEF ServicesSpec, TrendsSpec, MigrationsSpec, CardSpec, VideoSpec, AlertsSpec,
         ScoreboardSpec, TokensSpec, PlaybookSpec, MediaSpec, CommandsSpec

(* Every variable of every service stays in its type, for every value of   *)
(* the constants.                                                          *)
THEOREM ServicesTypeCorrect == ServicesSpec => []ServicesTypeOK
<1>1. ServicesInit => part \in Parts
  BY DEF ServicesInit
<1>2. part \in Parts /\ [ServicesNext]_servicesVars => (part \in Parts)'
  BY OneServiceSteps
<1>3. /\ part \in Parts
      /\ TrendsTypeOK /\ MigrationsTypeOK /\ CardTypeOK /\ VideoTypeOK
      /\ AlertsTypeOK /\ ScoreboardTypeOK /\ TokensTypeOK /\ PlaybookTypeOK
      /\ MediaTypeOK /\ CommandsTypeOK
      => ServicesTypeOK
  BY DEF ServicesTypeOK
<1>4. ServicesSpec => [](part \in Parts)
  BY <1>1, <1>2, PTL DEF ServicesSpec
<1> QED
  BY <1>3, <1>4, ServicesAreIndependent, TrendsTypes, MigrationsTypes, CardTypes,
     VideoTypes, AlertsTypes, ScoreboardTypes, TokensTypes, PlaybookTypes,
     MediaTypes, CommandsTypes, PTL

(* What each service promises, it promises in the composition the run      *)
(* checks, all at once.                                                    *)
THEOREM ServicesKeepTheirPromises ==
  ServicesSpec =>
    /\ []DelayContained /\ []SchemaSound /\ []WrapFaithful /\ []ReportTrue
    /\ []KeepsInStep /\ []AlertTold /\ []VerdictEarned /\ []AdviceHelps
    /\ []VersionsAdvance /\ []ServedAsRendered /\ []CommandsInOrder
    /\ UsableStays
BY ServicesAreIndependent, DelayIsContained, SchemaIsSound, TextsWrapFaithfully,
   ReportsTellTheCard, VideoKeepsInStep, AlertsAreWhole, VerdictsAreEarned,
   AdviceIsSound, PlaybookAdvances, MediaAreServed, CommandsAreOrdered,
   TokensStayUsable, PTL
=============================================================================
