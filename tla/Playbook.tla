------------------------------ MODULE Playbook ------------------------------
(***************************************************************************)
(* The versions of the playbook (learning/playbook.py).  A write is one    *)
(* INSERT ... SELECT: it reads the greatest version of its lineage in the  *)
(* snapshot it begins with and inserts the next one when that has become   *)
(* unique or not.  Several cycles may write at once.  A lineage is a scope *)
(* with its reference; UNIQUE (scope, scope_ref, version) binds only those *)
(* whose reference is not NULL, "global" has none.                         *)
(***************************************************************************)
EXTENDS Naturals, Sequences

CONSTANTS
  Writers,      \* cycles whose analyst calls write_playbook
  Lineages,     \* scopes with their references
  Referenced,   \* those whose scope_ref is not NULL
  MaxWritten    \* bound: writes begun

ASSUME LineagesAssumption == Referenced \subseteq Lineages /\ MaxWritten \in Nat

VARIABLES
  guidance,   \* the rows of a lineage as they were committed: the version,
              \* and after how many of them its statement took its snapshot
  pending,    \* the row each writer is about to insert
  written     \* writes begun so far

playbookVars == <<guidance, pending, written>>

NoWrite == [lineage |-> "none", version |-> 0, after |-> 0]

VersionsOf(l) == {guidance[l][i].version : i \in 1..Len(guidance[l])}
Versions == UNION {VersionsOf(l) : l \in Lineages}

(* Mutant: MAX over the whole table, WHERE is missing.                     *)
LatestOfAll(l, v) ==
  v \in {0} \cup Versions /\ \A n \in Versions : n <= v

(* COALESCE(MAX(version), 0) over one lineage.                             *)
Latest(l, v) == v \in {0} \cup VersionsOf(l) /\ \A n \in VersionsOf(l) : n <= v

PlaybookInit ==
  /\ guidance = [l \in Lineages |-> <<>>]
  /\ pending = [w \in Writers |-> NoWrite]
  /\ written = 0

(* The statement takes its snapshot and computes its row.                  *)
BeginWrite(w, l) ==
  /\ pending[w] = NoWrite
  /\ written < MaxWritten
  /\ \E v \in {0} \cup Versions :
       /\ Latest(l, v)
       /\ pending' = [pending EXCEPT ![w] =
            [lineage |-> l, version |-> v + 1, after |-> Len(guidance[l])]]
  /\ written' = written + 1
  /\ UNCHANGED guidance

Taken(w) ==
  /\ pending[w].lineage \in Referenced
  /\ pending[w].version \in VersionsOf(pending[w].lineage)

(* The row is in and committed.                                            *)
InsertRow(w) ==
  /\ pending[w] # NoWrite
  /\ ~Taken(w)
  /\ guidance' = [guidance EXCEPT ![pending[w].lineage] =
       Append(@, [version |-> pending[w].version, after |-> pending[w].after])]
  /\ pending' = [pending EXCEPT ![w] = NoWrite]
  /\ UNCHANGED written

(* UniqueViolation reaches the agent; there is no retry.                   *)
InsertRefused(w) ==
  /\ pending[w] # NoWrite
  /\ Taken(w)
  /\ pending' = [pending EXCEPT ![w] = NoWrite]
  /\ UNCHANGED <<guidance, written>>

PlaybookNext ==
  \E w \in Writers : \/ \E l \in Lineages : BeginWrite(w, l)
                     \/ InsertRow(w) \/ InsertRefused(w)

PlaybookSpec == PlaybookInit /\ [][PlaybookNext]_playbookVars

-----------------------------------------------------------------------------
PlaybookRows == [version : Nat \ {0}, after : Nat]

PlaybookTypeOK ==
  /\ guidance \in [Lineages -> Seq(PlaybookRows)]
  /\ pending \in [Writers -> {NoWrite} \cup
       [lineage : Lineages, version : Nat \ {0}, after : Nat]]
  /\ written \in Nat

(* Versions go forward (FR-L4; playbook.py:22-27): whoever writes at once, *)
(* no version of a lineage is ever seen before the one below it, one with  *)
(* a reference has each of them once, in order, and where the UNIQUE       *)
(* constraint says nothing a version ties with or stays below another only *)
(* when the two writes overlapped.                                         *)
NoVersionSkipped ==
  \A l \in Lineages : \A i \in 1..Len(guidance[l]) :
    \/ guidance[l][i].version = 1
    \/ \E j \in 1..(i - 1) : guidance[l][j].version = guidance[l][i].version - 1

OneRowPerVersion ==
  \A l \in Referenced : \A i \in 1..Len(guidance[l]) : guidance[l][i].version = i

TiesOverlapped ==
  \A l \in Lineages : \A i, j \in 1..Len(guidance[l]) :
    j <= guidance[l][i].after => guidance[l][j].version < guidance[l][i].version

VersionsAdvance == NoVersionSkipped /\ OneRowPerVersion /\ TiesOverlapped
=============================================================================
