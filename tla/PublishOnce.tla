---------------------------- MODULE PublishOnce ----------------------------
(***************************************************************************)
(* What the publish path promises of each publication, whatever adapters,  *)
(* ledger and batch it is built from: it is posted at most once, it is     *)
(* called published only after the post, and given up only without one;    *)
(* and that word is final.                                                 *)
(***************************************************************************)
EXTENDS Naturals

CONSTANT Publications

VARIABLES
  phase,   \* what the system says of a publication
  live     \* the number of its posts on the platform

Init ==
  /\ phase = [p \in Publications |-> "waiting"]
  /\ live = [p \in Publications |-> 0]

(* The one post.                                                           *)
Post(p) ==
  /\ phase[p] = "waiting" /\ live[p] = 0
  /\ live' = [live EXCEPT ![p] = 1]
  /\ UNCHANGED phase

Publish(p) ==
  /\ phase[p] = "waiting" /\ live[p] = 1
  /\ phase' = [phase EXCEPT ![p] = "published"]
  /\ UNCHANGED live

GiveUp(p) ==
  /\ phase[p] = "waiting" /\ live[p] = 0
  /\ \E verdict \in {"failed", "skipped"} :
       phase' = [phase EXCEPT ![p] = verdict]
  /\ UNCHANGED live

Next == \E p \in Publications : Post(p) \/ Publish(p) \/ GiveUp(p)

Spec == Init /\ [][Next]_<<phase, live>>
=============================================================================
