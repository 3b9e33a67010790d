-------------------------- MODULE PublishContract --------------------------
(***************************************************************************)
(* The vocabulary the publish path shares: the frozen tool contract        *)
(* (tools/contracts.py), the CHECK constraints of the schema               *)
(* (db/migrations/001_initial.sql) and the state sets of the idempotent    *)
(* publish state machine (publish/state_machine.py).                       *)
(***************************************************************************)

Platforms  == {"instagram", "youtube"}
Formats    == {"feed_image", "reels", "shorts"}
MediaKinds == {"image", "video", "thumbnail", "audio"}
Modes      == {"auto", "hybrid"}

ErrorClasses ==
  {"auth", "quota", "spam_block", "transient", "permanent_unknown"}

(* The classes an adapter finds for a failed call: Instagram's by the code *)
(* of the Graph API, YouTube's by status, reason and exception, among      *)
(* which it has no sign of a block for spam.                               *)
GraphErrors  == ErrorClasses
UploadErrors == ErrorClasses \ {"spam_block"}
ErrorsOf(platform) == IF platform = "instagram" THEN GraphErrors ELSE UploadErrors

(* publish_attempt.state and publication.status                            *)
AttemptStates       == {"pending", "container_created", "published", "failed"}
PublicationStatuses == {"pending", "published", "failed", "skipped"}
Qualities           == {"passed", "failed", "needs_review"}

(* Only a transient error leaves an attempt open; every other class ends   *)
(* it.  A terminal attempt never reaches the platform again.               *)
RETRYABLE == {"transient"}
TERMINAL  == {"published", "failed"}

(* The asset kind a publication needs follows from its content format.     *)
KindOf(format) == IF format = "feed_image" THEN "image" ELSE "video"

(* The media kinds each platform adapter takes; it raises ValueError on    *)
(* the others.                                                             *)
Accepted(platform) ==
  IF platform = "instagram" THEN {"image", "video"} ELSE {"video"}

(* The state run_publish saves after an error of class err when the        *)
(* attempt's container is cid (0 is None).                                 *)
StateAfterError(err, cid) ==
  IF err \notin RETRYABLE THEN "failed"
  ELSE IF cid # 0 THEN "container_created" ELSE "pending"
=============================================================================
