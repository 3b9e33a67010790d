----------------------------- MODULE MediaStore -----------------------------
(***************************************************************************)
(* Where rendered media are kept (render/storage.py,                       *)
(* render/storage_local.py) and who reads them.  A store is addressed by   *)
(* content: the kind and the checksum are the name.  Commands store what   *)
(* they render, in the memory of their process or in a directory several   *)
(* of them share; they upload videos to YouTube by their bytes, Instagram  *)
(* fetches the URL.  A file is written in two halves.                      *)
(***************************************************************************)
EXTENDS FiniteSets

CONSTANTS
  Processes,     \* commands of the CLI
  Media,         \* different results of rendering
  MediaKind      \* [Media -> {"image", "thumbnail", "video"}]

ASSUME MediaKindAssumption ==
  MediaKind \in [Media -> {"image", "thumbnail", "video"}]
ASSUME NoneAssumption == "none" \notin Media

VARIABLES
  store,         \* "memory" or "directory"
  tts,           \* whether there is a TTS key
  halves,        \* the halves of the file of a content, Missing without a file
  held,          \* the contents in the memory of a process
  putting,       \* what each process stores, and how far it is
  recorded,      \* the contents whose URL a put has returned
  served,        \* what readers got: of what, by whom, what
  overlapped,    \* history: contents put by two processes at once
  interrupted    \* history: contents whose writer died

mediaVars == <<store, tts, halves, held, putting, recorded, served, overlapped,
               interrupted>>

Missing == {0}
Whole == {1, 2}
Instagram == "instagram"
Resting == [content |-> "none", at |-> "rest"]

MediaInit ==
  /\ store \in {"memory", "directory"}
  /\ tts \in BOOLEAN
  /\ halves = [c \in Media |-> Missing]
  /\ held = [p \in Processes |-> {}]
  /\ putting = [p \in Processes |-> Resting]
  /\ recorded = {} /\ served = {} /\ overlapped = {} /\ interrupted = {}

-----------------------------------------------------------------------------
PuttersOf(c) == {p \in Processes : putting[p].content = c}

(* A video is rendered only where its renderer is registered.              *)
Renders(p, c) ==
  /\ putting[p] = Resting
  /\ MediaKind[c] = "video" => tts

(* InMemoryMediaStore.put: the bytes, and a mem:// URL.                    *)
PutInMemory(p, c) ==
  /\ store = "memory"
  /\ Renders(p, c)
  /\ held' = [held EXCEPT ![p] = @ \cup {c}]
  /\ recorded' = recorded \cup {c}
  /\ UNCHANGED <<store, tts, halves, putting, served, overlapped, interrupted>>

(* Mutant: put writes whether there is a file or not.                      *)
ExistsNever(c) == FALSE

Exists(c) == halves[c] # Missing

(* LocalDirMediaStore.put looks for the file and, if it is there, whole or *)
(* not, returns its URL.                                                   *)
LookForFile(p, c) ==
  /\ store = "directory"
  /\ Renders(p, c)
  /\ IF Exists(c)
       THEN recorded' = recorded \cup {c} /\ UNCHANGED putting
       ELSE /\ putting' = [putting EXCEPT ![p] = [content |-> c, at |-> "open"]]
            /\ UNCHANGED recorded
  /\ overlapped' = IF PuttersOf(c) = {} THEN overlapped ELSE overlapped \cup {c}
  /\ UNCHANGED <<store, tts, halves, held, served, interrupted>>

(* write_bytes opens the file, which makes it an empty one.                *)
OpenFile(p) ==
  /\ putting[p].at = "open"
  /\ halves' = [halves EXCEPT ![putting[p].content] = {}]
  /\ putting' = [putting EXCEPT ![p].at = "write"]
  /\ UNCHANGED <<store, tts, held, recorded, served, overlapped, interrupted>>

WriteHalf(p) ==
  /\ putting[p].at = "write"
  /\ halves' = [halves EXCEPT ![putting[p].content] = @ \cup {1}]
  /\ putting' = [putting EXCEPT ![p].at = "close"]
  /\ UNCHANGED <<store, tts, held, recorded, served, overlapped, interrupted>>

(* The second half; put returns the URL.                                   *)
WriteRest(p) ==
  /\ putting[p].at = "close"
  /\ halves' = [halves EXCEPT ![putting[p].content] = @ \cup {2}]
  /\ recorded' = recorded \cup {putting[p].content}
  /\ putting' = [putting EXCEPT ![p] = Resting]
  /\ UNCHANGED <<store, tts, held, served, overlapped, interrupted>>

(* A command ends, or dies in the middle of a write.                       *)
ProcessEnds(p) ==
  /\ held' = [held EXCEPT ![p] = {}]
  /\ putting' = [putting EXCEPT ![p] = Resting]
  /\ interrupted' = interrupted \cup
       IF putting[p].at \in {"write", "close"} THEN {putting[p].content} ELSE {}
  /\ UNCHANGED <<store, tts, halves, recorded, served, overlapped>>

(* YouTubePublish asks the store of its own process for the bytes, before  *)
(* any call to the platform; a KeyError is a permanent failure.            *)
BytesFor(p, c) ==
  IF store = "memory" THEN (IF c \in held[p] THEN Whole ELSE Missing) ELSE halves[c]

UploadVideo(p, c) ==
  /\ c \in recorded /\ MediaKind[c] = "video"
  /\ putting[p] = Resting
  /\ served' = served \cup {[content |-> c, to |-> p, bytes |-> BytesFor(p, c),
                             own |-> c \in held[p]]}
  /\ UNCHANGED <<store, tts, halves, held, putting, recorded, overlapped, interrupted>>

(* Instagram fetches image_url or video_url; nobody serves mem://.         *)
FetchUrl(c) ==
  /\ c \in recorded
  /\ served' = served \cup
       {[content |-> c, to |-> Instagram, own |-> FALSE,
         bytes |-> IF store = "memory" THEN Missing ELSE halves[c]]}
  /\ UNCHANGED <<store, tts, halves, held, putting, recorded, overlapped, interrupted>>

MediaNext ==
  \/ \E p \in Processes : \/ \E c \in Media : \/ PutInMemory(p, c)
                                                 \/ LookForFile(p, c)
                                                 \/ UploadVideo(p, c)
                          \/ OpenFile(p) \/ WriteHalf(p) \/ WriteRest(p)
                          \/ ProcessEnds(p)
  \/ \E c \in Media : FetchUrl(c)

MediaSpec == MediaInit /\ [][MediaNext]_mediaVars

-----------------------------------------------------------------------------
MediaTypeOK ==
  /\ store \in {"memory", "directory"} /\ tts \in BOOLEAN
  /\ halves \in [Media -> (SUBSET Whole) \cup {Missing}]
  /\ held \in [Processes -> SUBSET Media]
  /\ putting \in [Processes -> [content : Media, at : {"open", "write", "close"}]
                                 \cup {Resting}]
  /\ recorded \subseteq Media
  /\ overlapped \subseteq Media /\ interrupted \subseteq Media
  /\ served \subseteq [content : Media, to : Processes \cup {Instagram},
                       bytes : (SUBSET Whole) \cup {Missing}, own : BOOLEAN]

(* What is posted is what was rendered (FR-M1, FR-M3).  A URL a put has    *)
(* returned leads to all of the bytes once nobody writes them, unless a    *)
(* writer died; a reader gets a part only of media that was being put by   *)
(* two at once, or interrupted, and storing it again does not mend it; and *)
(* nothing only where media live in memory, never the process's own.       *)
ServedAsRendered ==
  /\ \A c \in recorded : store = "directory" =>
       PuttersOf(c) # {} \/ halves[c] = Whole \/ c \in interrupted
  /\ \A r \in served :
       /\ r.bytes \in {Whole, Missing} \/ r.content \in overlapped \cup interrupted
       /\ r.bytes = Missing => store = "memory" /\ ~r.own
=============================================================================
