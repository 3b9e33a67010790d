---------------------------- MODULE VideoTimeline ----------------------------
(***************************************************************************)
(* The time line of a rendered video (render/video/renderer.py,            *)
(* subtitles.py, tts.py) and the gate that judges it (quality.py).  A      *)
(* slide is spoken first; the length of its WAV is its time on the screen, *)
(* which is a whole number of video frames, and that of its subtitle,      *)
(* which is printed in hundredths of a second.  Times are in samples.      *)
(* Pictures, fonts and ffmpeg are left out, but for its failures.          *)
(***************************************************************************)
EXTENDS Integers, Sequences

CONSTANTS
  PerFrame,    \* samples in a video frame
  PerCenti,    \* samples in a hundredth of a second
  MaxTotal,    \* MAX_DURATION_S, a whole number of video frames
  MaxSlides,   \* MAX_SLIDES
  LongestSide, \* MAX_SIDE
  Smallest,    \* MIN_WIDTH and MIN_HEIGHT of the gate
  Shapes,      \* the widths and heights a spec may ask for
  Lengths,     \* the lengths a WAV may have
  WavFormats   \* channels, width and rate of a WAV

ASSUME SamplesAssumption ==
  /\ PerFrame \in Nat \ {0} /\ PerCenti \in Nat \ {0}
  /\ MaxTotal \in Nat /\ MaxSlides \in Nat /\ LongestSide \in Nat
  /\ MaxTotal % PerFrame = 0
  /\ Smallest \in Nat \X Nat /\ Smallest[1] * 16 = Smallest[2] * 9
  /\ Shapes \subseteq Int \X Int
  /\ Lengths \subseteq Nat

VARIABLES
  slides,    \* the number of slides of the spec
  wavs,      \* the WAVs spoken so far
  spoken,    \* the sample each of them ends with
  stage,     \* where render_video is
  screenAt,  \* video frames of the segments made so far
  cues,      \* the subtitles written so far, start and end as printed
  cursor,    \* the end of the narration they cover
  picture,   \* the width and height of the spec
  refusals   \* what the gate has against the video

videoVars == <<slides, wavs, spoken, stage, screenAt, cues, cursor, picture, refusals>>

Wavs   == [len : Lengths, fmt : WavFormats]
Stages == {"idle", "speak", "segments", "subtitles", "video", "checked", "refused",
           "raised"}

VideoInit ==
  /\ slides = 0 /\ wavs = <<>> /\ spoken = <<>> /\ stage = "idle"
  /\ screenAt = <<>> /\ cues = <<>> /\ cursor = 0
  /\ picture = <<0, 0>> /\ refusals = {}

-----------------------------------------------------------------------------
(* round() of a quotient: to the nearest, halves to the even neighbour.    *)
Rounded(n, d) ==
  LET q == n \div d
      r == n % d
  IN  IF 2 * r > d \/ (2 * r = d /\ q % 2 = 1) THEN q + 1 ELSE q

(* Mutant: a segment is cut down to whole frames.                          *)
FramesDown(len) == IF len \div PerFrame = 0 THEN 1 ELSE len \div PerFrame

(* A segment has a frame at least.                                         *)
Frames(len) == IF Rounded(len, PerFrame) = 0 THEN 1 ELSE Rounded(len, PerFrame)

(* _ass_time, in hundredths; a 60.00 in the place of the seconds is read   *)
(* as what it is.                                                          *)
Printed(time) == Rounded(time, PerCenti)

-----------------------------------------------------------------------------
(* parse_video_spec: an upright picture that is not too large, some slides *)
(* and not too many, a title on each.  The colours and the voice, which a  *)
(* spec may leave to the defaults, are left out.                           *)
Admissible(shape, titles) ==
  /\ shape[1] \in 1..LongestSide /\ shape[2] \in 1..LongestSide
  /\ shape[1] * 16 = shape[2] * 9
  /\ Len(titles) \in 1..MaxSlides
  /\ \A i \in DOMAIN titles : titles[i]
Parse(shape, titles) ==
  /\ stage = "idle"
  /\ slides' = Len(titles)
  /\ stage' = IF Admissible(shape, titles) THEN "speak" ELSE "refused"
  /\ picture' = shape
  /\ UNCHANGED <<wavs, spoken, screenAt, cues, cursor, refusals>>

Until(ends, i) == IF i = 0 THEN 0 ELSE ends[i]
Total == Until(spoken, Len(spoken))

(* One synthesis for a slide.                                              *)
Speak(wav) ==
  /\ stage = "speak"
  /\ Len(wavs) < slides
  /\ wavs' = Append(wavs, wav)
  /\ spoken' = Append(spoken, Total + wav.len)
  /\ UNCHANGED <<slides, stage, screenAt, cues, cursor, picture, refusals>>

(* A video that is empty or longer than the platforms take is refused      *)
(* before anything is rendered.                                            *)
Admit ==
  /\ stage = "speak" /\ Len(wavs) = slides
  /\ stage' = IF 0 < Total /\ Total <= MaxTotal THEN "segments" ELSE "refused"
  /\ UNCHANGED <<slides, wavs, spoken, screenAt, cues, cursor, picture, refusals>>

(* The next segment; ffmpeg makes it of a still picture.  screenAt is the  *)
(* frame each segment ends with.                                           *)
Segment ==
  LET i == Len(screenAt) + 1 IN
  /\ stage = "segments"
  /\ i <= slides
  /\ screenAt' = Append(screenAt, Until(screenAt, i - 1) + Frames(wavs[i].len))
  /\ stage' = IF i = slides THEN "subtitles" ELSE stage
  /\ UNCHANGED <<slides, wavs, spoken, cues, cursor, picture, refusals>>

OneFormat == \A i, j \in DOMAIN wavs : wavs[i].fmt = wavs[j].fmt

(* The WAVs are joined, which must have one format, and the subtitles      *)
(* written: the cursor adds up what was not rounded.                       *)
Cue ==
  LET i == Len(cues) + 1
      ends == cursor + wavs[i].len
  IN
  /\ stage = "subtitles" /\ OneFormat
  /\ i <= slides
  /\ cues' = Append(cues, [start |-> Printed(cursor), end |-> Printed(ends)])
  /\ cursor' = ends
  /\ stage' = IF i = slides THEN "video" ELSE stage
  /\ UNCHANGED <<slides, wavs, spoken, screenAt, picture, refusals>>

(* The synthesis, the loading of a font that a narrow picture leaves       *)
(* without a size, ffmpeg or the joining of two formats fails.             *)
RenderRaises ==
  /\ stage \in {"speak", "segments", "subtitles"}
  /\ stage' = "raised"
  /\ UNCHANGED <<slides, wavs, spoken, screenAt, cues, cursor, picture, refusals>>

(* ffmpeg ends the output with the narration: the pictures that begin      *)
(* before that stay, and the file is as long as the longer of its streams. *)
Shown == LET begun == (Total + PerFrame - 1) \div PerFrame
             made == screenAt[slides]
         IN  IF made < begun THEN made ELSE begun
Duration == IF Shown * PerFrame > Total THEN Shown * PerFrame ELSE Total

(* check_video of the file, which has both streams; how loud it is depends *)
(* on the synthesis.                                                       *)
CheckVideo(silent) ==
  /\ stage = "video"
  /\ refusals' =
       {f \in {"size", "ratio", "length", "silence"} :
          CASE f = "size"    -> picture[1] < Smallest[1] \/ picture[2] < Smallest[2]
            [] f = "ratio"   -> picture[1] * 16 # picture[2] * 9
            [] f = "length"  -> ~(0 < Duration /\ Duration <= MaxTotal)
            [] f = "silence" -> silent}
  /\ stage' = "checked"
  /\ UNCHANGED <<slides, wavs, spoken, screenAt, cues, cursor, picture>>

VideoNext ==
  \/ \E shape \in Shapes, n \in 0..(MaxSlides + 1) :
       \E titles \in [1..n -> BOOLEAN] : Parse(shape, titles)
  \/ \E wav \in Wavs : Speak(wav)
  \/ Admit \/ Segment \/ Cue \/ RenderRaises
  \/ \E silent \in BOOLEAN : CheckVideo(silent)

VideoSpec == VideoInit /\ [][VideoNext]_videoVars

-----------------------------------------------------------------------------
(* Properties                                                              *)

VideoTypeOK ==
  /\ slides \in Nat /\ cursor \in Nat
  /\ wavs \in Seq(Wavs) /\ Len(wavs) <= slides
  /\ spoken \in Seq(Nat) /\ Len(spoken) = Len(wavs)
  /\ stage \in Stages
  /\ screenAt \in Seq(Nat) /\ Len(screenAt) <= Len(wavs)
  /\ cues \in Seq([start : Nat, end : Nat]) /\ Len(cues) <= Len(screenAt)
  /\ picture \in Int \X Int
  /\ refusals \subseteq {"size", "ratio", "length", "silence"}

Distance(a, b) == IF a >= b THEN a - b ELSE b - a

(* Screen and voice change together (renderer.py:8-10): after n slides     *)
(* they are at most n half frames apart, n frames where a slide was spoken *)
(* in less than half a frame and is shown for one.                         *)
NoneShort == \A i \in DOMAIN wavs : PerFrame <= 2 * wavs[i].len
ScreenFollowsVoice ==
  \A n \in 1..Len(screenAt) :
    LET apart == Distance(screenAt[n] * PerFrame, spoken[n]) IN
    /\ apart <= n * PerFrame
    /\ NoneShort => 2 * apart <= n * PerFrame

(* The subtitles leave no gap and do not overlap, and each of them is      *)
(* within half a hundredth of its narration, however many went before      *)
(* (subtitles.py:29).                                                      *)
SubtitlesMeet ==
  \A n \in 1..Len(cues) :
    /\ n > 1 => cues[n].start = cues[n - 1].end
    /\ cues[n].start <= cues[n].end
    /\ 2 * Distance(cues[n].start * PerCenti, Until(spoken, n - 1)) <= PerCenti
    /\ 2 * Distance(cues[n].end * PerCenti, spoken[n]) <= PerCenti

(* The gate (quality.py:53-99) has nothing against what the renderer lets  *)
(* through but its sound and its size: however the frames are rounded, no  *)
(* video admitted by the length of its narration is too long as a file.    *)
GateAgrees == refusals \subseteq {"silence"} \cup
                (IF picture[1] < Smallest[1] THEN {"size"} ELSE {})

(* Screen, voice and subtitles keep in step, whatever the lengths are, and *)
(* the gate judges the video that was asked for.                           *)
KeepsInStep == ScreenFollowsVoice /\ SubtitlesMeet /\ GateAgrees
=============================================================================
