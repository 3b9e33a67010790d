------------------------------- MODULE Alerts -------------------------------
(***************************************************************************)
(* One call of dispatch_alert (notify/): the cause is asked of the model,  *)
(* the alert recorded in run_event, a message sent to Discord.  Each of    *)
(* the three may fail, and the process may die between them; no failure    *)
(* goes to the caller.  Texts are represented by their lengths, 0 is a     *)
(* text that is missing or empty.                                          *)
(***************************************************************************)
EXTENDS Integers, Sequences, SequencesExt

CONSTANTS
  TextLengths,   \* the lengths of a raw error, a cause, a value
  ClassLengths,  \* those of the names of the error classes
  Label,         \* what a line has before its text
  MaxValues,     \* bound: entries of an alert's context
  CauseMax,      \* the limit of _first_line
  RawMax,        \* _RAW_MAX_CHARS
  ValueMax,      \* _VALUE_MAX_CHARS
  DescMax        \* _DESC_MAX_CHARS

ASSUME LengthsAssumption ==
  /\ TextLengths \subseteq Nat /\ ClassLengths \subseteq Nat /\ Label \in Nat
  /\ {CauseMax, RawMax, ValueMax, DescMax} \subseteq Nat \ {0}

(* The class, the cause and the raw error fit a message together.          *)
ASSUME PriorityFits ==
  \A c \in ClassLengths \cup {0} : 3 * (Label + 1) + c + CauseMax + RawMax < DescMax

VARIABLES
  alert,     \* the alert, with what has been found out about it
  dispatch,  \* where dispatch_alert is
  row,       \* the run_event rows it has stored
  message,   \* the messages that have arrived
  result     \* the DispatchResult

alertVars == <<alert, dispatch, row, message, result>>

Severities == {"error", "info"}
AlertSet == [severity : Severities, class : ClassLengths \cup {0},
             raw : TextLengths \cup {0}, cause : Nat, context : Seq(TextLengths)]
Blank == [severity |-> "info", class |-> 0, raw |-> 0, cause |-> 0,
          context |-> <<>>]
NoFlags == [recorded |-> FALSE, delivered |-> FALSE, analyzed |-> FALSE]

AlertsInit ==
  /\ alert = Blank /\ dispatch = "idle"
  /\ row = <<>> /\ message = <<>> /\ result = NoFlags

-----------------------------------------------------------------------------
(* discord_payload                                                         *)

Truncated(len, limit) == IF len <= limit THEN len ELSE limit

LineIf(what, len) == IF len = 0 THEN <<>> ELSE <<[what |-> what, len |-> Label + len]>>

(* Mutant: the raw error goes into the message as it is.                   *)
MessageLinesRaw(a) ==
  LineIf("class", a.class) \o LineIf("cause", a.cause) \o LineIf("raw", a.raw)
    \o [k \in DOMAIN a.context |->
          [what |-> "value", len |-> Label + Truncated(a.context[k], ValueMax)]]

(* What matters more comes first; a value of the context has a line even   *)
(* if it is empty.                                                         *)
MessageLines(a) ==
  LineIf("class", a.class) \o LineIf("cause", a.cause)
    \o LineIf("raw", Truncated(a.raw, RawMax))
    \o [k \in DOMAIN a.context |->
          [what |-> "value", len |-> Label + Truncated(a.context[k], ValueMax)]]

(* Lines are joined with a newline, so the first n of them end here.       *)
EndOf(lines, n) ==
  FoldLeft(LAMBDA sum, line : sum + line.len + 1, 0, SubSeq(lines, 1, n)) - 1

(* The description is cut off at its limit, the last character of which is *)
(* then an ellipsis.                                                       *)
Payload(a) ==
  LET lines == MessageLines(a)
      all   == EndOf(lines, Len(lines))
      kept  == IF all <= DescMax THEN all ELSE DescMax - 1
  IN  [len   |-> IF lines = <<>> THEN 0 ELSE Truncated(all, DescMax),
       whole |-> {lines[n].what : n \in
                   {m \in DOMAIN lines : EndOf(lines, m) <= kept}},
       cause |-> a.cause]

-----------------------------------------------------------------------------
(* The places that raise an alert do so without a cause.  An error has a   *)
(* raw text or a class, or neither; what is no error has only context.     *)
RaiseAlert(severity, class, raw, context) ==
  /\ dispatch = "idle"
  /\ severity = "info" => class = 0 /\ raw = 0
  /\ alert' = [severity |-> severity, class |-> class, raw |-> raw,
               cause |-> 0, context |-> context]
  /\ dispatch' = "analyze"
  /\ UNCHANGED <<row, message, result>>

(* The model is asked, if there is one, about an error there is something  *)
(* to analyze of; the first line of its answer is kept to CauseMax.        *)
Analyze(answer) ==
  /\ dispatch = "analyze"
  /\ alert.severity = "error" /\ (alert.raw # 0 \/ alert.class # 0)
  /\ alert' = [alert EXCEPT !.cause = Truncated(answer, CauseMax)]
  /\ result' = [result EXCEPT !.analyzed = (answer # 0)]
  /\ dispatch' = "record"
  /\ UNCHANGED <<row, message>>

(* There is no model, it fails, or there is nothing to ask it.             *)
NotAnalyzed ==
  /\ dispatch = "analyze"
  /\ dispatch' = "record"
  /\ UNCHANGED <<alert, row, message, result>>

(* The sink stores the row or fails; the reply to its commit may be lost.  *)
Record(stored, replied) ==
  /\ dispatch = "record"
  /\ replied => stored
  /\ row' = IF stored THEN Append(row, alert) ELSE row
  /\ result' = [result EXCEPT !.recorded = replied]
  /\ dispatch' = "send"
  /\ UNCHANGED <<alert, message>>

(* The message arrives or not; a webhook that has accepted it may still    *)
(* fail for the sender.                                                    *)
Send(arrived, accepted) ==
  /\ dispatch = "send"
  /\ accepted => arrived
  /\ message' = IF arrived THEN Append(message, Payload(alert)) ELSE message
  /\ result' = [result EXCEPT !.delivered = accepted]
  /\ dispatch' = "returned"
  /\ UNCHANGED <<alert, row>>

(* No webhook is configured.                                               *)
NoSender ==
  /\ dispatch = "send"
  /\ dispatch' = "returned"
  /\ UNCHANGED <<alert, row, message, result>>

(* The process dies.                                                       *)
AlertLost ==
  /\ dispatch \notin {"idle", "returned", "died"}
  /\ dispatch' = "died"
  /\ UNCHANGED <<alert, row, message, result>>

Contexts == UNION {[1..n -> TextLengths] : n \in 0..MaxValues}

AlertsNext ==
  \/ \E severity \in Severities, class \in ClassLengths \cup {0},
        raw \in TextLengths \cup {0}, context \in Contexts :
       RaiseAlert(severity, class, raw, context)
  \/ \E answer \in TextLengths : Analyze(answer)
  \/ NotAnalyzed
  \/ \E stored, replied \in BOOLEAN : Record(stored, replied)
  \/ \E arrived, accepted \in BOOLEAN : Send(arrived, accepted)
  \/ NoSender \/ AlertLost

AlertsSpec == AlertsInit /\ [][AlertsNext]_alertVars

-----------------------------------------------------------------------------
(* Properties                                                              *)

AlertsTypeOK ==
  /\ alert \in AlertSet
  /\ dispatch \in {"idle", "analyze", "record", "send", "returned", "died"}
  /\ row \in Seq(AlertSet) /\ Len(row) <= 1
  /\ message \in Seq([len : Nat, whole : SUBSET {"class", "cause", "raw", "value"},
                      cause : Nat])
  /\ Len(message) <= 1
  /\ result \in [recorded : BOOLEAN, delivered : BOOLEAN, analyzed : BOOLEAN]

(* What is told is whole and agrees (FR-W4, dispatch.py:8-13, discord.py:  *)
(* 28-30): a message is never too long to be accepted, and only the        *)
(* context is cut to make it so, the class is in it whether or not a cause *)
(* was found; the row tells the same; and the flags a caller gets promise  *)
(* nothing that did not happen.                                            *)
ShortAndWhole(a, m) ==
  /\ m.len <= DescMax
  /\ a.class # 0 => "class" \in m.whole
  /\ a.cause # 0 => "cause" \in m.whole
  /\ a.raw   # 0 => "raw" \in m.whole
AlertTold ==
  /\ \A i \in DOMAIN message : ShortAndWhole(alert, message[i])
  /\ \A i \in DOMAIN row, j \in DOMAIN message : row[i].cause = message[j].cause
  /\ result.recorded => row # <<>>
  /\ result.delivered => message # <<>>
  /\ result.analyzed <=> alert.cause # 0
=============================================================================
