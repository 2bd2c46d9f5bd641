------------------------------- MODULE KakaoText -------------------------------
(***************************************************************************)
(* How the text of a notice becomes KakaoTalk messages                     *)
(* (batch/src/messaging/kakao.py) and what the admin page shows of them    *)
(* beforehand (shared/kakao_format.py).                                    *)
(*                                                                         *)
(* A text is a sequence of lines.  A line is known by where it comes from  *)
(* and by its length: at[1] is the image it was read from, 0 for the lines *)
(* this program adds.                                                      *)
(***************************************************************************)
EXTENDS Integers, Sequences, SequencesExt, FiniteSetsExt

CONSTANTS
  MaxText,    \* _MAX: a longer text is cut into chunks
  Cap,        \* send_text sends no more characters than this
  LabelSize   \* characters of " (i/n)"

ASSUME SizesAssumption ==
  /\ MaxText \in Nat /\ LabelSize \in Nat /\ Cap \in Nat
  /\ MaxText > 10 /\ MaxText + LabelSize <= Cap

Own(k, size) == [at |-> <<0, k>>, size |-> size]
Marker    == Own(0, 0)      \* [일정 정리] on a line of its own
Blank     == Own(1, 0)
Separator == <<Blank, Own(2, 3), Blank>>
ContentHead  == <<Own(3, 2), Blank, Own(4, 1), Blank>>   \* kind, title
ScheduleHead == <<Own(5, 2), Blank, Own(4, 1), Blank>>

Written(line) == line.size > 0
Told(line) == line.at[1] > 0 /\ Written(line)

\* Characters of lines joined by newlines.
Size(lines) ==
  LET upTo[i \in 0..Len(lines)] ==
        IF i = 0 THEN 0
        ELSE upTo[i - 1] + lines[i].size + (IF i = 1 THEN 0 ELSE 1)
  IN upTo[Len(lines)]

\* str.strip()
Strip(lines) ==
  LET written == {i \in DOMAIN lines : Written(lines[i])} IN
    IF written = {} THEN <<>> ELSE SubSeq(lines, Min(written), Max(written))

\* Parts(text)[k] for k up to 2, `summary.split("[일정 정리]")`.
Markers(text) == {i \in DOMAIN text : text[i] = Marker}
EndOf(text, from) ==
  LET next == {i \in Markers(text) : i > from} IN
    IF next = {} THEN Len(text) ELSE Min(next) - 1
ContentPart(text) == Strip(SubSeq(text, 1, EndOf(text, 0)))
SchedulePart(text) ==
  IF Markers(text) = {} THEN <<>>
  ELSE LET first == Min(Markers(text)) IN
         Strip(SubSeq(text, first + 1, EndOf(text, first)))

-----------------------------------------------------------------------------
(* _send_chunked and send_text *)

\* An empty `current` is replaced by the next line, not continued by it.
Joined(current, line) == IF Size(current) = 0 THEN <<line>> ELSE Append(current, line)
NoLabelRoom(current, line) == Size(current) + line.size > Cap   \* for comparison
Overflows(current, line) == Size(current) + line.size + 1 > MaxText

JoinOnly(state, line) ==                \* for comparison: the line goes missing
  IF Overflows(state.current, line)
    THEN [chunks |-> Append(state.chunks, state.current), current |-> <<>>]
    ELSE [state EXCEPT !.current = Joined(@, line)]
AddLine(state, line) ==
  IF Overflows(state.current, line)
    THEN [chunks |-> Append(state.chunks, state.current), current |-> <<line>>]
    ELSE [state EXCEPT !.current = Joined(@, line)]

Chunks(text) ==
  LET after[i \in 0..Len(text)] ==
        IF i = 0 THEN [chunks |-> <<>>, current |-> <<>>]
        ELSE AddLine(after[i - 1], text[i])
      end == after[Len(text)]
  IN IF Size(end.current) > 0 THEN Append(end.chunks, end.current) ELSE end.chunks

\* message[:2000], label included
Message(lines, labelled) ==
  [lines |-> lines, size |-> Size(lines) + (IF labelled THEN LabelSize ELSE 0)]

Split(text) ==
  LET chunks == Chunks(text) IN
    IF Size(text) <= MaxText THEN <<Message(text, FALSE)>>
    ELSE [i \in DOMAIN chunks |-> Message(chunks[i], Len(chunks) > 1)]

\* send_notice_summary; the line after the title is there even if nothing follows.
NoticeMessages(text) ==
  LET content  == ContentPart(text)
      schedule == SchedulePart(text)
  IN Split(ContentHead \o (IF content = <<>> THEN <<Blank>> ELSE content))
     \o (IF schedule = <<>> THEN <<>> ELSE Split(ScheduleHead \o schedule))

TitleMessage == <<Message(SubSeq(ContentHead, 1, 3), FALSE)>>

\* The lines at some positions, in order.
Pick(lines, at) ==
  FlattenSeq([i \in DOMAIN lines |-> IF i \in at THEN <<lines[i]>> ELSE <<>>])

\* The lines of a message that arrive whole.
Received(message) ==
  Pick(message.lines, {i \in DOMAIN message.lines :
                         Told(message.lines[i]) /\ Size(SubSeq(message.lines, 1, i)) <= Cap})
Heard(messages) == FlattenSeq([i \in DOMAIN messages |-> Received(messages[i])])

\* What of a text can arrive at all: no message holds a line longer than Cap, and
\* nothing is sent of what follows a second marker.
Fitting(lines) == {i \in DOMAIN lines : Told(lines[i]) /\ lines[i].size <= Cap}
BeforeSecondMarker(lines) ==
  Pick(lines, {i \in Fitting(lines) : Cardinality({j \in Markers(lines) : j < i}) < 2})

-----------------------------------------------------------------------------
(* reconstruct_kakao_messages for a notice: whole parts, never cut *)

FirstPartOnly(text) ==                  \* for comparison
  IF ContentPart(text) = <<>> THEN <<>> ELSE <<ContentHead \o ContentPart(text)>>
Preview(text) ==
  (IF ContentPart(text) = <<>> THEN <<>> ELSE <<ContentHead \o ContentPart(text)>>)
  \o (IF SchedulePart(text) = <<>> THEN <<>> ELSE <<ScheduleHead \o SchedulePart(text)>>)
===============================================================================
