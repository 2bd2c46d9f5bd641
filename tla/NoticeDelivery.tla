---------------------------- MODULE NoticeDelivery ----------------------------
(***************************************************************************)
(* What becomes of one notice: its images are downloaded to a directory    *)
(* that stays from attempt to attempt and is shared by every run           *)
(* (crawler/image_downloader.py), each image is turned into text           *)
(* (notice/summarizer.py), the text is sent in messages and stored         *)
(* (batch.py), and an administrator may send the stored text again         *)
(* (api/src/main.py).  BatchMonitor has the notices of a board one after   *)
(* the other; here is the inside of one.                                   *)
(*                                                                         *)
(* An element of Runs is a batch process that found the notice new; cron   *)
(* may start one while another still works.                                *)
(***************************************************************************)
EXTENDS KakaoText, FiniteSets

CONSTANTS
  Runs,
  Admin,         \* the API process that serves POST /api/posts/{id}/resend
  MaxImages,     \* bound: images of the notice
  FileNames,     \* how the URLs may be named: FileNames[n][i] is the last path
                 \* segment of URL i, or "" if it has none that serves as a name
  Texts,         \* bound: what the command line tool may answer for an image,
                 \* as line lengths; MarkerLine is the schedule marker
  MarkerLine,
  MaxAttempts,   \* _NOTICE_MAX_RETRIES + 1
  MaxFaults      \* bound: failures

ASSUME NoticeAssumption ==
  /\ Admin \notin Runs
  /\ MaxImages \in Nat /\ MaxAttempts \in Nat \ {0} /\ MaxFaults \in Nat
  /\ MarkerLine \notin Nat
  /\ Texts \subseteq Seq(Nat \cup {MarkerLine})

Senders == Runs \cup {Admin}

VARIABLES
  notice,    \* the post: number of images and their names; never changes
  disk,      \* files of the directory: path |-> what was written to it, and
             \* who emptied it last
  row,       \* the row in posts: status and summary
  faults,
  pc,
  attempt,
  urls,      \* image_urls: the images that this attempt found on the page
  url,       \* index in urls of the image being downloaded
  got,       \* saved_paths
  answers,   \* summaries, with the image each was read from
  text,      \* the summary being sent
  out,       \* messages still to send
  phone      \* history: messages of the present attempt that arrived

locals == <<attempt, urls, url, got, answers, text, out, phone>>
vars   == <<notice, disk, row, faults, pc, locals>>

Images == 1..notice.count
NoRow  == [status |-> "none", summary |-> <<>>]

Fault == faults < MaxFaults /\ faults' = faults + 1

-----------------------------------------------------------------------------
(* Files *)

Image(r) == urls[r][url[r]]

\* _extract_filename: a URL without a name gets image_0007, which is its place in
\* the list, and its extension when the type is known.
Nameless(i) == notice.names[i] = ""
Path(r, typed) ==
  IF Nameless(Image(r)) THEN <<url[r], IF typed THEN "jpg" ELSE "bare">>
                        ELSE <<0, notice.names[Image(r)]>>

Exists(path) == path \in DOMAIN disk
Others(r) == {q \in Runs \ {r} : pc[q] = "stream" /\ Path(q, TRUE) = Path(r, TRUE)}
Write(r, by, whole) ==
  disk' = [f \in DOMAIN disk \cup {Path(r, TRUE)} |->
            IF f = Path(r, TRUE) THEN [of |-> Image(r), by |-> by, whole |-> whole]
                                 ELSE disk[f]]

\* "\n\n---\n\n".join(summaries), line by line
Answer(i, t) ==
  [k \in DOMAIN t |-> IF t[k] = MarkerLine THEN Marker
                      ELSE IF t[k] = 0 THEN Blank ELSE [at |-> <<i, k>>, size |-> t[k]]]
Combined(list) ==
  FlattenSeq([k \in DOMAIN list |->
               IF k = 1 THEN list[k].lines ELSE Separator \o list[k].lines])

-----------------------------------------------------------------------------
(* Pieces of the actions *)

Goto(p, label) == pc' = [pc EXCEPT ![p] = label]

\* The locals of an attempt go; attempt number n begins at label, if any does.
Restart(p, n, label) ==
  /\ Goto(p, label)
  /\ attempt' = [attempt EXCEPT ![p] = n]
  /\ urls' = [urls EXCEPT ![p] = <<>>]
  /\ url' = [url EXCEPT ![p] = 1]
  /\ got' = [got EXCEPT ![p] = <<>>]
  /\ answers' = [answers EXCEPT ![p] = <<>>]
  /\ text' = [text EXCEPT ![p] = <<>>]
  /\ out' = [out EXCEPT ![p] = <<>>]
  /\ phone' = [phone EXCEPT ![p] = <<>>]

End(p) == Restart(p, 1, "idle")

\* An exception leaves _process_notice_article_once.
Raise(p) ==
  IF attempt[p] < MaxAttempts THEN Restart(p, attempt[p] + 1, "detail")
                              ELSE Restart(p, attempt[p], "fail")

NextUrl(r) ==
  /\ url' = [url EXCEPT ![r] = @ + 1]
  /\ Goto(r, "url")
  /\ UNCHANGED <<attempt, urls, answers, text, out, phone>>

Saved(r, path) == got' = [got EXCEPT ![r] = Append(@, path)] /\ NextUrl(r)
PathAnyway(r) == Saved(r, Path(r, TRUE))   \* for comparison
Dropped(r) == UNCHANGED got /\ NextUrl(r)

-----------------------------------------------------------------------------
Init ==
  /\ notice \in [count : 0..MaxImages, names : FileNames]
  /\ disk = <<>>
  /\ row = NoRow
  /\ faults = 0
  /\ pc = [p \in Senders |-> "idle"]
  /\ attempt = [p \in Senders |-> 1]
  /\ urls = [p \in Senders |-> <<>>]
  /\ url = [p \in Senders |-> 1]
  /\ got = [p \in Senders |-> <<>>]
  /\ answers = [p \in Senders |-> <<>>]
  /\ text = [p \in Senders |-> <<>>]
  /\ out = [p \in Senders |-> <<>>]
  /\ phone = [p \in Senders |-> <<>>]

\* The notice is on the page and has no row.
Begin(r) ==
  /\ pc[r] = "idle" /\ row.status = "none"
  /\ Goto(r, "detail")
  /\ UNCHANGED <<notice, disk, row, faults, locals>>

\* What _fetch_post_detail may find two seconds after the page: every image, or,
\* without an exception, some or none of them, when the body is not there yet or
\* an image is still a "data:" placeholder.
Lists == {list \in UNION {[1..n -> Images] : n \in 0..notice.count} :
            \A j, k \in DOMAIN list : j < k => list[j] < list[k]}

FetchDetail(r) ==
  /\ pc[r] = "detail"
  /\ \E list \in Lists :
       /\ urls' = [urls EXCEPT ![r] = list]
       /\ IF list = <<>>
            THEN Goto(r, "send") /\ out' = [out EXCEPT ![r] = TitleMessage]
            ELSE Goto(r, "url") /\ UNCHANGED out
  /\ UNCHANGED <<notice, disk, row, faults, attempt, url, got, answers, text, phone>>

-----------------------------------------------------------------------------
(* download_all *)

\* HEAD, whose failure is ignored, then save_path.exists().
LeaveOut(r, typed) ==                   \* for comparison: skipped for good
  /\ Exists(Path(r, typed))
  /\ Dropped(r)
SkipExisting(r, typed) ==
  /\ Exists(Path(r, typed))
  /\ Saved(r, Path(r, typed))
CheckFile(r) ==
  /\ pc[r] = "url" /\ url[r] \in DOMAIN urls[r]
  /\ \E typed \in BOOLEAN :
       /\ IF typed THEN UNCHANGED faults ELSE Fault
       /\ \/ SkipExisting(r, typed)
          \/ ~Exists(Path(r, typed)) /\ Goto(r, "get") /\ UNCHANGED locals
  /\ UNCHANGED <<notice, disk, row>>

\* The GET answers and the file is opened, which empties it.
Get(r) ==
  /\ pc[r] = "get"
  /\ Write(r, r, FALSE)
  /\ Goto(r, "stream")
  /\ UNCHANGED <<notice, row, faults, locals>>

GetFails(r) ==
  /\ pc[r] = "get"
  /\ Fault
  /\ Dropped(r)
  /\ UNCHANGED <<notice, disk, row>>

\* The last chunk.  Of the runs that write one file at a time, the one that opened
\* it last writes all of it; the others write the same bytes over these, or, if
\* their URLs only share a name, other bytes.  Without the last one a hole may be
\* left where it began.
Stored(r) ==
  LET file == disk[Path(r, TRUE)]
      same == file.of = Image(r) /\ \A q \in Others(r) : Image(q) = Image(r)
      sure == same /\ (file.whole \/ file.by = r)
  IN \E whole \in BOOLEAN : (sure => whole) /\ Write(r, file.by, whole)
Finish(r) ==
  /\ pc[r] = "stream"
  /\ Stored(r)
  /\ Saved(r, Path(r, TRUE))
  /\ UNCHANGED <<notice, row, faults>>

\* The connection breaks: logged, skipped, and the file stays as far as it got.
StreamBreaks(r) ==
  /\ pc[r] = "stream"
  /\ Fault
  /\ Dropped(r)
  /\ UNCHANGED <<notice, disk, row>>

Downloaded(r) ==
  /\ pc[r] = "url" /\ url[r] \notin DOMAIN urls[r]
  /\ IF got[r] = <<>> THEN Raise(r) ELSE Goto(r, "analyse") /\ UNCHANGED locals
  /\ UNCHANGED <<notice, disk, row, faults>>

-----------------------------------------------------------------------------
(* analyze_image, one path after the other; the image library refuses a file *)
(* that stops in the middle                                                   *)

ToRead(r) == got[r][Len(answers[r]) + 1]
Analyse(r) ==
  /\ pc[r] = "analyse" /\ Len(answers[r]) < Len(got[r])
  /\ disk[ToRead(r)].whole
  /\ \E t \in Texts :
       LET i == disk[ToRead(r)].of IN
         answers' = [answers EXCEPT ![r] = Append(@, [of |-> i, lines |-> Answer(i, t)])]
  /\ UNCHANGED <<notice, disk, row, faults, pc, attempt, urls, url, got, text, out, phone>>

CannotRead(r) ==
  /\ pc[r] = "analyse" /\ Len(answers[r]) < Len(got[r])
  /\ ~disk[ToRead(r)].whole
  /\ Raise(r)
  /\ UNCHANGED <<notice, disk, row, faults>>

\* The page does not load; the tool ends with an error or after its 120 seconds.
CallRaises(r) ==
  /\ pc[r] \in {"detail", "analyse"}
  /\ Fault
  /\ Raise(r)
  /\ UNCHANGED <<notice, disk, row>>

Compose(r) ==
  /\ pc[r] = "analyse" /\ Len(answers[r]) = Len(got[r])
  /\ text' = [text EXCEPT ![r] = Combined(answers[r])]
  /\ out' = [out EXCEPT ![r] = NoticeMessages(Combined(answers[r]))]
  /\ Goto(r, "send")
  /\ UNCHANGED <<notice, disk, row, faults, attempt, urls, url, got, answers, phone>>

-----------------------------------------------------------------------------
(* Messages, of a run and of the administrator *)

Deliver(p) == phone' = [phone EXCEPT ![p] = Append(@, Head(out[p]))]

Send(p) ==
  /\ pc[p] = "send"
  /\ Deliver(p)
  /\ out' = [out EXCEPT ![p] = Tail(@)]
  /\ IF Len(out[p]) = 1 THEN Goto(p, "sent") ELSE UNCHANGED pc
  /\ UNCHANGED <<notice, disk, row, faults, attempt, urls, url, got, answers, text>>

\* Delivered or not, the rest stays unsent and the next attempt sends all again;
\* the administrator gets an error.
SendRaises(p) ==
  /\ pc[p] = "send"
  /\ Fault
  /\ IF p = Admin THEN End(p) ELSE Raise(p)
  /\ UNCHANGED <<notice, disk, row>>

\* Saved with the status and the summary; BatchMonitor has the save that fails.
Save(r) ==
  /\ pc[r] = "sent"
  /\ row' = [status |-> "SUCCESS", summary |-> text[r]]
  /\ End(r)
  /\ UNCHANGED <<notice, disk, faults>>

\* The summary of a FAIL row is the error, nothing that could be sent.
SaveFail(r) ==
  /\ pc[r] = "fail"
  /\ row' = [status |-> "FAIL", summary |-> <<>>]
  /\ End(r)
  /\ UNCHANGED <<notice, disk, faults>>

\* resend_post of the row as it is now.
Resend ==
  /\ pc[Admin] = "idle"
  /\ row.status = "SUCCESS" /\ Strip(row.summary) # <<>>
  /\ text' = [text EXCEPT ![Admin] = row.summary]
  /\ out' = [out EXCEPT ![Admin] = NoticeMessages(row.summary)]
  /\ Goto(Admin, "send")
  /\ UNCHANGED <<notice, disk, row, faults, attempt, urls, url, got, answers, phone>>

Resent ==
  /\ pc[Admin] = "sent"
  /\ End(Admin)
  /\ UNCHANGED <<notice, disk, row, faults>>

\* The process is killed, or the machine restarts; the files stay.
Crash(r) ==
  /\ pc[r] # "idle"
  /\ Fault
  /\ End(r)
  /\ UNCHANGED <<notice, disk, row>>

Work(r) == \/ FetchDetail(r) \/ CheckFile(r) \/ Get(r) \/ GetFails(r)
           \/ Finish(r) \/ StreamBreaks(r) \/ Downloaded(r)
           \/ Analyse(r) \/ CannotRead(r) \/ CallRaises(r) \/ Compose(r)
           \/ Send(r) \/ SendRaises(r) \/ Save(r) \/ SaveFail(r)

Next == \/ \E r \in Runs : Begin(r) \/ Work(r) \/ Crash(r)
        \/ Resend \/ Resent \/ Send(Admin) \/ SendRaises(Admin)

Spec == Init /\ [][Next]_vars

-----------------------------------------------------------------------------
(* Properties *)

Labels == {"idle", "detail", "url", "get", "stream", "analyse", "send", "sent", "fail"}
Paths  == {<<0, notice.names[i]>> : i \in Images} \cup (Images \X {"jpg"})

\* Every variable stays in its range, and a path in saved_paths names a file.
TypeOK ==
  /\ notice.count \in 0..MaxImages /\ notice.names \in FileNames
  /\ DOMAIN disk \subseteq Paths
  /\ \A f \in DOMAIN disk : /\ disk[f].of \in Images
                            /\ disk[f].by \in Runs
                            /\ disk[f].whole \in BOOLEAN
  /\ row.status \in {"none", "SUCCESS", "FAIL"}
  /\ faults \in 0..MaxFaults
  /\ \A p \in Senders :
       /\ pc[p] \in Labels
       /\ attempt[p] \in 1..MaxAttempts
       /\ urls[p] \in Lists /\ url[p] \in 1..(Len(urls[p]) + 1)
       /\ \A k \in DOMAIN got[p] : got[p][k] \in DOMAIN disk
       /\ Len(answers[p]) <= Len(got[p])

\* kakao.py:124 promises the whole text and the schedule: whatever failures came
\* before, once the last message is out, by a run or by the administrator, the
\* phone has every line of the text in order and once.  Two losses are known: what
\* follows a second schedule marker, that is the schedule of a second image, and
\* a line that alone is longer than a message.
ArrivesInOrder ==
  \A p \in Senders :
    pc[p] = "sent" => Heard(phone[p]) = BeforeSecondMarker(text[p])

\* send_text cuts a message and _send_chunked sends one without any text only
\* around a line that leaves no room beside it.
NoNeedlessCut ==
  \A p \in Senders : \A k \in DOMAIN phone[p] :
    LET message == phone[p][k] IN
      (message.size > Cap \/ ~\E i \in DOMAIN message.lines : Written(message.lines[i]))
        => \E i \in DOMAIN text[p] : text[p][i].size >= MaxText

\* Of the images that the page showed, every one that is not in a message was lost
\* to a failure: skipping files that exist, retries and runs that share the
\* directory lose none and put no image in the place of another, as long as every
\* URL has a name of its own.  What the page did not show is lost without any
\* failure, up to a notice with images that is sent with its title only.
DistinctNames ==
  \A i, j \in Images : /\ ~Nameless(i)
                       /\ i # j => notice.names[i] # notice.names[j]
Shown(p)    == {urls[p][k] : k \in DOMAIN urls[p]}
ImagesIn(p) == {answers[p][k].of : k \in DOMAIN answers[p]}
MissingPaidByFaults ==
  \A r \in Runs :
    pc[r] = "sent" /\ DistinctNames => Cardinality(Shown(r) \ ImagesIn(r)) <= faults

\* kakao_format.py:15 promises the messages that a resend will really send, each shown
\* in one piece even if it is too long for one message.  There is one exception, in
\* which the promise is broken: of a text that begins with the marker the page leaves
\* out the message with the heading alone, which is sent (kakao_format.py:39,
\* kakao.py:132).  All the rest, from the number of messages to where they are cut, is
\* as shown.
AllOf(blocks) == FlattenSeq([k \in DOMAIN blocks |-> Split(blocks[k])])
HeadingAlone(lines) ==
  IF ContentPart(lines) = <<>> THEN Split(ContentHead \o <<Blank>>) ELSE <<>>
ResendAsShown ==
  pc[Admin] = "sent" =>
    phone[Admin] = HeadingAlone(text[Admin]) \o AllOf(Preview(text[Admin]))

\* image_downloader.py:100 returns the files that were saved successfully.
SavedOnly == \A r \in Runs : \A k \in DOMAIN got[r] : disk[got[r][k]].whole
===============================================================================
