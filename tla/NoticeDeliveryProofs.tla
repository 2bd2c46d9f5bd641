------------------------- MODULE NoticeDeliveryProofs -------------------------
(***************************************************************************)
(* What holds of NoticeDelivery for every number of images, file names,    *)
(* runs that share the directory, attempts and failures.                   *)
(***************************************************************************)
EXTENDS NoticeDelivery, KakaoTextProofs

\* What the analysis of an image may leave.
Replies == {[of |-> i, lines |-> Answer(i, t)] : i \in Images, t \in Texts}

Entry == [of : Images, by : Runs, whole : BOOLEAN]

Opened(p) == pc[p] = "stream" => Path(p, TRUE) \in DOMAIN disk

InList(p) ==
  /\ Opened(p)
  /\ Len(answers[p]) <= Len(got[p])
  /\ url[p] \in 1..(Len(urls[p]) + 1)
  /\ pc[p] \in {"get", "stream"} => url[p] \in DOMAIN urls[p]
  /\ pc[p] \in {"idle", "detail"} => url[p] = 1

TypeInv ==
  /\ notice \in [count : 0..MaxImages, names : FileNames]
  /\ disk \in [DOMAIN disk -> Entry]
  /\ DOMAIN disk \subseteq Paths
  /\ row.status \in {"none", "SUCCESS", "FAIL"}
  /\ faults \in 0..MaxFaults
  /\ pc \in [Senders -> Labels]
  /\ attempt \in [Senders -> 1..MaxAttempts]
  /\ urls \in [Senders -> Lists]
  /\ url \in [Senders -> Nat]
  /\ got \in [Senders -> Seq(DOMAIN disk)]
  /\ answers \in [Senders -> Seq(Replies)]
  /\ \A p \in Senders : InList(p)

LEMMA WriteFacts ==
  ASSUME NEW r, NEW by, NEW whole, Write(r, by, whole)
  PROVE  /\ DOMAIN disk' = DOMAIN disk \cup {Path(r, TRUE)}
         /\ disk'[Path(r, TRUE)] = [of |-> Image(r), by |-> by, whole |-> whole]
         /\ \A f \in DOMAIN disk : f # Path(r, TRUE) => disk'[f] = disk[f]
         /\ disk' = [f \in DOMAIN disk' |-> disk'[f]]
  BY DEF Write

\* A list of URLs is a sequence of images, and the empty one is a list.
LEMMA ListFacts ==
  ASSUME TypeInv
  PROVE  /\ <<>> \in Lists
         /\ \A list \in Lists : /\ list \in Seq(Images) /\ Len(list) \in Nat
                                /\ DOMAIN list = 1..Len(list)
                                /\ DOMAIN list \subseteq Images
  <1>1. notice.count \in Nat
    BY NoticeAssumption DEF TypeInv
  <1>2. <<>> \in Lists
    <2>1. <<>> \in [1..0 -> Images] /\ 0 \in 0..notice.count /\ DOMAIN <<>> = {}
      BY <1>1
    <2> QED BY <2>1 DEF Lists
  <1>3. ASSUME NEW list \in Lists
        PROVE  /\ list \in Seq(Images) /\ Len(list) \in Nat
               /\ DOMAIN list = 1..Len(list) /\ DOMAIN list \subseteq Images
    <2>1. PICK n \in 0..notice.count : list \in [1..n -> Images]
      BY DEF Lists
    <2>2. n \in Nat /\ n <= notice.count
      BY <1>1
    <2> HIDE DEF Images
    <2>3. list \in Seq(Images) /\ Len(list) = n
      BY <2>1, <2>2
    <2>4. 1..n \subseteq Images
      BY <1>1, <2>2 DEF Images
    <2> QED BY <2>1, <2>2, <2>3, <2>4
  <1> QED BY <1>2, <1>3

\* The post does not change while it is worked on.
LEMMA NoticeStill == ASSUME [Next]_vars PROVE notice' = notice
  <1>1. CASE UNCHANGED vars
    BY <1>1 DEF vars
  <1>2. ASSUME NEW r \in Runs, Begin(r) \/ Work(r) \/ Crash(r) PROVE notice' = notice
    BY <1>2 DEF Begin, Crash, Work, FetchDetail, CheckFile, Get, GetFails, Finish,
                StreamBreaks, Downloaded, Analyse, CannotRead, CallRaises, Compose,
                Send, SendRaises, Save, SaveFail
  <1>3. CASE Resend \/ Resent \/ Send(Admin) \/ SendRaises(Admin)
    BY <1>3 DEF Resend, Resent, Send, SendRaises
  <1> QED BY <1>1, <1>2, <1>3 DEF Next

LEMMA TypeInit == Init => TypeInv
  <1> SUFFICES ASSUME Init PROVE TypeInv
    OBVIOUS
  <1>1. notice \in [count : 0..MaxImages, names : FileNames]
    BY DEF Init
  <1>2. notice.count \in Nat
    BY <1>1, NoticeAssumption
  <1>3. 1 \in 1..(0 + 1) /\ 1 \in Nat /\ 1 \in 1..MaxAttempts /\ 0 \in 0..MaxFaults
    BY <1>2, NoticeAssumption
  <1>4. \A S : <<>> \in Seq(S) /\ Len(<<>>) <= Len(<<>>) /\ Len(<<>>) = 0
    OBVIOUS
  <1>6. <<>> \in Lists
    <2>1. <<>> \in [1..0 -> Images] /\ 0 \in 0..notice.count /\ DOMAIN <<>> = {}
      BY <1>2
    <2> QED BY <2>1 DEF Lists
  <1>5. DOMAIN disk = {} /\ disk \in [DOMAIN disk -> Entry]
    BY DEF Init
  <1> QED BY <1>1, <1>3, <1>4, <1>5, <1>6 DEF Init, TypeInv, InList, Opened, NoRow, Labels

LEMMA PathStill ==
  ASSUME NEW q, NEW typed, notice' = notice, urls'[q] = urls[q], url'[q] = url[q]
  PROVE  Path(q, typed)' = Path(q, typed) /\ Image(q)' = Image(q)
  BY Zenon DEF Path, Nameless, Image

\* A file that a process writes stays where it is while the process stays.
LEMMA OpenedStays ==
  ASSUME NEW q \in Senders, Opened(q), notice' = notice, pc'[q] = pc[q],
         urls'[q] = urls[q], url'[q] = url[q], DOMAIN disk \subseteq DOMAIN disk'
  PROVE  Opened(q)'
  <1>1. Path(q, TRUE)' = Path(q, TRUE)
    BY PathStill
  <1> QED BY <1>1 DEF Opened

LEMMA SetsStill ==
  ASSUME notice' = notice
  PROVE  /\ Images' = Images /\ Replies' = Replies /\ Paths' = Paths
         /\ Lists' = Lists /\ Entry' = Entry
  BY DEF Images, Replies, Paths, Lists, Entry

\* Locals that start anew are in range, and so is a list that grows by one
\* file that exists.
LEMMA RestartType ==
  ASSUME TypeInv, NEW p \in Senders, NEW n \in 1..MaxAttempts, NEW label \in Labels,
         Restart(p, n, label), label \notin {"get", "stream"},
         notice' = notice, disk' = disk,
         row'.status \in {"none", "SUCCESS", "FAIL"}, faults' \in 0..MaxFaults
  PROVE  TypeInv'
  <1>2. 1 \in Nat /\ 1 \in 1..(0 + 1)
    OBVIOUS
  <1>3. \A S : <<>> \in Seq(S) /\ Len(<<>>) <= Len(<<>>) /\ Len(<<>>) = 0
    OBVIOUS
  <1>4. /\ Images' = Images /\ Replies' = Replies /\ Paths' = Paths
        /\ Lists' = Lists /\ Entry' = Entry
    BY SetsStill
  <1>5. /\ got' = [got EXCEPT ![p] = <<>>] /\ answers' = [answers EXCEPT ![p] = <<>>]
        /\ pc' = [pc EXCEPT ![p] = label] /\ url' = [url EXCEPT ![p] = 1]
        /\ attempt' = [attempt EXCEPT ![p] = n] /\ urls' = [urls EXCEPT ![p] = <<>>]
    BY DEF Restart, Goto
  <1>8. <<>> \in Lists
    BY ListFacts
  <1>6. /\ got' \in [Senders -> Seq(DOMAIN disk')] /\ answers' \in [Senders -> Seq(Replies)]
        /\ pc' \in [Senders -> Labels] /\ url' \in [Senders -> Nat]
        /\ attempt' \in [Senders -> 1..MaxAttempts] /\ urls' \in [Senders -> Lists]
    BY <1>2, <1>3, <1>5, <1>8 DEF TypeInv
  <1>7. \A q \in Senders : InList(q)'
    <2>1. InList(p)'
      BY <1>2, <1>3, <1>5 DEF TypeInv, InList, Opened
    <2>2. ASSUME NEW q \in Senders, q # p PROVE InList(q)'
      <3>1. /\ pc'[q] = pc[q] /\ urls'[q] = urls[q] /\ url'[q] = url[q]
            /\ got'[q] = got[q] /\ answers'[q] = answers[q] /\ InList(q)
        BY <1>5, <2>2 DEF TypeInv
      <3>2. Opened(q)'
        BY <3>1, OpenedStays DEF InList
      <3> QED BY <3>1, <3>2 DEF InList
    <2> QED BY <2>1, <2>2
  <1> QED BY <1>4, <1>6, <1>7 DEF TypeInv

LEMMA FaultType == ASSUME TypeInv, Fault PROVE faults' \in 0..MaxFaults /\ faults' = faults + 1
  BY NoticeAssumption DEF TypeInv, Fault

LEMMA WiderSeq ==
  ASSUME NEW S, NEW T, S \subseteq T, NEW s \in Seq(S)
  PROVE  s \in Seq(T)
  OBVIOUS

LEMMA Naturals == TypeInv => notice.count \in Nat /\ Images \in SUBSET Nat
  BY NoticeAssumption DEF TypeInv, Images

\* An exception begins another attempt or ends in a FAIL row.
LEMMA RaiseType ==
  ASSUME TypeInv, NEW p \in Senders, Raise(p),
         UNCHANGED <<notice, disk, row>>, faults' \in 0..MaxFaults
  PROVE  TypeInv'
  <1>1. attempt[p] \in 1..MaxAttempts /\ MaxAttempts \in Nat
    BY NoticeAssumption DEF TypeInv
  <1>2. row'.status \in {"none", "SUCCESS", "FAIL"}
    BY DEF TypeInv
  <1>3. "detail" \in Labels /\ "fail" \in Labels
    BY DEF Labels
  <1>4. CASE attempt[p] < MaxAttempts
    <2>1. attempt[p] + 1 \in 1..MaxAttempts /\ Restart(p, attempt[p] + 1, "detail")
      BY <1>1, <1>4 DEF Raise
    <2> QED BY <2>1, <1>2, <1>3, RestartType
  <1>5. CASE ~(attempt[p] < MaxAttempts)
    <2>1. Restart(p, attempt[p], "fail")
      BY <1>5 DEF Raise
    <2> QED BY <2>1, <1>1, <1>2, <1>3, RestartType
  <1> QED BY <1>4, <1>5

LEMMA EndType ==
  ASSUME TypeInv, NEW p \in Senders, End(p), UNCHANGED <<notice, disk>>,
         row'.status \in {"none", "SUCCESS", "FAIL"}, faults' \in 0..MaxFaults
  PROVE  TypeInv'
  <1>1. 1 \in 1..MaxAttempts /\ "idle" \in Labels /\ Restart(p, 1, "idle")
    BY NoticeAssumption DEF End, Labels
  <1> QED BY <1>1, RestartType

\* The next image, with the list of files longer by at most one that exists.
LEMMA NextUrlType ==
  ASSUME TypeInv, NEW r \in Senders, url[r] \in DOMAIN urls[r], NextUrl(r),
         NEW list \in Seq(DOMAIN disk'), got' = [got EXCEPT ![r] = list],
         Len(got[r]) <= Len(list),
         notice' = notice, DOMAIN disk \subseteq DOMAIN disk',
         disk' \in [DOMAIN disk' -> Entry'],
         DOMAIN disk' \subseteq Paths',
         row'= row, faults' \in 0..MaxFaults
  PROVE  TypeInv'
  <1>2. /\ url[r] \in Nat /\ url[r] + 1 \in 1..(Len(urls[r]) + 1)
        /\ urls[r] \in Lists
    BY ListFacts DEF TypeInv
  <1>3. /\ Images' = Images /\ Replies' = Replies /\ Paths' = Paths
        /\ Lists' = Lists /\ Entry' = Entry
    BY SetsStill
  <1>4. /\ pc' = [pc EXCEPT ![r] = "url"] /\ url' = [url EXCEPT ![r] = url[r] + 1]
        /\ answers' = answers /\ attempt' = attempt /\ urls' = urls
    BY DEF NextUrl, Goto
  <1>5. /\ pc' \in [Senders -> Labels] /\ url' \in [Senders -> Nat]
        /\ answers' \in [Senders -> Seq(Replies)] /\ attempt' \in [Senders -> 1..MaxAttempts]
        /\ urls' \in [Senders -> Lists]
    BY <1>2, <1>4 DEF TypeInv, Labels
  <1>6. got' \in [Senders -> Seq(DOMAIN disk')]
    <2>1. \A q \in Senders : got[q] \in Seq(DOMAIN disk')
      BY WiderSeq DEF TypeInv
    <2> QED BY <2>1 DEF TypeInv
  <1>7. ASSUME NEW q \in Senders PROVE InList(q)'
    <2>1. CASE q = r
      <3>1. /\ pc'[r] = "url" /\ got'[r] = list /\ answers'[r] = answers[r]
            /\ Len(answers[r]) <= Len(got[r]) /\ url'[r] = url[r] + 1 /\ urls'[r] = urls[r]
        BY <1>4 DEF TypeInv, InList
      <3>2. Len(answers[r]) \in Nat /\ Len(got[r]) \in Nat /\ Len(list) \in Nat
        <4>1. answers[r] \in Seq(Replies) /\ got[r] \in Seq(DOMAIN disk)
          BY DEF TypeInv
        <4> QED BY <4>1
      <3>3. Len(answers[r]) <= Len(list)
        BY <3>1, <3>2
      <3> QED BY <2>1, <3>1, <3>3, <1>2 DEF InList, Opened
    <2>2. CASE q # r
      <3>1. /\ pc'[q] = pc[q] /\ urls'[q] = urls[q] /\ url'[q] = url[q]
            /\ got'[q] = got[q] /\ answers'[q] = answers[q] /\ InList(q)
        BY <1>4, <2>2 DEF TypeInv
      <3>2. Opened(q)'
        BY <3>1, OpenedStays DEF InList
      <3> QED BY <3>1, <3>2 DEF InList
    <2> QED BY <2>1, <2>2
  <1> QED BY <1>3, <1>5, <1>6, <1>7 DEF TypeInv

LEMMA DroppedType ==
  ASSUME TypeInv, NEW r \in Senders, url[r] \in DOMAIN urls[r], Dropped(r),
         UNCHANGED <<notice, disk, row>>, faults' \in 0..MaxFaults
  PROVE  TypeInv'
  <1>1. got[r] \in Seq(DOMAIN disk') /\ Len(got[r]) <= Len(got[r])
    <2>1. got[r] \in Seq(DOMAIN disk)
      BY DEF TypeInv
    <2> QED BY <2>1
  <1>2. got' = [got EXCEPT ![r] = got[r]] /\ NextUrl(r)
    BY DEF Dropped, TypeInv
  <1>3. /\ DOMAIN disk \subseteq DOMAIN disk' /\ disk' \in [DOMAIN disk' -> Entry']
        /\ DOMAIN disk' \subseteq Paths'
    BY SetsStill DEF TypeInv
  <1> QED BY <1>1, <1>2, <1>3, NextUrlType

LEMMA SavedType ==
  ASSUME TypeInv, NEW r \in Senders, url[r] \in DOMAIN urls[r],
         NEW path \in DOMAIN disk', Saved(r, path),
         notice' = notice, DOMAIN disk \subseteq DOMAIN disk',
         disk' \in [DOMAIN disk' -> Entry'],
         DOMAIN disk' \subseteq Paths',
         row' = row, faults' \in 0..MaxFaults
  PROVE  TypeInv'
  <1>1. got[r] \in Seq(DOMAIN disk')
    BY WiderSeq DEF TypeInv
  <1>2. Append(got[r], path) \in Seq(DOMAIN disk') /\ Len(got[r]) <= Len(Append(got[r], path))
    BY <1>1
  <1>3. got' = [got EXCEPT ![r] = Append(got[r], path)] /\ NextUrl(r)
    BY DEF Saved
  <1> DEFINE list == Append(got[r], path)
  <1>4. list \in Seq(DOMAIN disk') /\ Len(got[r]) <= Len(list)
        /\ got' = [got EXCEPT ![r] = list]
    BY <1>2, <1>3
  <1> HIDE DEF list
  <1> QED BY <1>3, <1>4, NextUrlType

\* A write adds its own typed path, or replaces what was there.
LEMMA WriteType ==
  ASSUME TypeInv, NEW r \in Runs, url[r] \in DOMAIN urls[r], notice' = notice,
         NEW by \in Runs, NEW whole \in BOOLEAN, Write(r, by, whole)
  PROVE  /\ DOMAIN disk \subseteq DOMAIN disk' /\ Path(r, TRUE) \in DOMAIN disk'
         /\ disk' \in [DOMAIN disk' -> Entry']
         /\ DOMAIN disk' \subseteq Paths'
  <1> DEFINE path == Path(r, TRUE)
  <1>i. Image(r) \in Images /\ url[r] \in Images
    <2>1. urls[r] \in Lists
      BY DEF TypeInv, Senders
    <2>2. urls[r] \in Seq(Images) /\ DOMAIN urls[r] \subseteq Images
      BY <2>1, ListFacts
    <2> QED BY <2>2 DEF Image
  <1>1. path \in Paths
    <2>1. CASE Nameless(Image(r))
      <3>1. path = <<url[r], "jpg">>
        BY <2>1, Zenon DEF Path
      <3>2. <<url[r], "jpg">> \in Images \X {"jpg"}
        BY <1>i
      <3> QED BY <3>1, <3>2, Zenon DEF Paths
    <2>2. CASE ~Nameless(Image(r))
      <3>1. path = <<0, notice.names[Image(r)]>>
        BY <2>2 DEF Path
      <3> QED BY <3>1, <1>i DEF Paths
    <2> QED BY <2>1, <2>2
  <1>s. Entry' = Entry /\ Paths' = Paths
    BY SetsStill
  <1>2. /\ DOMAIN disk' = DOMAIN disk \cup {path}
        /\ disk'[path] = [of |-> Image(r), by |-> by, whole |-> whole]
        /\ \A f \in DOMAIN disk : f # path => disk'[f] = disk[f]
        /\ disk' = [f \in DOMAIN disk' |-> disk'[f]]
    BY WriteFacts
  <1> HIDE DEF path
  <1>3. disk'[path] \in Entry
    BY <1>2, <1>i DEF Entry
  <1>4. \A f \in DOMAIN disk' : disk'[f] \in Entry
    BY <1>2, <1>3 DEF TypeInv
  <1>5. disk' \in [DOMAIN disk' -> Entry]
    BY <1>2, <1>4
  <1> QED BY <1>1, <1>2, <1>5, <1>s DEF TypeInv, path

\* Steps that move a process without touching its files or its replies, with a new
\* list of URLs or the old one.
LEMMA FoundType ==
  ASSUME TypeInv, NEW p \in Senders, NEW label \in Labels,
         pc' = [pc EXCEPT ![p] = label],
         NEW list \in Lists, urls' = [urls EXCEPT ![p] = list],
         url[p] \in 1..(Len(list) + 1),
         label \in {"get", "stream"} => url[p] \in DOMAIN list,
         label = "stream" => urls[p] = list /\ Path(p, TRUE) \in DOMAIN disk',
         label \in {"idle", "detail"} => url[p] = 1,
         UNCHANGED <<notice, row, attempt, url, got, answers>>,
         DOMAIN disk \subseteq DOMAIN disk',
         disk' \in [DOMAIN disk' -> Entry'],
         DOMAIN disk' \subseteq Paths',
         faults' \in 0..MaxFaults
  PROVE  TypeInv'
  <1>1. /\ Images' = Images /\ Replies' = Replies /\ Paths' = Paths
        /\ Lists' = Lists /\ Entry' = Entry
    BY SetsStill
  <1>2. got' \in [Senders -> Seq(DOMAIN disk')]
    <2>1. \A q \in Senders : got[q] \in Seq(DOMAIN disk')
      BY WiderSeq DEF TypeInv
    <2> QED BY <2>1 DEF TypeInv
  <1>3. pc' \in [Senders -> Labels] /\ urls' \in [Senders -> Lists]
    BY DEF TypeInv
  <1>4. ASSUME NEW q \in Senders PROVE InList(q)'
    <2>1. CASE q = p
      <3>1. pc'[p] = label /\ urls'[p] = list /\ url'[p] = url[p]
        BY DEF TypeInv
      <3>2. Len(answers'[p]) <= Len(got'[p])
        BY DEF TypeInv, InList
      <3>3. Opened(p)'
        <4>1. label = "stream" => urls'[p] = urls[p] /\ Path(p, TRUE) \in DOMAIN disk'
          BY <3>1
        <4>2. label = "stream" => Path(p, TRUE)' = Path(p, TRUE)
          BY <3>1, <4>1, PathStill
        <4> QED BY <3>1, <4>1, <4>2 DEF Opened
      <3> QED BY <2>1, <3>1, <3>2, <3>3 DEF InList
    <2>2. CASE q # p
      <3>1. pc'[q] = pc[q] /\ urls'[q] = urls[q] /\ url'[q] = url[q] /\ InList(q)
        BY <2>2 DEF TypeInv
      <3>2. Opened(q)'
        BY <3>1, OpenedStays DEF InList
      <3> QED BY <3>1, <3>2 DEF InList
    <2> QED BY <2>1, <2>2
  <1> QED BY <1>1, <1>2, <1>3, <1>4 DEF TypeInv

LEMMA MoveType ==
  ASSUME TypeInv, NEW p \in Senders, NEW label \in Labels,
         pc' = [pc EXCEPT ![p] = label],
         label \in {"get", "stream"} => url[p] \in DOMAIN urls[p],
         label = "stream" => Path(p, TRUE) \in DOMAIN disk',
         label \in {"idle", "detail"} => url[p] = 1,
         UNCHANGED <<notice, row, attempt, urls, url, got, answers>>,
         DOMAIN disk \subseteq DOMAIN disk',
         disk' \in [DOMAIN disk' -> Entry'],
         DOMAIN disk' \subseteq Paths',
         faults' \in 0..MaxFaults
  PROVE  TypeInv'
  <1>1. urls[p] \in Lists /\ urls' = [urls EXCEPT ![p] = urls[p]]
    BY DEF TypeInv
  <1>2. url[p] \in 1..(Len(urls[p]) + 1)
    BY DEF TypeInv, InList
  <1> QED BY <1>1, <1>2, FoundType

LEMMA TypeStep == TypeInv /\ [Next]_vars => TypeInv'
  <1> SUFFICES ASSUME TypeInv, [Next]_vars PROVE TypeInv'
    OBVIOUS
  <1>d. /\ DOMAIN disk \subseteq DOMAIN disk /\ DOMAIN disk \subseteq Paths
        /\ disk \in [DOMAIN disk -> Entry]
        /\ (notice' = notice => Entry' = Entry /\ Paths' = Paths)
        /\ row.status \in {"none", "SUCCESS", "FAIL"} /\ faults \in 0..MaxFaults
    BY SetsStill DEF TypeInv
  <1>l. Labels = {"idle", "detail", "url", "get", "stream", "analyse", "send", "sent", "fail"}
    BY DEF Labels
  <1>r. Runs \subseteq Senders /\ Admin \in Senders
    BY DEF Senders
  <1>1. CASE UNCHANGED vars
    <2>1. /\ Images' = Images /\ Replies' = Replies /\ Paths' = Paths
          /\ Lists' = Lists /\ Entry' = Entry
      BY <1>1, SetsStill DEF vars
    <2>2. /\ UNCHANGED <<notice, disk, row, faults, pc>>
          /\ UNCHANGED <<attempt, urls, url, got, answers>>
      BY <1>1 DEF vars, locals
    <2>3. \A q \in Senders : Opened(q)'
      BY <2>2, OpenedStays DEF TypeInv, InList
    <2>4. \A q \in Senders : InList(q)'
      BY <2>2, <2>3 DEF TypeInv, InList
    <2> QED BY <2>1, <2>2, <2>4 DEF TypeInv
  <1>2. ASSUME NEW r \in Runs, Begin(r) PROVE TypeInv'
    <2>1. url[r] = 1
      BY <1>2, <1>r DEF Begin, TypeInv, InList
    <2> QED BY <1>2, <2>1, <1>d, <1>l, <1>r, MoveType DEF Begin, Goto, locals
  <1>3. ASSUME NEW r \in Runs, FetchDetail(r) PROVE TypeInv'
    <2>1. PICK list \in Lists :
            /\ urls' = [urls EXCEPT ![r] = list]
            /\ \E label \in {"send", "url"} : pc' = [pc EXCEPT ![r] = label]
      BY <1>3 DEF FetchDetail, Goto
    <2>2. url[r] = 1 /\ Len(list) \in Nat
      BY <1>3, <1>r, ListFacts DEF FetchDetail, TypeInv, InList
    <2>3. url[r] \in 1..(Len(list) + 1)
      BY <2>2
    <2>4. PICK label \in {"send", "url"} : pc' = [pc EXCEPT ![r] = label]
      BY <2>1
    <2> QED BY <1>3, <2>1, <2>2, <2>3, <2>4, <1>d, <1>l, <1>r, FoundType DEF FetchDetail
  <1>4. ASSUME NEW r \in Runs, CheckFile(r) PROVE TypeInv'
    <2>1. PICK typed \in BOOLEAN :
            /\ IF typed THEN UNCHANGED faults ELSE Fault
            /\ \/ SkipExisting(r, typed)
               \/ ~Exists(Path(r, typed)) /\ Goto(r, "get") /\ UNCHANGED locals
      BY <1>4 DEF CheckFile
    <2>2. faults' \in 0..MaxFaults
      BY <2>1, <1>d, FaultType
    <2>3. url[r] \in DOMAIN urls[r] /\ r \in Senders /\ UNCHANGED <<notice, disk, row>>
      BY <1>4, <1>r DEF CheckFile
    <2>4. CASE SkipExisting(r, typed)
      <3>1. Path(r, typed) \in DOMAIN disk' /\ Saved(r, Path(r, typed))
        BY <2>3, <2>4 DEF SkipExisting, Exists
      <3> QED BY <3>1, <2>2, <2>3, <1>d, SavedType
    <2>5. CASE Goto(r, "get") /\ UNCHANGED locals
      BY <2>2, <2>3, <2>5, <1>d, <1>l, MoveType DEF Goto, locals
    <2> QED BY <2>1, <2>4, <2>5
  <1>5. ASSUME NEW r \in Runs, Get(r) PROVE TypeInv'
    <2>1. url[r] \in DOMAIN urls[r] /\ notice' = notice
      BY <1>5, <1>r DEF Get, TypeInv, InList
    <2>2. Write(r, r, FALSE)
      BY <1>5 DEF Get
    <2>3. /\ DOMAIN disk \subseteq DOMAIN disk' /\ Path(r, TRUE) \in DOMAIN disk'
          /\ disk' \in [DOMAIN disk' -> Entry']
          /\ DOMAIN disk' \subseteq Paths'
      BY <2>1, <2>2, WriteType
    <2> QED BY <1>5, <2>1, <2>3, <1>d, <1>l, <1>r, MoveType DEF Get, Goto, locals
  <1>6. ASSUME NEW r \in Runs, GetFails(r) \/ StreamBreaks(r) PROVE TypeInv'
    <2>1. url[r] \in DOMAIN urls[r]
      BY <1>6, <1>r DEF GetFails, StreamBreaks, TypeInv, InList
    <2>2. Dropped(r) /\ UNCHANGED <<notice, disk, row>> /\ faults' \in 0..MaxFaults
      BY <1>6, FaultType DEF GetFails, StreamBreaks
    <2> QED BY <2>1, <2>2, <1>r, DroppedType
  <1>7. ASSUME NEW r \in Runs, Finish(r) PROVE TypeInv'
    <2>1. url[r] \in DOMAIN urls[r] /\ Path(r, TRUE) \in DOMAIN disk
      BY <1>7, <1>r DEF Finish, TypeInv, InList, Opened
    <2>2. PICK whole \in BOOLEAN : Write(r, disk[Path(r, TRUE)].by, whole)
      BY <1>7 DEF Finish, Stored
    <2>3. disk[Path(r, TRUE)].by \in Runs
      BY <2>1, <1>d DEF Entry
    <2>4. Saved(r, Path(r, TRUE)) /\ UNCHANGED <<notice, row, faults>>
      BY <1>7 DEF Finish
    <2>5. /\ DOMAIN disk \subseteq DOMAIN disk' /\ Path(r, TRUE) \in DOMAIN disk'
          /\ disk' \in [DOMAIN disk' -> Entry']
          /\ DOMAIN disk' \subseteq Paths'
      BY <2>1, <2>2, <2>3, <2>4, WriteType
    <2> DEFINE path == Path(r, TRUE)
    <2>6. Saved(r, path) /\ path \in DOMAIN disk'
      BY <2>4, <2>5
    <2> HIDE DEF path
    <2> QED BY <2>1, <2>4, <2>5, <2>6, <1>d, <1>r, SavedType
  <1>8. ASSUME NEW r \in Runs, Downloaded(r) PROVE TypeInv'
    <2>1. CASE got[r] = <<>>
      BY <1>8, <2>1, <1>d, <1>r, RaiseType DEF Downloaded
    <2>2. CASE got[r] # <<>>
      BY <1>8, <2>2, <1>d, <1>l, <1>r, MoveType DEF Downloaded, Goto, locals
    <2> QED BY <2>1, <2>2
  <1>9. ASSUME NEW r \in Runs, Analyse(r) PROVE TypeInv'
    <2>0. r \in Senders /\ got[r] \in Seq(DOMAIN disk) /\ answers[r] \in Seq(Replies)
      BY <1>r DEF TypeInv
    <2>1. PICK t \in Texts :
            answers' = [answers EXCEPT ![r] =
              Append(answers[r], [of |-> disk[ToRead(r)].of,
                                  lines |-> Answer(disk[ToRead(r)].of, t)])]
      BY <1>9 DEF Analyse
    <2>2. Len(answers[r]) < Len(got[r]) /\ Len(answers[r]) \in Nat /\ Len(got[r]) \in Nat
      BY <1>9, <2>0 DEF Analyse
    <2>3. Len(answers[r]) + 1 \in 1..Len(got[r])
      BY <2>2
    <2>4. ToRead(r) \in DOMAIN disk
      BY <2>0, <2>3 DEF ToRead
    <2>5. disk[ToRead(r)].of \in Images
      BY <2>4, <1>d DEF Entry
    <2> DEFINE reply == [of |-> disk[ToRead(r)].of, lines |-> Answer(disk[ToRead(r)].of, t)]
    <2>6. reply \in Replies
      BY <2>5 DEF Replies
    <2>7. answers' = [answers EXCEPT ![r] = Append(answers[r], reply)]
      BY <2>1
    <2> HIDE DEF reply
    <2>8. /\ Append(answers[r], reply) \in Seq(Replies)
          /\ Len(Append(answers[r], reply)) = Len(answers[r]) + 1
      BY <2>0, <2>6
    <2>9. /\ Images' = Images /\ Replies' = Replies /\ Paths' = Paths
          /\ Lists' = Lists /\ Entry' = Entry
      BY <1>9, SetsStill DEF Analyse
    <2>10. answers' \in [Senders -> Seq(Replies)]
      BY <2>7, <2>8 DEF TypeInv
    <2>11. \A q \in Senders : Len(answers'[q]) <= Len(got[q])
      BY <2>2, <2>7, <2>8 DEF TypeInv, InList
    <2>13. UNCHANGED <<notice, disk, pc, urls, url, got>>
      BY <1>9 DEF Analyse
    <2>14. \A q \in Senders : Opened(q)'
      BY <2>13, OpenedStays DEF TypeInv, InList
    <2>12. \A q \in Senders : InList(q)'
      BY <2>11, <2>13, <2>14 DEF TypeInv, InList
    <2> QED BY <1>9, <2>9, <2>10, <2>12 DEF Analyse, TypeInv
  <1>10. ASSUME NEW r \in Runs, CannotRead(r) \/ CallRaises(r) PROVE TypeInv'
    <2>1. Raise(r) /\ UNCHANGED <<notice, disk, row>> /\ faults' \in 0..MaxFaults
      BY <1>10, <1>d, FaultType DEF CannotRead, CallRaises
    <2> QED BY <2>1, <1>r, RaiseType
  <1>11. ASSUME NEW r \in Runs, Compose(r) PROVE TypeInv'
    BY <1>11, <1>d, <1>l, <1>r, MoveType DEF Compose, Goto
  <1>12. ASSUME NEW p \in Senders, Send(p) PROVE TypeInv'
    <2>1. pc' = [pc EXCEPT ![p] = "sent"] \/ pc' = [pc EXCEPT ![p] = pc[p]]
      BY <1>12 DEF Send, Goto, TypeInv
    <2>2. "sent" \in Labels /\ pc[p] \in Labels /\ pc[p] = "send"
      BY <1>12 DEF Send, TypeInv, Labels
    <2> QED BY <1>12, <2>1, <2>2, <1>d, MoveType DEF Send
  <1>13. ASSUME NEW p \in Senders, SendRaises(p) PROVE TypeInv'
    <2>1. UNCHANGED <<notice, disk, row>> /\ faults' \in 0..MaxFaults
      BY <1>13, FaultType DEF SendRaises
    <2>2. End(p) \/ Raise(p)
      BY <1>13 DEF SendRaises
    <2> QED BY <2>1, <2>2, <1>d, RaiseType, EndType
  <1>14. ASSUME NEW r \in Runs, Save(r) \/ SaveFail(r) PROVE TypeInv'
    <2>1. /\ End(r) /\ UNCHANGED <<notice, disk, faults>>
          /\ row'.status \in {"none", "SUCCESS", "FAIL"}
      BY <1>14 DEF Save, SaveFail
    <2> QED BY <2>1, <1>d, <1>r, EndType
  <1>15. ASSUME Resend PROVE TypeInv'
    BY <1>15, <1>d, <1>l, <1>r, MoveType DEF Resend, Goto
  <1>16. ASSUME Resent PROVE TypeInv'
    BY <1>16, <1>d, <1>r, EndType DEF Resent
  <1>17. ASSUME NEW r \in Runs, Crash(r) PROVE TypeInv'
    <2>1. UNCHANGED <<notice, disk, row>> /\ faults' \in 0..MaxFaults /\ End(r)
      BY <1>17, FaultType DEF Crash
    <2> QED BY <2>1, <1>d, <1>r, EndType
  <1> QED BY <1>1, <1>2, <1>3, <1>4, <1>5, <1>6, <1>7, <1>8, <1>9, <1>10, <1>11, <1>12,
             <1>13, <1>14, <1>15, <1>16, <1>17, <1>r DEF Next, Work

LEMMA TypedIsTypeOK == TypeInv => TypeOK
  <1> SUFFICES ASSUME TypeInv PROVE TypeOK
    OBVIOUS
  <1>2. ASSUME NEW p \in Senders PROVE \A k \in DOMAIN got[p] : got[p][k] \in DOMAIN disk
    <2>1. got[p] \in Seq(DOMAIN disk)
      BY DEF TypeInv
    <2> QED BY <2>1
  <1> QED BY <1>2 DEF TypeInv, InList, TypeOK, Entry

\* Every variable stays in its range, and a path that is carried from the
\* download to the analysis names a file that is there.
THEOREM TypeCorrect == Spec => []TypeOK
  BY TypeInit, TypeStep, TypedIsTypeOK, PTL DEF Spec

-----------------------------------------------------------------------------
(* Images that are not in a message.  An image is lost where its download is *)
(* passed over; from there on the list of files and the list of answers only *)
(* repeat what was saved, as long as a file is the image its name stands for. *)

\* Where an image is kept when every URL has a name of its own.
File(i) == <<0, notice.names[i]>>

Lost(r) == {i \in Images : /\ \E k \in 1..(url[r] - 1) : urls[r][k] = i
                           /\ \A k \in DOMAIN got[r] : got[r][k] # File(i)}

FilesInPlace == \A f \in DOMAIN disk : f = File(disk[f].of)

AnswersFollow(r) == \A k \in DOMAIN answers[r] : got[r][k] = File(answers[r][k].of)

Passed(r) ==
  urls[r] # <<>> =>
    /\ pc[r] \in {"analyse", "send", "sent"} => url[r] = Len(urls[r]) + 1
    /\ pc[r] \in {"send", "sent"} => Len(answers[r]) = Len(got[r])

Chain(r) == Cardinality(Lost(r)) <= faults /\ AnswersFollow(r) /\ Passed(r)

LossInv == DistinctNames => FilesInPlace /\ \A r \in Runs : Chain(r)

LEMMA LocalType ==
  ASSUME TypeInv, NEW r \in Runs
  PROVE  /\ urls[r] \in Seq(Images) /\ Len(urls[r]) \in Nat /\ DOMAIN urls[r] = 1..Len(urls[r])
         /\ url[r] \in 1..(Len(urls[r]) + 1) /\ url[r] \in Int /\ notice.count \in Nat
         /\ got[r] \in Seq(DOMAIN disk) /\ answers[r] \in Seq(Replies)
         /\ Len(answers[r]) \in Nat /\ Len(got[r]) \in Nat /\ Len(answers[r]) <= Len(got[r])
         /\ faults \in Int /\ faults >= 0 /\ r \in Senders
  <1>1. r \in Senders
    BY DEF Senders
  <1>2. notice.count \in Nat
    BY Naturals
  <1>3. got[r] \in Seq(DOMAIN disk) /\ answers[r] \in Seq(Replies)
        /\ Len(answers[r]) <= Len(got[r])
    BY <1>1 DEF TypeInv, InList
  <1>4. faults \in Int /\ faults >= 0
    BY NoticeAssumption DEF TypeInv
  <1>5. urls[r] \in Lists /\ url[r] \in 1..(Len(urls[r]) + 1) /\ url[r] \in Nat
    BY <1>1 DEF TypeInv, InList
  <1>6. urls[r] \in Seq(Images) /\ Len(urls[r]) \in Nat /\ DOMAIN urls[r] = 1..Len(urls[r])
    BY <1>5, ListFacts
  <1> QED BY <1>1, <1>2, <1>3, <1>4, <1>5, <1>6

LEMMA LostFinite ==
  ASSUME notice.count \in Nat, NEW r \in Runs
  PROVE  IsFiniteSet(Lost(r)) /\ Cardinality(Lost(r)) \in Nat
  <1>1. IsFiniteSet(Images)
    BY FS_Interval DEF Images
  <1>2. Lost(r) \subseteq Images
    BY DEF Lost
  <1> QED BY <1>1, <1>2, FS_Subset, FS_CardinalityType

LEMMA LostCount ==
  ASSUME TypeInv, TypeInv', NEW r \in Runs, Cardinality(Lost(r)) <= faults,
         \/ Lost(r)' \subseteq Lost(r) /\ faults <= faults'
         \/ faults' = faults + 1 /\ \E i \in Images : Lost(r)' \subseteq Lost(r) \cup {i}
  PROVE  Cardinality(Lost(r)') <= faults'
  <1> DEFINE L == Lost(r)
             K == Lost(r)'
  <1>1. IsFiniteSet(L) /\ Cardinality(L) \in Nat
    BY LostFinite, LocalType
  <1>2. IsFiniteSet(K) /\ Cardinality(K) \in Nat
    <2>1. notice'.count \in Nat
      BY NoticeAssumption DEF TypeInv
    <2>2. IsFiniteSet(Images')
      BY <2>1, FS_Interval DEF Images
    <2>3. K \subseteq Images'
      BY DEF Lost
    <2> QED BY <2>2, <2>3, FS_Subset, FS_CardinalityType
  <1>3. faults \in Int /\ faults' \in Int
    BY NoticeAssumption DEF TypeInv
  <1>h. \/ K \subseteq L /\ faults <= faults'
        \/ faults' = faults + 1 /\ \E i \in Images : K \subseteq L \cup {i}
    OBVIOUS
  <1>c. Cardinality(L) <= faults
    OBVIOUS
  <1> HIDE DEF L, K
  <1>4. CASE K \subseteq L /\ faults <= faults'
    <2>1. Cardinality(K) <= Cardinality(L)
      BY <1>1, <1>4, FS_Subset
    <2> QED BY <1>1, <1>2, <1>3, <1>4, <1>c, <2>1 DEF K
  <1>5. ASSUME faults' = faults + 1, NEW i \in Images, K \subseteq L \cup {i}
        PROVE  Cardinality(K) <= faults'
    <2>1. /\ IsFiniteSet(L \cup {i})
          /\ Cardinality(L \cup {i}) = Cardinality(L) \/ Cardinality(L \cup {i}) = Cardinality(L) + 1
      BY <1>1, FS_AddElement
    <2>2. Cardinality(K) <= Cardinality(L \cup {i})
      BY <1>5, <2>1, FS_Subset
    <2> QED BY <1>1, <1>2, <1>3, <1>5, <1>c, <2>1, <2>2
  <1> QED BY <1>h, <1>4, <1>5 DEF K

\* The files have the names of their images, whatever the HEAD request said.
LEMMA NamedPath ==
  ASSUME TypeInv, DistinctNames, NEW r \in Runs, url[r] \in DOMAIN urls[r], NEW typed
  PROVE  Image(r) \in Images /\ Path(r, typed) = File(Image(r))
  <1>1. Image(r) \in Images
    BY LocalType DEF Image
  <1>2. ~Nameless(Image(r))
    BY <1>1 DEF DistinctNames
  <1> QED BY <1>1, <1>2, Zenon DEF Path, File

LEMMA FileStill == ASSUME notice' = notice PROVE Images' = Images /\ \A i : File(i)' = File(i)
  BY DEF Images, File

LEMMA WritesInPlace ==
  ASSUME TypeInv, DistinctNames, FilesInPlace, notice' = notice,
         NEW r \in Runs, url[r] \in DOMAIN urls[r], NEW by, NEW whole, Write(r, by, whole)
  PROVE  FilesInPlace'
  <1> DEFINE path == Path(r, TRUE)
  <1>1. /\ DOMAIN disk' = DOMAIN disk \cup {path}
        /\ disk'[path] = [of |-> Image(r), by |-> by, whole |-> whole]
        /\ \A f \in DOMAIN disk : f # path => disk'[f] = disk[f]
        /\ disk' = [f \in DOMAIN disk' |-> disk'[f]]
    BY WriteFacts
  <1>2. path = File(Image(r))
    BY NamedPath
  <1> HIDE DEF path
  <1>w. disk'[path].of = Image(r)
    BY <1>1
  <1> SUFFICES ASSUME NEW f \in DOMAIN disk' PROVE f = File(disk'[f].of)
    <2>1. \A i : File(i)' = File(i)
      BY FileStill
    <2> QED BY <2>1 DEF FilesInPlace, File
  <1>4. CASE f = path
    BY <1>w, <1>2, <1>4
  <1>5. CASE f # path
    BY <1>1, <1>5 DEF FilesInPlace
  <1> QED BY <1>4, <1>5

\* Nothing is lost or answered at the beginning of an attempt.
LEMMA FreshChain ==
  ASSUME TypeInv, NEW r \in Runs, url'[r] = 1, got'[r] = <<>>, answers'[r] = <<>>,
         pc'[r] \notin {"analyse", "send", "sent"}, faults' \in 0..MaxFaults
  PROVE  Chain(r)'
  <1>1. Lost(r)' = {}
    BY DEF Lost
  <1>2. Cardinality(Lost(r)') = 0
    BY <1>1, FS_EmptySet
  <1>3. faults' >= 0
    BY NoticeAssumption
  <1>4. AnswersFollow(r)' /\ Passed(r)'
    BY DEF AnswersFollow, Passed
  <1> QED BY <1>2, <1>3, <1>4 DEF Chain

\* What another process does to a run is at most one more failure.
LEMMA CalmChain ==
  ASSUME TypeInv, TypeInv', NEW r \in Runs, Chain(r), notice' = notice,
         urls'[r] = urls[r], url'[r] = url[r], got'[r] = got[r], answers'[r] = answers[r],
         pc'[r] = pc[r], faults <= faults'
  PROVE  Chain(r)'
  <1>1. Images' = Images /\ \A i : File(i)' = File(i)
    BY FileStill
  <1>2. Lost(r)' = Lost(r)
    BY <1>1 DEF Lost, File
  <1>3. Cardinality(Lost(r)') <= faults'
    BY <1>2, LostCount DEF Chain
  <1>4. AnswersFollow(r)' /\ Passed(r)'
    BY <1>1 DEF Chain, AnswersFollow, Passed, File
  <1> QED BY <1>3, <1>4 DEF Chain

\* The next image: what was lost stays lost, and at most the present one is new.
LEMMA NextUrlChain ==
  ASSUME TypeInv, TypeInv', NEW r \in Runs, Chain(r), notice' = notice,
         url[r] \in DOMAIN urls[r], NextUrl(r),
         \/ /\ got'[r] = Append(got[r], File(Image(r)))
            /\ faults <= faults'
         \/ got'[r] = got[r] /\ faults' = faults + 1
  PROVE  Chain(r)'
  <1>1. Images' = Images /\ \A i : File(i)' = File(i)
    BY FileStill
  <1>2. /\ url'[r] = url[r] + 1 /\ pc'[r] = "url" /\ answers'[r] = answers[r]
        /\ urls'[r] = urls[r]
    BY LocalType DEF NextUrl, Goto, TypeInv
  <1>l. /\ url[r] \in Int /\ got[r] \in Seq(DOMAIN disk) /\ Len(got[r]) \in Nat
        /\ answers[r] \in Seq(Replies) /\ Len(answers[r]) \in Nat
        /\ Len(answers[r]) <= Len(got[r]) /\ urls[r] \in Seq(Images)
    BY LocalType
  <1>i. Image(r) \in Images /\ Image(r) = urls[r][url[r]]
    BY <1>l DEF Image
  <1>3. \A k \in 1..(url'[r] - 1) : k = url[r] \/ k \in 1..(url[r] - 1)
    BY <1>2, <1>l
  <1> DEFINE path == File(Image(r))
             S == DOMAIN disk \cup {path}
  <1>a. got[r] \in Seq(S) /\ path \in S
    BY <1>l, WiderSeq
  <1>b. got'[r] = Append(got[r], path) \/ got'[r] = got[r]
    OBVIOUS
  <1> HIDE DEF S
  <1>4. \A k \in DOMAIN got[r] : k \in DOMAIN got'[r] /\ got'[r][k] = got[r][k]
    <2> HIDE DEF path
    <2> QED BY <1>a, <1>b
  <1>5. Lost(r)' \subseteq Lost(r) \cup {Image(r)}
    <2> SUFFICES ASSUME NEW i \in Lost(r)', i # Image(r) PROVE i \in Lost(r)
      OBVIOUS
    <2>1. /\ i \in Images /\ \A k \in DOMAIN got'[r] : got'[r][k] # File(i)
          /\ \E k \in 1..(url'[r] - 1) : urls[r][k] = i
      BY <1>1, <1>2 DEF Lost, File
    <2>2. PICK k \in 1..(url'[r] - 1) : urls[r][k] = i
      BY <2>1
    <2>3. k \in 1..(url[r] - 1)
      BY <1>3, <1>i, <2>2
    <2>4. \A j \in DOMAIN got[r] : got[r][j] # File(i)
      BY <1>4, <2>1
    <2> QED BY <2>1, <2>2, <2>3, <2>4 DEF Lost
  <1>8. AnswersFollow(r)'
    <2> SUFFICES ASSUME NEW k \in DOMAIN answers[r]
                 PROVE  got'[r][k] = File(answers[r][k].of)
      BY <1>1, <1>2 DEF AnswersFollow, File
    <2>1. k \in DOMAIN got[r]
      BY <1>l
    <2> QED BY <1>4, <2>1 DEF Chain, AnswersFollow
  <1>9. Passed(r)'
    BY <1>2 DEF Passed
  <1>c. Cardinality(Lost(r)) <= faults
    BY DEF Chain
  <1>6. CASE got'[r] = Append(got[r], File(Image(r))) /\ faults <= faults'
    <2>1. Len(got[r]) + 1 \in DOMAIN got'[r] /\ got'[r][Len(got[r]) + 1] = path
      <3>1. got'[r] = Append(got[r], path)
        BY <1>6
      <3> HIDE DEF path
      <3> QED BY <3>1, <1>a
    <2>2. Image(r) \notin Lost(r)'
      BY <1>1, <2>1 DEF Lost, File
    <2>3. Lost(r)' \subseteq Lost(r)
      BY <1>5, <2>2
    <2>4. Cardinality(Lost(r)') <= faults'
      BY <1>6, <1>c, <2>3, LostCount
    <2> QED BY <2>4, <1>8, <1>9 DEF Chain
  <1>7. CASE got'[r] = got[r] /\ faults' = faults + 1
    <2>1. \E i \in Images : Lost(r)' \subseteq Lost(r) \cup {i}
      BY <1>5, <1>i
    <2>2. Cardinality(Lost(r)') <= faults'
      BY <1>7, <1>c, <2>1, LostCount
    <2> QED BY <2>2, <1>8, <1>9 DEF Chain
  <1> QED BY <1>6, <1>7

\* The run is at another place of the same attempt.
LEMMA MoveChain ==
  ASSUME TypeInv, TypeInv', NEW r \in Runs, Chain(r), notice' = notice,
         urls'[r] = urls[r], url'[r] = url[r], got'[r] = got[r], answers'[r] = answers[r],
         faults <= faults', Passed(r)'
  PROVE  Chain(r)'
  <1>1. Images' = Images /\ \A i : File(i)' = File(i)
    BY FileStill
  <1>2. Lost(r)' = Lost(r)
    BY <1>1 DEF Lost, File
  <1>3. Cardinality(Lost(r)') <= faults'
    BY <1>2, LostCount DEF Chain
  <1>4. AnswersFollow(r)'
    BY <1>1 DEF Chain, AnswersFollow, File
  <1> QED BY <1>3, <1>4 DEF Chain

\* An answer is about the image whose name the file has.
LEMMA AnalyseChain ==
  ASSUME TypeInv, TypeInv', NEW r \in Runs, Chain(r), FilesInPlace, Analyse(r)
  PROVE  Chain(r)'
  <1>1. Images' = Images /\ \A i : File(i)' = File(i)
    BY FileStill DEF Analyse
  <1>l. /\ got[r] \in Seq(DOMAIN disk) /\ Len(got[r]) \in Nat /\ r \in Senders
        /\ answers[r] \in Seq(Replies) /\ Len(answers[r]) \in Nat /\ faults \in Int
    BY LocalType
  <1>2. PICK t \in Texts :
          answers' = [answers EXCEPT ![r] =
            Append(answers[r], [of |-> disk[ToRead(r)].of,
                                lines |-> Answer(disk[ToRead(r)].of, t)])]
    BY DEF Analyse
  <1> DEFINE reply == [of |-> disk[ToRead(r)].of, lines |-> Answer(disk[ToRead(r)].of, t)]
  <1>3. answers'[r] = Append(answers[r], reply)
    BY <1>2, <1>l DEF TypeInv
  <1>4. Len(answers[r]) + 1 \in 1..Len(got[r])
    BY <1>l DEF Analyse
  <1>5. ToRead(r) \in DOMAIN disk
    BY <1>l, <1>4 DEF ToRead
  <1>6. ToRead(r) = File(disk[ToRead(r)].of)
    BY <1>5 DEF FilesInPlace
  <1>8. ToRead(r) = File(reply.of)
    BY <1>6
  <1> HIDE DEF reply
  <1>9. ASSUME NEW k \in DOMAIN answers'[r]
        PROVE  got[r][k] = File(answers'[r][k].of)
    <2>1. CASE k \in DOMAIN answers[r]
      <3>1. answers'[r][k] = answers[r][k]
        BY <1>3, <1>l, <2>1
      <3> QED BY <2>1, <3>1 DEF Chain, AnswersFollow
    <2>2. CASE k \notin DOMAIN answers[r]
      <3>1. k = Len(answers[r]) + 1 /\ answers'[r][k] = reply
        BY <1>3, <1>l, <2>2
      <3> QED BY <3>1, <1>8 DEF ToRead
    <2> QED BY <2>1, <2>2
  <1>10. /\ pc' = pc /\ urls' = urls /\ url' = url /\ got' = got /\ faults' = faults
         /\ notice' = notice
         /\ pc[r] = "analyse"
    BY DEF Analyse
  <1>11. AnswersFollow(r)'
    BY <1>1, <1>9, <1>10 DEF AnswersFollow, File
  <1>12. Lost(r)' = Lost(r)
    BY <1>1, <1>10 DEF Lost, File
  <1>13. Passed(r)'
    <2>1. Len(answers[r]) < Len(got[r])
      BY DEF Analyse
    <2> QED BY <1>10 DEF Chain, Passed
  <1> QED BY <1>10, <1>11, <1>12, <1>13 DEF Chain

LEMMA FaultGrows == ASSUME TypeInv, Fault PROVE faults <= faults'
  BY NoticeAssumption DEF TypeInv, Fault

\* What a process does leaves the locals of the others alone.
Apart(p) ==
  \A r \in Runs : r # p =>
    /\ urls'[r] = urls[r] /\ url'[r] = url[r]
    /\ got'[r] = got[r] /\ answers'[r] = answers[r] /\ pc'[r] = pc[r]

LEMMA ActsApart ==
  ASSUME TypeInv, NEW p \in Senders,
         \/ p \in Runs /\ (Begin(p) \/ Work(p) \/ Crash(p))
         \/ p = Admin /\ (Resend \/ Resent \/ Send(Admin) \/ SendRaises(Admin))
  PROVE  Apart(p) /\ faults <= faults'
  <1> USE DEF Apart, Goto
  <1>r. Runs \subseteq Senders /\ faults <= faults
    BY NoticeAssumption DEF TypeInv, Senders
  <1>e. End(p) => Apart(p)
    BY <1>r DEF TypeInv, End, Restart
  <1>x. Raise(p) => Apart(p)
    BY <1>r DEF TypeInv, Raise, Restart
  <1>n. NextUrl(p) /\ (got' = got \/ \E path : got' = [got EXCEPT ![p] = Append(@, path)])
          => Apart(p)
    BY <1>r DEF TypeInv, NextUrl
  <1>1. CASE Begin(p) \/ FetchDetail(p) \/ Get(p) \/ Compose(p) \/ Analyse(p) \/ Send(p)
    BY <1>1, <1>r DEF TypeInv, Begin, FetchDetail, Get, Compose, Analyse, Send, locals
  <1>2. CASE CheckFile(p)
    <2>1. faults <= faults'
      BY <1>2, <1>r, FaultGrows DEF CheckFile
    <2>2. PICK typed \in BOOLEAN :
            \/ SkipExisting(p, typed)
            \/ Goto(p, "get") /\ UNCHANGED locals
      BY <1>2 DEF CheckFile
    <2>3. CASE SkipExisting(p, typed)
      BY <2>1, <2>3, <1>n DEF SkipExisting, Saved
    <2>4. CASE Goto(p, "get") /\ UNCHANGED locals
      BY <2>1, <2>4, <1>r DEF locals, TypeInv
    <2> QED BY <2>2, <2>3, <2>4
  <1>3. CASE GetFails(p) \/ StreamBreaks(p)
    BY <1>3, <1>n, FaultGrows DEF GetFails, StreamBreaks, Dropped
  <1>4. CASE Finish(p)
    BY <1>4, <1>r, <1>n DEF Finish, Saved
  <1>5. CASE Downloaded(p)
    <2>1. CASE got[p] = <<>>
      BY <1>5, <2>1, <1>r, <1>x DEF Downloaded
    <2>2. CASE got[p] # <<>>
      BY <1>5, <2>2, <1>r DEF Downloaded, TypeInv, locals
    <2> QED BY <2>1, <2>2
  <1>6. CASE CannotRead(p) \/ CallRaises(p)
    BY <1>6, <1>r, <1>x, FaultGrows DEF CannotRead, CallRaises
  <1>7. CASE SendRaises(p)
    BY <1>7, <1>x, <1>e, FaultGrows DEF SendRaises
  <1>8. CASE Save(p) \/ SaveFail(p) \/ Crash(p)
    BY <1>8, <1>r, <1>e, FaultGrows DEF Save, SaveFail, Crash
  <1>9. CASE p = Admin /\ (Resend \/ Resent)
    BY <1>9, <1>r, <1>e DEF TypeInv, Resend, Resent
  <1> QED BY <1>1, <1>2, <1>3, <1>4, <1>5, <1>6, <1>7, <1>8, <1>9 DEF Work

LEMMA RestartChain ==
  ASSUME TypeInv, NEW r \in Runs, End(r) \/ Raise(r), faults' \in 0..MaxFaults
  PROVE  Chain(r)'
  <1>1. \/ Restart(r, 1, "idle")
        \/ Restart(r, attempt[r] + 1, "detail") \/ Restart(r, attempt[r], "fail")
    BY DEF End, Raise
  <1>2. /\ url'[r] = 1 /\ got'[r] = <<>> /\ answers'[r] = <<>>
        /\ pc'[r] \in {"idle", "detail", "fail"}
    BY <1>1, LocalType DEF Restart, Goto, TypeInv
  <1> QED BY <1>2, FreshChain

LEMMA ActorChain ==
  ASSUME TypeInv, TypeInv', DistinctNames, FilesInPlace, notice' = notice,
         NEW r \in Runs, Chain(r), Begin(r) \/ Work(r) \/ Crash(r)
  PROVE  Chain(r)'
  <1>i. Images' = Images
    BY DEF Images
  <1>f. faults <= faults' /\ faults' \in 0..MaxFaults /\ faults \in Int
    BY LocalType, ActsApart DEF TypeInv
  <1>t. r \in Senders /\ pc \in [Senders -> Labels]
    BY LocalType DEF TypeInv
  <1>1. CASE Begin(r) \/ Get(r)
    <2>1. /\ urls'[r] = urls[r] /\ url'[r] = url[r] /\ got'[r] = got[r]
          /\ answers'[r] = answers[r] /\ pc'[r] \in {"detail", "stream"}
      BY <1>1, <1>t DEF Begin, Get, Goto, locals
    <2>2. Passed(r)'
      BY <2>1 DEF Passed
    <2> QED BY <2>1, <2>2, <1>f, MoveChain
  <1>12. CASE FetchDetail(r)
    <2>1. PICK list \in Lists :
            /\ urls' = [urls EXCEPT ![r] = list]
            /\ IF list = <<>> THEN Goto(r, "send") ELSE Goto(r, "url")
      BY <1>12 DEF FetchDetail
    <2>2. /\ url'[r] = 1 /\ got'[r] = got[r] /\ answers'[r] = answers[r]
          /\ urls'[r] = <<>> \/ pc'[r] = "url"
      BY <1>12, <2>1, <1>t DEF FetchDetail, Goto, TypeInv, InList
    <2>3. Lost(r)' = {}
      <3>1. 1..(url'[r] - 1) = {}
        BY <2>2
      <3> QED BY <3>1 DEF Lost
    <2>4. Cardinality(Lost(r)') = 0
      BY <2>3, FS_EmptySet
    <2>5. Cardinality(Lost(r)') <= faults'
      BY <2>4, <1>f, LocalType
    <2>6. AnswersFollow(r)'
      BY <2>2, FileStill DEF Chain, AnswersFollow, File
    <2>7. Passed(r)'
      BY <2>2 DEF Passed
    <2> QED BY <2>5, <2>6, <2>7 DEF Chain
  <1>2. CASE CheckFile(r)
    <2>1. PICK typed \in BOOLEAN :
            \/ SkipExisting(r, typed)
            \/ Goto(r, "get") /\ UNCHANGED locals
      BY <1>2 DEF CheckFile
    <2>2. url[r] \in DOMAIN urls[r]
      BY <1>2 DEF CheckFile
    <2>3. CASE SkipExisting(r, typed)
      <3>1. Path(r, typed) \in DOMAIN disk /\ Saved(r, Path(r, typed))
        BY <2>3 DEF SkipExisting, Exists
      <3>2. Path(r, typed) = File(Image(r))
        BY <2>2, NamedPath
      <3>3. got'[r] = Append(got[r], File(Image(r))) /\ NextUrl(r)
        BY <3>1, <3>2, <1>t DEF Saved, TypeInv
      <3> QED BY <3>3, <2>2, <1>f, NextUrlChain
    <2>4. CASE Goto(r, "get") /\ UNCHANGED locals
      <3>1. /\ urls'[r] = urls[r] /\ url'[r] = url[r] /\ got'[r] = got[r] /\ answers'[r] = answers[r]
            /\ pc'[r] = "get"
        BY <2>4, <1>t DEF Goto, locals
      <3>2. Passed(r)'
        BY <3>1 DEF Passed
      <3> QED BY <3>1, <3>2, <1>f, MoveChain
    <2> QED BY <2>1, <2>3, <2>4
  <1>3. CASE GetFails(r) \/ StreamBreaks(r)
    <2>1. url[r] \in DOMAIN urls[r]
      BY <1>3, <1>t DEF GetFails, StreamBreaks, TypeInv, InList
    <2>2. NextUrl(r) /\ got'[r] = got[r] /\ faults' = faults + 1
      BY <1>3 DEF GetFails, StreamBreaks, Dropped, Fault
    <2> QED BY <2>1, <2>2, NextUrlChain
  <1>4. CASE Finish(r)
    <2>1. url[r] \in DOMAIN urls[r]
      BY <1>4, <1>t DEF Finish, TypeInv, InList
    <2>2. NextUrl(r) /\ got'[r] = Append(got[r], File(Image(r)))
      BY <1>4, <1>t, <2>1, NamedPath DEF Finish, Saved, TypeInv
    <2> QED BY <2>1, <2>2, <1>f, NextUrlChain
  <1>5. CASE Downloaded(r)
    <2>1. CASE got[r] = <<>>
      BY <1>5, <2>1, <1>f, RestartChain DEF Downloaded
    <2>2. CASE got[r] # <<>>
      <3>1. /\ urls'[r] = urls[r] /\ url'[r] = url[r] /\ got'[r] = got[r] /\ answers'[r] = answers[r]
            /\ pc'[r] = "analyse" /\ url[r] \notin DOMAIN urls[r]
        BY <1>5, <2>2, <1>t DEF Downloaded, Goto, locals
      <3>2. url[r] = Len(urls[r]) + 1
        BY <3>1, LocalType
      <3>3. Passed(r)'
        BY <3>1, <3>2 DEF Passed
      <3> QED BY <3>1, <3>3, <1>f, MoveChain
    <2> QED BY <2>1, <2>2
  <1>6. CASE Analyse(r)
    BY <1>6, AnalyseChain
  <1>7. CASE CannotRead(r) \/ CallRaises(r)
    BY <1>7, <1>f, RestartChain DEF CannotRead, CallRaises
  <1>8. CASE Compose(r)
    <2>1. /\ urls'[r] = urls[r] /\ url'[r] = url[r] /\ got'[r] = got[r] /\ answers'[r] = answers[r]
          /\ pc'[r] = "send" /\ pc[r] = "analyse" /\ Len(answers[r]) = Len(got[r])
      BY <1>8, <1>t DEF Compose, Goto
    <2>2. Passed(r)'
      BY <2>1, <1>i DEF Chain, Passed
    <2> QED BY <2>1, <2>2, <1>f, MoveChain
  <1>9. CASE Send(r)
    <2>1. /\ urls'[r] = urls[r] /\ url'[r] = url[r] /\ got'[r] = got[r] /\ answers'[r] = answers[r]
          /\ pc'[r] \in {"send", "sent"} /\ pc[r] = "send"
      BY <1>9, <1>t DEF Send, Goto
    <2>2. Passed(r)'
      BY <2>1, <1>i DEF Chain, Passed
    <2> QED BY <2>1, <2>2, <1>f, MoveChain
  <1>10. CASE SendRaises(r)
    BY <1>10, <1>f, RestartChain DEF SendRaises
  <1>11. CASE Save(r) \/ SaveFail(r) \/ Crash(r)
    BY <1>11, <1>f, RestartChain DEF Save, SaveFail, Crash
  <1> QED BY <1>1, <1>2, <1>3, <1>4, <1>5, <1>6, <1>7, <1>8, <1>9, <1>10, <1>11, <1>12
         DEF Work

LEMMA PlaceStep ==
  ASSUME TypeInv, DistinctNames, FilesInPlace, notice' = notice, [Next]_vars
  PROVE  FilesInPlace'
  <1>1. CASE disk' = disk
    BY <1>1 DEF FilesInPlace, File
  <1>2. ASSUME NEW r \in Runs, Get(r) \/ Finish(r) PROVE FilesInPlace'
    <2>1. url[r] \in DOMAIN urls[r]
      BY <1>2, LocalType DEF Get, Finish, TypeInv, InList
    <2>2. \E by, whole : Write(r, by, whole)
      BY <1>2 DEF Get, Finish, Stored
    <2> QED BY <2>1, <2>2, WritesInPlace
  <1>3. ASSUME NEW r \in Runs, Begin(r) \/ Work(r) \/ Crash(r)
        PROVE  disk' = disk \/ Get(r) \/ Finish(r)
    BY <1>3 DEF Begin, Work, Crash, FetchDetail, CheckFile, GetFails, StreamBreaks,
                Downloaded, Analyse, CannotRead, CallRaises, Compose, Send, SendRaises,
                Save, SaveFail
  <1>4. Resend \/ Resent \/ Send(Admin) \/ SendRaises(Admin) \/ UNCHANGED vars => disk' = disk
    BY DEF Resend, Resent, Send, SendRaises, vars
  <1> QED BY <1>1, <1>2, <1>3, <1>4 DEF Next

LEMMA LossInit == Init => LossInv
  <1> SUFFICES ASSUME Init PROVE LossInv
    OBVIOUS
  <1>1. DOMAIN disk = {}
    BY DEF Init
  <1>2. ASSUME NEW r \in Runs PROVE Chain(r)
    <2>1. r \in Senders
      BY DEF Senders
    <2>2. url[r] = 1 /\ got[r] = <<>> /\ answers[r] = <<>> /\ pc[r] = "idle" /\ faults = 0
      BY <2>1 DEF Init
    <2>3. Lost(r) = {}
      BY <2>2 DEF Lost
    <2>4. Cardinality(Lost(r)) = 0
      BY <2>3, FS_EmptySet
    <2> QED BY <2>2, <2>4 DEF Chain, AnswersFollow, Passed
  <1> QED BY <1>1, <1>2 DEF LossInv, FilesInPlace

LEMMA LossStep == TypeInv /\ TypeInv' /\ LossInv /\ [Next]_vars => LossInv'
  <1> SUFFICES ASSUME TypeInv, TypeInv', LossInv, [Next]_vars, DistinctNames'
               PROVE  FilesInPlace' /\ \A r \in Runs : Chain(r)'
    BY DEF LossInv
  <1>1. notice' = notice
    BY NoticeStill
  <1>2. DistinctNames
    BY <1>1, Zenon DEF DistinctNames, Images, Nameless
  <1>3. FilesInPlace /\ \A r \in Runs : Chain(r)
    BY <1>2 DEF LossInv
  <1>4. FilesInPlace'
    BY <1>1, <1>2, <1>3, PlaceStep
  <1>5. ASSUME NEW p \in Senders, Apart(p), faults <= faults', NEW r \in Runs, r # p
        PROVE  Chain(r)'
    BY <1>1, <1>3, <1>5, CalmChain DEF Apart
  <1>6. CASE UNCHANGED vars
    <2>1. faults <= faults
      BY NoticeAssumption DEF TypeInv
    <2>2. /\ urls' = urls /\ url' = url /\ got' = got /\ answers' = answers
          /\ pc' = pc /\ faults' = faults
      BY <1>6 DEF vars, locals
    <2>3. \A r \in Runs : Chain(r)'
      BY <1>1, <1>3, <2>1, <2>2, CalmChain
    <2> QED BY <2>3, <1>4
  <1>7. ASSUME NEW p \in Runs, Begin(p) \/ Work(p) \/ Crash(p), NEW r \in Runs
        PROVE  Chain(r)'
    <2>1. p \in Senders /\ Apart(p) /\ faults <= faults'
      BY <1>7, ActsApart DEF Senders
    <2>2. CASE r = p
      BY <1>1, <1>2, <1>3, <1>7, <2>2, ActorChain
    <2> QED BY <2>1, <2>2, <1>5
  <1>8. ASSUME Resend \/ Resent \/ Send(Admin) \/ SendRaises(Admin), NEW r \in Runs
        PROVE  Chain(r)'
    <2>1. Admin \in Senders /\ Apart(Admin) /\ faults <= faults' /\ r # Admin
      BY <1>8, ActsApart, NoticeAssumption DEF Senders
    <2> QED BY <2>1, <1>5
  <1> QED BY <1>4, <1>6, <1>7, <1>8 DEF Next

LEMMA LossMissing == TypeInv /\ LossInv => MissingPaidByFaults
  <1> SUFFICES ASSUME TypeInv, LossInv, DistinctNames, NEW r \in Runs, pc[r] = "sent"
               PROVE  Cardinality(Shown(r) \ ImagesIn(r)) <= faults
    BY DEF MissingPaidByFaults
  <1>1. Chain(r)
    BY DEF LossInv
  <1>l. /\ got[r] \in Seq(DOMAIN disk) /\ answers[r] \in Seq(Replies)
        /\ urls[r] \in Seq(Images) /\ Len(urls[r]) \in Nat
        /\ notice.count \in Nat /\ faults \in Int
    BY LocalType
  <1>2. ASSUME NEW i \in Shown(r), i \notin ImagesIn(r) PROVE i \in Lost(r)
    <2>0. PICK k \in DOMAIN urls[r] : i = urls[r][k]
      BY DEF Shown
    <2>s. i \in Images /\ k \in 1..Len(urls[r]) /\ urls[r] # <<>>
      BY <1>l, <2>0
    <2>1. url[r] = Len(urls[r]) + 1 /\ Len(answers[r]) = Len(got[r])
      BY <1>1, <2>s DEF Chain, Passed
    <2>2. k \in 1..(url[r] - 1)
      BY <2>1, <2>s, <1>l
    <2>3. ASSUME NEW j \in DOMAIN got[r], got[r][j] = File(i) PROVE FALSE
      <3>1. j \in DOMAIN answers[r]
        BY <2>1, <1>l
      <3>2. File(answers[r][j].of) = File(i)
        BY <3>1, <2>3, <1>1 DEF Chain, AnswersFollow
      <3>3. answers[r][j].of \in Images
        <4>1. answers[r][j] \in Replies
          BY <3>1, <1>l
        <4> QED BY <4>1 DEF Replies
      <3>4. answers[r][j].of = i
        BY <3>2, <3>3, <2>s DEF DistinctNames, File
      <3> QED BY <1>2, <3>1, <3>4 DEF ImagesIn
    <2> QED BY <2>0, <2>2, <2>3, <2>s DEF Lost
  <1>4. IsFiniteSet(Lost(r)) /\ Cardinality(Lost(r)) \in Nat
    BY LostFinite, <1>l
  <1> DEFINE M == Shown(r) \ ImagesIn(r)
  <1>5. M \subseteq Lost(r)
    BY <1>2
  <1> HIDE DEF M
  <1>6. Cardinality(M) <= Cardinality(Lost(r)) /\ Cardinality(M) \in Nat
    BY <1>4, <1>5, FS_Subset, FS_CardinalityType
  <1>7. Cardinality(Lost(r)) <= faults
    BY <1>1 DEF Chain
  <1>8. Cardinality(M) <= faults
    BY <1>4, <1>6, <1>7, <1>l
  <1> QED BY <1>8 DEF M

\* Of the images that the page showed to an attempt, every one that is not in a
\* message was lost to a failure, for any number of images, attempts and runs in
\* one directory: skipping the files that exist (image_downloader.py) drops no
\* image and takes none for another, as long as every URL has a name of its own.
THEOREM MissingCorrect == Spec => []MissingPaidByFaults
  BY TypeInit, TypeStep, LossInit, LossStep, LossMissing, PTL DEF Spec

-----------------------------------------------------------------------------
(* What the phone has and what is still to send are the messages of the text *)

Sending == {"send", "sent"}

\* A run that finds no image sends the title alone, and stores no text.
Due(p, messages) ==
  \/ messages = NoticeMessages(text[p])
  \/ p # Admin /\ text[p] = <<>> /\ messages = TitleMessage

Telling(p) ==
  IF pc[p] \in Sending
    THEN Due(p, phone[p] \o out[p]) /\ (out[p] = <<>> <=> pc[p] = "sent")
    ELSE phone[p] = <<>> /\ text[p] = <<>>

SentInv ==
  /\ row.summary \in Seq(Line)
  /\ text \in [Senders -> Seq(Line)]
  /\ out \in [Senders -> Seq(Msg)] /\ phone \in [Senders -> Seq(Msg)]
  /\ \A p \in Senders : Telling(p)

LEMMA AnswerType ==
  ASSUME NEW i \in Nat, NEW t \in Texts
  PROVE  Answer(i, t) \in Seq(Line)
  <1>1. t \in Seq(Nat \cup {MarkerLine}) /\ DOMAIN t = 1..Len(t) /\ Len(t) \in Nat
    BY NoticeAssumption
  <1>2. Marker \in Line /\ Blank \in Line
    BY OwnType DEF Marker, Blank
  <1>3. ASSUME NEW k \in 1..Len(t), t[k] # MarkerLine
        PROVE  [at |-> <<i, k>>, size |-> t[k]] \in Line
    <2>1. t[k] \in Nat /\ k \in Nat
      BY <1>1, <1>3
    <2> QED BY <2>1 DEF Line
  <1> HIDE DEF Line, Marker, Blank
  <1> QED BY <1>1, <1>2, <1>3 DEF Answer

LEMMA CombinedType ==
  ASSUME TypeInv, NEW list \in Seq(Replies)
  PROVE  Combined(list) \in Seq(Line)
  <1> DEFINE T == Seq(Line)
             parts == [k \in DOMAIN list |->
                        IF k = 1 THEN list[k].lines ELSE Separator \o list[k].lines]
  <1>1. DOMAIN list = 1..Len(list) /\ Len(list) \in Nat
    OBVIOUS
  <1>2. Separator \in T
    <2>1. Own(1, 0) \in Line /\ Own(2, 3) \in Line
      BY OwnType
    <2> HIDE DEF Line
    <2> QED BY <2>1 DEF Separator, Blank
  <1>3. ASSUME NEW k \in 1..Len(list)
        PROVE  list[k].lines \in T /\ Separator \o list[k].lines \in T
    <2>1. list[k] \in Replies
      OBVIOUS
    <2>2. PICK i \in Images, t \in Texts : list[k] = [of |-> i, lines |-> Answer(i, t)]
      BY <2>1 DEF Replies
    <2>3. i \in Nat
      BY Naturals
    <2>4. list[k].lines \in Seq(Line)
      BY <2>2, <2>3, AnswerType
    <2> QED BY <1>2, <2>4, Gluing
  <1> HIDE DEF T
  <1>4. parts \in Seq(T)
    BY <1>1, <1>3
  <1>5. Combined(list) = FlattenSeq(parts)
    BY DEF Combined
  <1> HIDE DEF parts
  <1> QED BY <1>4, <1>5, FlattenType DEF T

\* Only process p moves, in what SentInv speaks of.
Alone(p) ==
  /\ pc' = [pc EXCEPT ![p] = pc'[p]] /\ text' = [text EXCEPT ![p] = text'[p]]
  /\ out' = [out EXCEPT ![p] = out'[p]] /\ phone' = [phone EXCEPT ![p] = phone'[p]]

LEMMA AloneKeeps ==
  ASSUME TypeInv, SentInv, NEW p \in Senders, Alone(p), notice' = notice,
         row'.summary \in Seq(Line), text'[p] \in Seq(Line),
         out'[p] \in Seq(Msg), phone'[p] \in Seq(Msg), Telling(p)'
  PROVE  SentInv'
  <1>1. /\ text' \in [Senders -> Seq(Line)] /\ out' \in [Senders -> Seq(Msg)]
        /\ phone' \in [Senders -> Seq(Msg)]
    BY DEF SentInv, Alone
  <1>3. ASSUME NEW q \in Senders, q # p PROVE Telling(q)'
    <2>1. /\ pc'[q] = pc[q] /\ text'[q] = text[q]
          /\ out'[q] = out[q] /\ phone'[q] = phone[q]
      BY <1>3 DEF Alone, SentInv, TypeInv
    <2>2. Telling(q)
      BY DEF SentInv
    <2> QED BY <2>1, <2>2 DEF Telling, Due
  <1> QED BY <1>1, <1>3 DEF SentInv

\* A step of p that is not about messages.
Silent(p) ==
  /\ pc[p] \notin Sending /\ pc'[p] \notin Sending /\ pc' = [pc EXCEPT ![p] = pc'[p]]
  /\ text' = text /\ out' = out /\ phone' = phone /\ row' = row

LEMMA SilentKeeps ==
  ASSUME TypeInv, SentInv, NEW p \in Senders, Silent(p), notice' = notice
  PROVE  SentInv'
  <1>1. text \in [Senders -> Seq(Line)] /\ out \in [Senders -> Seq(Msg)]
        /\ phone \in [Senders -> Seq(Msg)]
    BY DEF SentInv
  <1>2. Alone(p)
    BY <1>1 DEF Silent, Alone
  <1>3. phone[p] = <<>> /\ text[p] = <<>>
    BY DEF SentInv, Telling, Silent
  <1>4. Telling(p)'
    BY <1>3 DEF Telling, Silent
  <1>5. row'.summary \in Seq(Line)
    BY DEF SentInv, Silent
  <1> QED BY <1>1, <1>2, <1>4, <1>5, AloneKeeps DEF Silent

LEMMA RestartKeeps ==
  ASSUME TypeInv, SentInv, NEW p \in Senders, End(p) \/ Raise(p), notice' = notice,
         row'.summary \in Seq(Line)
  PROVE  SentInv'
  <1>1. PICK label \in {"idle", "detail", "fail"} : \E n : Restart(p, n, label)
    BY DEF End, Raise
  <1>2. /\ pc' = [pc EXCEPT ![p] = label] /\ text' = [text EXCEPT ![p] = <<>>]
        /\ out' = [out EXCEPT ![p] = <<>>] /\ phone' = [phone EXCEPT ![p] = <<>>]
    BY <1>1 DEF Restart, Goto
  <1>3. pc'[p] = label /\ text'[p] = <<>> /\ out'[p] = <<>> /\ phone'[p] = <<>>
    BY <1>2 DEF TypeInv, SentInv
  <1>4. Alone(p) /\ Telling(p)'
    BY <1>2, <1>3 DEF Alone, Telling, Sending
  <1>5. <<>> \in Seq(Line) /\ <<>> \in Seq(Msg)
    OBVIOUS
  <1> QED BY <1>3, <1>4, <1>5, AloneKeeps, Zenon

\* p has put together the messages of a text, and sent none.
LEMMA ComposedKeeps ==
  ASSUME TypeInv, SentInv, NEW p \in Senders, notice' = notice, row' = row,
         pc[p] \notin Sending, pc' = [pc EXCEPT ![p] = "send"],
         NEW lines \in Seq(Line), text' = [text EXCEPT ![p] = lines],
         NEW messages \in Seq(Msg), out' = [out EXCEPT ![p] = messages], messages # <<>>,
         phone' = phone, Due(p, messages)'
  PROVE  SentInv'
  <1>1. phone \in [Senders -> Seq(Msg)] /\ phone[p] = <<>>
    BY DEF SentInv, Telling
  <1>2. pc'[p] = "send" /\ text'[p] = lines /\ out'[p] = messages
    BY DEF TypeInv, SentInv
  <1>3. Alone(p)
    BY <1>1, <1>2 DEF Alone
  <1>4. phone'[p] \o out'[p] = messages
    BY <1>1, <1>2, Gluing
  <1>5. Telling(p)'
    <2>1. Due(p, phone[p] \o out[p])'
      BY <1>4 DEF Due
    <2> QED BY <1>2, <2>1 DEF Telling, Sending
  <1>6. row'.summary \in Seq(Line) /\ phone'[p] \in Seq(Msg)
    BY <1>1 DEF SentInv
  <1> QED BY <1>2, <1>3, <1>5, <1>6, AloneKeeps, Zenon

LEMMA HandOver ==
  ASSUME NEW S, NEW h \in Seq(S), NEW o \in Seq(S), o # <<>>
  PROVE  /\ Append(h, Head(o)) \in Seq(S) /\ Tail(o) \in Seq(S)
         /\ Append(h, Head(o)) \o Tail(o) = h \o o
         /\ Len(o) = 1 <=> Tail(o) = <<>>
  <1>t. Append(h, Head(o)) \in Seq(S) /\ Tail(o) \in Seq(S)
    OBVIOUS
  <1>l. Len(o) = 1 <=> Tail(o) = <<>>
    <2>1. Len(o) \in Nat /\ Len(Tail(o)) = Len(o) - 1 /\ Len(<<>>) = 0
      OBVIOUS
    <2>2. Len(o) = 1 <=> Len(Tail(o)) = 0
      BY <2>1
    <2>3. Len(Tail(o)) = 0 => Tail(o) = <<>>
      <3>1. \A s \in Seq(S) : Len(s) = 0 => s = <<>>
        OBVIOUS
      <3> QED BY <1>t, <3>1, Zenon
    <2> QED BY <2>1, <2>2, <2>3, Zenon
  <1> DEFINE a == Append(h, Head(o)) \o Tail(o)
             b == h \o o
  <1>1. /\ a \in Seq(S) /\ b \in Seq(S) /\ Len(h) \in Nat /\ Len(o) \in Nat \ {0}
        /\ Len(a) = Len(h) + 1 + (Len(o) - 1) /\ Len(b) = Len(h) + Len(o)
    OBVIOUS
  <1>2. /\ \A i \in 1..Len(h) : a[i] = h[i] /\ b[i] = h[i]
        /\ a[Len(h) + 1] = o[1] /\ b[Len(h) + 1] = o[1]
    OBVIOUS
  <1>3. ASSUME NEW i \in (Len(h) + 2)..(Len(h) + Len(o)) PROVE a[i] = b[i]
    <2>1. b[i] = o[i - Len(h)]
      OBVIOUS
    <2>2. a[i] = Tail(o)[i - (Len(h) + 1)]
      OBVIOUS
    <2>3. Tail(o)[i - (Len(h) + 1)] = o[i - (Len(h) + 1) + 1]
      OBVIOUS
    <2> QED BY <1>1, <2>1, <2>2, <2>3
  <1> HIDE DEF a, b
  <1>4. ASSUME NEW i \in 1..Len(a) PROVE a[i] = b[i]
    <2>1. i \in 1..Len(h) \/ i = Len(h) + 1 \/ i \in (Len(h) + 2)..(Len(h) + Len(o))
      BY <1>1
    <2> QED BY <1>2, <1>3, <2>1
  <1>5. Len(a) = Len(b)
    BY <1>1
  <1>6. a = b
    BY <1>1, <1>4, <1>5, SeqEqual
  <1> QED BY <1>6, <1>t, <1>l, Zenon DEF a, b

LEMMA SendKeeps ==
  ASSUME TypeInv, SentInv, NEW p \in Senders, Send(p), notice' = notice
  PROVE  SentInv'
  <1> DEFINE o == out[p]
             h == phone[p]
  <1>1. pc[p] = "send" /\ o \in Seq(Msg) /\ h \in Seq(Msg) /\ o # <<>> /\ Due(p, h \o o)
    BY DEF SentInv, Send, Telling, Sending
  <1>2. /\ phone' = [phone EXCEPT ![p] = Append(h, Head(o))]
        /\ out' = [out EXCEPT ![p] = Tail(o)] /\ text' = text /\ row' = row
        /\ pc' = IF Len(o) = 1 THEN [pc EXCEPT ![p] = "sent"] ELSE pc
    BY DEF Send, Deliver, Goto
  <1>3. /\ phone'[p] = Append(h, Head(o)) /\ out'[p] = Tail(o)
        /\ pc'[p] = IF Len(o) = 1 THEN "sent" ELSE "send"
    BY <1>1, <1>2 DEF SentInv, TypeInv
  <1>4. Alone(p)
    BY <1>1, <1>2, <1>3 DEF Alone, SentInv, TypeInv
  <1> HIDE DEF o, h, Msg
  <1>5. /\ Append(h, Head(o)) \in Seq(Msg) /\ Tail(o) \in Seq(Msg)
        /\ Len(o) = 1 <=> Tail(o) = <<>>
        /\ Append(h, Head(o)) \o Tail(o) = h \o o
    BY <1>1, HandOver, Zenon
  <1>7. Telling(p)'
    <2>1. phone'[p] \o out'[p] = h \o o
      BY <1>3, <1>5
    <2>2. Due(p, phone[p] \o out[p])'
      BY <1>1, <1>2, <2>1 DEF Due
    <2> QED BY <1>3, <1>5, <2>2 DEF Telling, Sending
  <1>8. row'.summary \in Seq(Line) /\ text'[p] \in Seq(Line)
    BY <1>2 DEF SentInv
  <1> QED BY <1>3, <1>4, <1>5, <1>7, <1>8, AloneKeeps, Zenon

LEMMA SentInit == Init => SentInv
  <1> SUFFICES ASSUME Init PROVE SentInv
    OBVIOUS
  <1>1. <<>> \in Seq(Line) /\ <<>> \in Seq(Msg)
    OBVIOUS
  <1> QED BY <1>1 DEF Init, SentInv, Telling, Sending, NoRow

LEMMA RunKeeps ==
  ASSUME TypeInv, SentInv, notice' = notice, NEW r \in Runs, Begin(r) \/ Work(r) \/ Crash(r)
  PROVE  SentInv'
  <1>t. r \in Senders /\ pc \in [Senders -> Labels] /\ r # Admin
    BY NoticeAssumption DEF TypeInv, Senders
  <1>s. row.summary \in Seq(Line)
    BY DEF SentInv
  <1> USE DEF Goto, Sending
  <1>1. CASE Begin(r) \/ Get(r) \/ Analyse(r)
    <2>1. Silent(r)
      BY <1>1, <1>t DEF Begin, Get, Analyse, locals, Silent
    <2> QED BY <1>t, <2>1, SilentKeeps
  <1>2. CASE FetchDetail(r)
    <2>1. PICK list \in Lists :
            IF list = <<>> THEN Goto(r, "send") /\ out' = [out EXCEPT ![r] = TitleMessage]
                           ELSE Goto(r, "url") /\ UNCHANGED out
      BY <1>2 DEF FetchDetail
    <2>2. pc[r] \notin Sending /\ row' = row /\ text' = text /\ phone' = phone
      BY <1>2 DEF FetchDetail
    <2>3. CASE list = <<>>
      <3>1. /\ pc' = [pc EXCEPT ![r] = "send"] /\ out' = [out EXCEPT ![r] = TitleMessage]
        BY <2>1, <2>3
      <3>2. text[r] = <<>> /\ text[r] \in Seq(Line) /\ text' = [text EXCEPT ![r] = text[r]]
        BY <1>t, <2>2 DEF SentInv, Telling
      <3>3. Due(r, TitleMessage)'
        BY <1>t, <2>2, <3>2 DEF Due
      <3> QED BY <1>t, <2>2, <3>1, <3>2, <3>3, TitleMessageKeep, ComposedKeeps
    <2>4. CASE list # <<>>
      <3>1. Silent(r)
        BY <1>t, <2>1, <2>2, <2>4 DEF Silent
      <3> QED BY <1>t, <3>1, SilentKeeps
    <2> QED BY <2>3, <2>4
  <1>n. ASSUME NextUrl(r), pc[r] \notin Sending, row' = row PROVE Silent(r)
    BY <1>n, <1>t DEF NextUrl, Silent
  <1>3. CASE CheckFile(r)
    <2>1. PICK typed \in BOOLEAN :
            SkipExisting(r, typed) \/ (Goto(r, "get") /\ UNCHANGED locals)
      BY <1>3 DEF CheckFile
    <2>2. pc[r] \notin Sending /\ row' = row
      BY <1>3 DEF CheckFile
    <2>3. Silent(r)
      <3>1. CASE SkipExisting(r, typed)
        BY <1>n, <2>2, <3>1 DEF SkipExisting, Saved
      <3>2. CASE Goto(r, "get") /\ UNCHANGED locals
        BY <1>t, <2>2, <3>2 DEF locals, Silent
      <3> QED BY <2>1, <3>1, <3>2
    <2> QED BY <1>t, <2>3, SilentKeeps
  <1>4. CASE GetFails(r) \/ Finish(r) \/ StreamBreaks(r)
    <2>1. NextUrl(r) /\ pc[r] \notin Sending /\ row' = row
      BY <1>4 DEF GetFails, Finish, StreamBreaks, Dropped, Saved
    <2> QED BY <1>t, <1>n, <2>1, SilentKeeps
  <1>5. CASE Downloaded(r)
    <2>1. CASE got[r] = <<>>
      <3>1. Raise(r) /\ row' = row
        BY <1>5, <2>1 DEF Downloaded
      <3> QED BY <1>t, <1>s, <3>1, RestartKeeps
    <2>2. CASE got[r] # <<>>
      <3>1. Silent(r)
        BY <1>5, <1>t, <2>2 DEF Downloaded, Silent, locals
      <3> QED BY <1>t, <3>1, SilentKeeps
    <2> QED BY <2>1, <2>2
  <1>6. CASE CannotRead(r) \/ CallRaises(r) \/ SendRaises(r)
    <2>1. Raise(r) /\ row' = row
      BY <1>6, <1>t DEF CannotRead, CallRaises, SendRaises
    <2> QED BY <1>t, <1>s, <2>1, RestartKeeps
  <1>7. CASE Compose(r)
    <2>1. PICK lines \in Seq(Line) : lines = Combined(answers[r])
      <3>1. answers[r] \in Seq(Replies)
        BY <1>t DEF TypeInv
      <3> QED BY <3>1, CombinedType
    <2>2. /\ pc[r] \notin Sending /\ pc' = [pc EXCEPT ![r] = "send"] /\ row' = row
          /\ text' = [text EXCEPT ![r] = lines] /\ phone' = phone
          /\ out' = [out EXCEPT ![r] = NoticeMessages(lines)]
      BY <1>7, <2>1 DEF Compose
    <2>3. NoticeMessages(lines) \in Seq(Msg) /\ NoticeMessages(lines) # <<>>
      BY <2>1, NoticeMessagesKeep
    <2>4. Due(r, NoticeMessages(lines))'
      <3>1. text'[r] = lines
        BY <1>t, <2>2 DEF SentInv
      <3> QED BY <3>1 DEF Due
    <2> QED BY <1>t, <2>1, <2>2, <2>3, <2>4, ComposedKeeps
  <1>8. CASE Send(r)
    BY <1>t, <1>8, SendKeeps
  <1>9. CASE Save(r)
    <2>1. End(r) /\ row'.summary = text[r] /\ text[r] \in Seq(Line)
      BY <1>9, <1>t DEF Save, SentInv
    <2> QED BY <1>t, <2>1, RestartKeeps
  <1>10. CASE SaveFail(r)
    <2>1. End(r) /\ row'.summary = <<>> /\ <<>> \in Seq(Line)
      BY <1>10 DEF SaveFail
    <2> QED BY <1>t, <2>1, RestartKeeps
  <1>11. CASE Crash(r)
    BY <1>11, <1>t, <1>s, RestartKeeps DEF Crash
  <1> QED BY <1>1, <1>2, <1>3, <1>4, <1>5, <1>6, <1>7, <1>8, <1>9, <1>10, <1>11 DEF Work

LEMMA AdminKeeps ==
  ASSUME TypeInv, SentInv, notice' = notice,
         Resend \/ Resent \/ Send(Admin) \/ SendRaises(Admin)
  PROVE  SentInv'
  <1>t. Admin \in Senders
    BY DEF Senders
  <1>s. row.summary \in Seq(Line)
    BY DEF SentInv
  <1>1. CASE Resend
    <2> DEFINE lines == row.summary
    <2>1. /\ pc[Admin] \notin Sending /\ pc' = [pc EXCEPT ![Admin] = "send"] /\ row' = row
          /\ text' = [text EXCEPT ![Admin] = lines] /\ phone' = phone
          /\ out' = [out EXCEPT ![Admin] = NoticeMessages(lines)]
      BY <1>1 DEF Resend, Goto, Sending
    <2>2. NoticeMessages(lines) \in Seq(Msg) /\ NoticeMessages(lines) # <<>>
      BY <1>s, NoticeMessagesKeep
    <2>3. Due(Admin, NoticeMessages(lines))'
      <3>1. text'[Admin] = lines
        BY <1>t, <2>1 DEF SentInv
      <3> QED BY <2>1, <3>1 DEF Due
    <2> QED BY <1>t, <1>s, <2>1, <2>2, <2>3, ComposedKeeps
  <1>2. CASE Resent \/ SendRaises(Admin)
    <2>1. End(Admin) /\ row' = row
      BY <1>2 DEF Resent, SendRaises
    <2> QED BY <1>t, <1>s, <2>1, RestartKeeps
  <1>3. CASE Send(Admin)
    BY <1>t, <1>3, SendKeeps
  <1> QED BY <1>1, <1>2, <1>3

LEMMA SentStep == TypeInv /\ SentInv /\ [Next]_vars => SentInv'
  <1> SUFFICES ASSUME TypeInv, SentInv, [Next]_vars PROVE SentInv'
    OBVIOUS
  <1>1. notice' = notice
    BY NoticeStill
  <1>2. CASE UNCHANGED vars
    BY <1>2 DEF vars, locals, SentInv, Telling, Due
  <1>3. ASSUME NEW r \in Runs, Begin(r) \/ Work(r) \/ Crash(r) PROVE SentInv'
    BY <1>1, <1>3, RunKeeps
  <1>4. CASE Resend \/ Resent \/ Send(Admin) \/ SendRaises(Admin)
    BY <1>1, <1>4, AdminKeeps
  <1> QED BY <1>2, <1>3, <1>4 DEF Next

-----------------------------------------------------------------------------
(* What follows of the messages that arrived *)

LEMMA SentOrders == TypeInv /\ SentInv => ArrivesInOrder
  <1> SUFFICES ASSUME TypeInv, SentInv, NEW p \in Senders, pc[p] = "sent"
               PROVE  Heard(phone[p]) = BeforeSecondMarker(text[p])
    BY DEF ArrivesInOrder
  <1>1. phone[p] \in Seq(Msg) /\ text[p] \in Seq(Line) /\ out[p] = <<>>
    BY DEF SentInv, Telling, Sending
  <1>2. phone[p] \o out[p] = phone[p]
    BY <1>1, Gluing
  <1>3. Due(p, phone[p])
    BY <1>2 DEF SentInv, Telling, Sending
  <1>4. CASE phone[p] = NoticeMessages(text[p])
    BY <1>1, <1>4, NoticeMessagesKeep
  <1>5. CASE text[p] = <<>> /\ phone[p] = TitleMessage
    <2>1. Markers(<<>>) = {} /\ <<>> \in Seq(Line)
      BY DEF Markers
    <2>2. BeforeSecondMarker(<<>>) = <<>>
      BY <2>1, NoMarker, KeptEmpty
    <2> QED BY <1>5, <2>2, TitleMessageKeep
  <1> QED BY <1>3, <1>4, <1>5 DEF Due

LEMMA Couples ==
  ASSUME NEW x, NEW y
  PROVE  /\ Append(<<x>>, y) = <<x, y>> /\ <<x>> \o <<y>> = <<x, y>>
         /\ <<>> \o <<>> = <<>> /\ <<x>> \o <<>> = <<x>> /\ <<>> \o <<y>> = <<y>>
  <1> DEFINE S == {x, y}
  <1>1. /\ <<x>> \in Seq(S) /\ <<y>> \in Seq(S) /\ <<>> \in Seq(S) /\ <<x, y>> \in Seq(S)
        /\ x \in S /\ y \in S
    OBVIOUS
  <1> HIDE DEF S
  <1>2. <<>> \o <<>> = <<>> /\ <<x>> \o <<>> = <<x>> /\ <<>> \o <<y>> = <<y>>
    BY <1>1, Gluing
  <1>3. Append(<<x>>, y) = <<x, y>>
    <2>1. /\ Append(<<x>>, y) \in Seq(S) /\ Len(Append(<<x>>, y)) = 2 /\ Len(<<x, y>>) = 2
          /\ Append(<<x>>, y)[1] = x /\ Append(<<x>>, y)[2] = y
          /\ <<x, y>>[1] = x /\ <<x, y>>[2] = y
      BY <1>1
    <2>2. \A i \in 1..2 : i = 1 \/ i = 2
      OBVIOUS
    <2> QED BY <1>1, <2>1, <2>2, SeqEqual
  <1>4. <<x>> \o <<y>> = <<x, y>>
    <2>1. Append(<<>>, y) = <<y>>
      OBVIOUS
    <2>2. <<x>> \o Append(<<>>, y) = Append(<<x>> \o <<>>, y)
      BY <1>1, GlueAppend
    <2> QED BY <1>2, <1>3, <2>1, <2>2
  <1> QED BY <1>2, <1>3, <1>4

\* The messages of one or two whole parts.
LEMMA AllOfParts ==
  ASSUME NEW c, Split(c) \in Seq(Msg)
  PROVE  /\ AllOf(<<>>) = <<>> /\ AllOf(<<c>>) = Split(c)
         /\ \A s : Split(s) \in Seq(Msg) => AllOf(<<c, s>>) = Split(c) \o Split(s)
  <1> DEFINE S == Msg
             x == Split(c)
  <1>0. x \in Seq(S)
    OBVIOUS
  <1> HIDE DEF S
  <1>1. AllOf(<<>>) = <<>>
    <2>1. [k \in DOMAIN <<>> |-> Split(<<>>[k])] = <<>>
      OBVIOUS
    <2> QED BY <2>1, FlattenEmpty DEF AllOf
  <1>2. AllOf(<<c>>) = Split(c)
    <2>1. [k \in DOMAIN <<c>> |-> Split(<<c>>[k])] = <<x>>
      OBVIOUS
    <2>2. FlattenSeq(<<x>>) = x
      <3> HIDE DEF x
      <3> QED BY <1>0, FlattenOne
    <2> QED BY <2>1, <2>2, Zenon DEF AllOf
  <1>3. ASSUME NEW s, Split(s) \in Seq(S) PROVE AllOf(<<c, s>>) = Split(c) \o Split(s)
    <2> DEFINE y == Split(s)
    <2>0. y \in Seq(S)
      BY <1>3
    <2>1. [k \in DOMAIN <<c, s>> |-> Split(<<c, s>>[k])] = Append(<<x>>, y)
      <3>1. Append(<<x>>, y) = <<x, y>>
        BY Couples
      <3>2. [k \in DOMAIN <<c, s>> |-> Split(<<c, s>>[k])] = <<x, y>>
        OBVIOUS
      <3> QED BY <3>1, <3>2, Zenon
    <2>2. FlattenSeq(Append(<<x>>, y)) = x \o y
      <3> HIDE DEF x, y
      <3>1. <<x>> \in Seq(Seq(S)) /\ FlattenSeq(<<x>>) = x
        BY <1>0, FlattenOne
      <3>2. FlattenSeq(Append(<<x>>, y)) = FlattenSeq(<<x>>) \o y
        BY <2>0, <3>1, FlattenAppend, Zenon
      <3> QED BY <3>1, <3>2, Zenon
    <2> QED BY <2>1, <2>2, Zenon DEF AllOf
  <1> QED BY <1>1, <1>2, <1>3, Zenon DEF S

\* The messages of a text are those of the parts that the page shows, after a
\* heading alone if nothing is before the marker.
LEMMA PreviewTells ==
  ASSUME NEW lines \in Seq(Line)
  PROVE  NoticeMessages(lines) = HeadingAlone(lines) \o AllOf(Preview(lines))
  <1> DEFINE content == ContentPart(lines)
             schedule == SchedulePart(lines)
             c == ContentHead \o content
             s == ScheduleHead \o schedule
             bare == Split(ContentHead \o <<Blank>>)
             x == Split(ContentHead \o (IF content = <<>> THEN <<Blank>> ELSE content))
             y == IF schedule = <<>> THEN <<>> ELSE Split(s)
             a == IF content = <<>> THEN <<>> ELSE <<c>>
             b == IF schedule = <<>> THEN <<>> ELSE <<s>>
             h == IF content = <<>> THEN bare ELSE <<>>
  <1>1. /\ content \in Seq(Line) /\ schedule \in Seq(Line)
    BY PartsKeep DEF From
  <1>2. /\ NoticeMessages(lines) = x \o y /\ Preview(lines) = a \o b /\ HeadingAlone(lines) = h
    BY DEF NoticeMessages, Preview, HeadingAlone
  <1>3. /\ Split(c) \in Seq(Msg) /\ Split(s) \in Seq(Msg) /\ bare \in Seq(Msg)
    <2>1. <<Blank>> \in Seq(Line)
      BY BlankKept
    <2> HIDE DEF content, schedule
    <2> QED BY <1>1, <2>1, Headings, Headed, Zenon
  <1> HIDE DEF content, schedule
  <1>4. /\ content = <<>> => x = bare /\ h = bare /\ a = <<>>
        /\ content # <<>> => x = Split(c) /\ h = <<>> /\ a = <<c>>
        /\ schedule = <<>> => y = <<>> /\ b = <<>>
        /\ schedule # <<>> => y = Split(s) /\ b = <<s>>
    <2> HIDE DEF c, s, bare
    <2> QED BY Zenon DEF c, bare
  <1> HIDE DEF c, s, bare, x, y, a, b, h
  <1>5. /\ AllOf(<<>>) = <<>> /\ AllOf(<<c>>) = Split(c) /\ AllOf(<<s>>) = Split(s)
        /\ AllOf(<<c, s>>) = Split(c) \o Split(s)
    BY <1>3, AllOfParts, Zenon
  <1>6. /\ <<>> \o <<>> = <<>> /\ <<c>> \o <<>> = <<c>> /\ <<>> \o <<s>> = <<s>>
        /\ <<c>> \o <<s>> = <<c, s>>
    BY Couples
  <1>7. /\ bare \o <<>> = bare /\ Split(c) \o <<>> = Split(c) /\ <<>> \o Split(c) = Split(c)
        /\ <<>> \o (Split(c) \o Split(s)) = Split(c) \o Split(s)
    BY <1>3, Gluing
  <1>8. CASE content = <<>> /\ schedule = <<>>
    BY <1>2, <1>4, <1>5, <1>6, <1>7, <1>8, Zenon
  <1>9. CASE content = <<>> /\ schedule # <<>>
    BY <1>2, <1>4, <1>5, <1>6, <1>7, <1>9, Zenon
  <1>10. CASE content # <<>> /\ schedule = <<>>
    BY <1>2, <1>4, <1>5, <1>6, <1>7, <1>10, Zenon
  <1>11. CASE content # <<>> /\ schedule # <<>>
    BY <1>2, <1>4, <1>5, <1>6, <1>7, <1>11, Zenon
  <1> QED BY <1>8, <1>9, <1>10, <1>11

LEMMA SentResends == TypeInv /\ SentInv => ResendAsShown
  <1> SUFFICES ASSUME TypeInv, SentInv, pc[Admin] = "sent"
               PROVE  phone[Admin] = HeadingAlone(text[Admin]) \o AllOf(Preview(text[Admin]))
    BY DEF ResendAsShown
  <1>1. Admin \in Senders
    BY DEF Senders
  <1>2. phone[Admin] \in Seq(Msg) /\ text[Admin] \in Seq(Line) /\ out[Admin] = <<>>
    BY <1>1 DEF SentInv, Telling, Sending
  <1>3. phone[Admin] \o out[Admin] = phone[Admin]
    BY <1>2, Gluing
  <1>4. phone[Admin] = NoticeMessages(text[Admin])
    BY <1>1, <1>3 DEF SentInv, Telling, Sending, Due
  <1> QED BY <1>2, <1>4, PreviewTells

LEMMA AmongAll ==
  ASSUME NEW S, NEW a \in Seq(S), NEW b \in Seq(S), NEW k \in DOMAIN a
  PROVE  a # <<>> /\ k \in 1..Len(a \o b) /\ (a \o b)[k] = a[k]
  OBVIOUS

LEMMA SentCuts == TypeInv /\ SentInv => NoNeedlessCut
  <1> SUFFICES ASSUME TypeInv, SentInv, NEW p \in Senders, NEW k \in DOMAIN phone[p],
                      ~\E i \in DOMAIN text[p] : text[p][i].size >= MaxText
               PROVE  Plain(phone[p][k])
    <2>1. ASSUME NEW p \in Senders, NEW k \in DOMAIN phone[p], phone[p][k] \in Msg,
                 Plain(phone[p][k])
          PROVE  ~(phone[p][k].size > Cap \/ ~\E i \in DOMAIN phone[p][k].lines :
                                                 Written(phone[p][k].lines[i]))
      <3> DEFINE message == phone[p][k]
      <3>1. message.size \in Nat /\ message.lines \in Seq(Line) /\ message.size <= Cap
        BY <2>1 DEF Msg, Plain
      <3>2. DOMAIN message.lines = 1..Len(message.lines)
        BY <3>1
      <3>3. \E i \in DOMAIN message.lines : Written(message.lines[i])
        BY <2>1, <3>2, Zenon DEF Plain, HasText
      <3> HIDE DEF message
      <3>4. ~(message.size > Cap)
        BY <3>1, SizesAssumption
      <3> QED BY <3>3, <3>4 DEF message
    <2>2. ASSUME SentInv, NEW p \in Senders, NEW k \in DOMAIN phone[p]
          PROVE  phone[p][k] \in Msg
      <3>1. phone[p] \in Seq(Msg)
        BY <2>2 DEF SentInv
      <3> QED BY <3>1
    <2> QED BY <2>1, <2>2, Zenon DEF NoNeedlessCut
  <1>1. /\ phone[p] \in Seq(Msg) /\ out[p] \in Seq(Msg) /\ text[p] \in Seq(Line)
    BY DEF SentInv
  <1>2. \A i \in 1..Len(text[p]) : text[p][i].size < MaxText
    <2>1. ASSUME NEW i \in 1..Len(text[p]) PROVE text[p][i].size < MaxText
      <3>1. text[p][i] \in Line /\ i \in DOMAIN text[p]
        BY <1>1
      <3>2. text[p][i].size \in Nat /\ MaxText \in Nat
        BY <3>1, SizesAssumption DEF Line
      <3> QED BY <3>1, <3>2
    <2> QED BY <2>1
  <1> DEFINE all == phone[p] \o out[p]
  <1>3. /\ phone[p] # <<>> /\ k \in 1..Len(all) /\ all[k] = phone[p][k]
    BY <1>1, AmongAll, ZenonT(30)
  <1> HIDE DEF all
  <1>4. pc[p] \in Sending
    BY <1>3 DEF SentInv, Telling
  <1>5. all = NoticeMessages(text[p]) \/ all = TitleMessage
    BY <1>4 DEF SentInv, Telling, Due, all
  <1>6. Plain(all[k])
    BY <1>1, <1>2, <1>3, <1>5, NoticeMessagesKeep, TitleMessageKeep
  <1> QED BY <1>3, <1>6

\* Whatever failures came before, the phone has every line of a text in order and
\* once when its last message is out, for every text and every length of a message
\* (kakao.py:124), except for what follows a second marker and for lines that no
\* message holds.
THEOREM OrderCorrect == Spec => []ArrivesInOrder
  BY TypeInit, TypeStep, SentInit, SentStep, SentOrders, PTL DEF Spec

\* A message is cut, or sent without any text, only around a line that leaves no
\* room beside it (_send_chunked), for every text and every length of a message.
THEOREM CutCorrect == Spec => []NoNeedlessCut
  BY TypeInit, TypeStep, SentInit, SentStep, SentCuts, PTL DEF Spec

\* What a resend puts on the phone is, message by message and with every cut, what
\* the page showed (kakao_format.py:15), after a heading alone when the text begins
\* with the marker (kakao.py:132): for every text and every length of a message.
THEOREM ResendCorrect == Spec => []ResendAsShown
  BY TypeInit, TypeStep, SentInit, SentStep, SentResends, PTL DEF Spec
===============================================================================
