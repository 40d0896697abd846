-------------------------- MODULE RoomContextProofs --------------------------
(***************************************************************************)
(* What holds of RoomContext for every number of messages, outages, sends  *)
(* and files, every historyLimit and every cap on notes.                   *)
(***************************************************************************)
EXTENDS RoomContext, FiniteSetTheorems, TLAPS

\* The numbers under which entries and refusals were recorded.
Recorded == 1 .. Len(recorded)
Noted    == 1 .. noted

\* Nothing was shown that was not recorded.
ShownRecorded ==
  /\ given.entries \subseteq Recorded
  /\ turn.entries \subseteq Recorded
  /\ given.refusals \subseteq Noted
  /\ turn.refusals \subseteq Noted

\* Where a media send stands: which of its files are refused and told so far,
\* and where its text is.
SendInv(s) ==
  LET late == s.album = "failed" /\ s.late = "none" /\ s.refused # s.files IN
  /\ s.items <= s.files /\ s.refused <= s.files
  /\ s.album # "none" => s.items > 0
  /\ s.refused # s.files - s.items => s.refused = s.files /\ s.album = "failed" /\ s.late = "none"
  /\ (s.album = "pending") <=> (s.late = "watch")
  /\ s.late \in {"resend", "report"} => s.album = "failed" /\ s.refused = s.files - s.items
  /\ s.step = "new" => s = NewSend
  /\ s.step \in {"text", "album", "gaveup"} => s.album = "none"
  /\ s.step = "album" => s.items > 0
  /\ s.step = "resend" => s.album = "failed" /\ Captioned(s) /\ s.refused = s.files /\ s.late = "none"
  /\ s.step \in {"report", "done", "threw"} /\ s.album = "none" => s.items = 0
  /\ s.told = (IF late THEN s.items ELSE 0)
              + (IF s.step \in {"done", "threw"} THEN s.refused ELSE 0)
  /\ s.step = "text" => ~ Captioned(s) /\ ~ s.said
  /\ s.step = "album" => s.said \/ s.text = "none" \/ Captioned(s)
  /\ Captioned(s) /\ s.album # "failed" => ~ s.said
  /\ s.late = "resend" => Captioned(s)
  /\ s.step \in {"report", "done", "threw"} /\ s.text # "none" /\ s.late # "resend" =>
       s.said \/ s.failedToSay \/ (Captioned(s) /\ s.album \in {"queued", "pending"})

SendsInv == \A i \in Sends : SendInv(send[i])

RoomInv == ShownRecorded /\ HistoryKept /\ NotesKept /\ ShownOnce /\ TurnHoldsHistory

IInv == TypeOK /\ RoomInv /\ SendsInv

-----------------------------------------------------------------------------
(* The lists.                                                              *)

\* A list is finite.
LEMMA ListFinite ==
  ASSUME NEW n \in Nat, NEW S \in SUBSET (1 .. n)
  PROVE  IsFiniteSet(S)
<1>1. IsFiniteSet(1 .. n)
  BY FS_Interval
<1> QED BY <1>1, FS_Subset

\* slice(-k) keeps at most k entries, all of them from the list.
LEMMA SliceKeeps ==
  ASSUME NEW n \in Nat, NEW S \in SUBSET (1 .. n), NEW k \in Nat \ {0}
  PROVE  /\ Slice(S, k) \subseteq S
         /\ Within(Slice(S, k), k)
<1>1. Slice(S, k) \subseteq S
  BY DEF Slice
<1>2. ASSUME NEW e \in Slice(S, k)
      PROVE  Cardinality(Newer(Slice(S, k), e)) < k
  <2>1. e \in S /\ Cardinality(Newer(S, e)) < k
    BY DEF Slice
  <2>2. IsFiniteSet(Newer(S, e))
    <3>1. Newer(S, e) \in SUBSET (1 .. n)
      BY DEF Newer
    <3> QED BY <3>1, ListFinite
  <2>3. Newer(Slice(S, k), e) \in SUBSET Newer(S, e)
    BY <1>1 DEF Newer
  <2>4. /\ Cardinality(Newer(Slice(S, k), e)) <= Cardinality(Newer(S, e))
        /\ Cardinality(Newer(S, e)) \in Nat
        /\ Cardinality(Newer(Slice(S, k), e)) \in Nat
    BY <2>2, <2>3, FS_Subset, FS_CardinalityType
  <2> QED BY <2>1, <2>4
<1> QED BY <1>1, <1>2 DEF Within

\* What slice(-k) drops has k newer ones.
LEMMA SliceDrops ==
  ASSUME NEW n \in Nat, NEW S \in SUBSET (1 .. n), NEW k \in Nat \ {0},
         NEW e \in S \ Slice(S, k)
  PROVE  n - e >= k
<1>1. ~ (Cardinality(Newer(S, e)) < k)
  BY DEF Slice
<1>2. Newer(S, e) \in SUBSET (e + 1 .. n) /\ e \in 1 .. n
  <2>1. e \in 1 .. n /\ S \subseteq 1 .. n
    OBVIOUS
  <2>2. \A f \in Newer(S, e) : f \in 1 .. n /\ f > e
    BY <2>1 DEF Newer
  <2>3. \A f \in Newer(S, e) : f \in e + 1 .. n
    BY <2>1, <2>2
  <2> QED BY <2>1, <2>3
<1>3. IsFiniteSet(e + 1 .. n) /\ Cardinality(e + 1 .. n) = n - e
  BY <1>2, FS_Interval
<1>4. Cardinality(Newer(S, e)) <= n - e /\ Cardinality(Newer(S, e)) \in Nat
  BY <1>2, <1>3, FS_Subset, FS_CardinalityType
<1> QED BY <1>1, <1>2, <1>4

\* Fewer entries are still within the cap.
LEMMA FewerWithin ==
  ASSUME NEW n \in Nat, NEW S \in SUBSET (1 .. n), NEW T \in SUBSET S, NEW k \in Nat,
         Within(S, k)
  PROVE  Within(T, k)
<1>1. ASSUME NEW e \in T
      PROVE  Cardinality(Newer(T, e)) < k
  <2>1. Newer(S, e) \in SUBSET (1 .. n) /\ Newer(T, e) \in SUBSET Newer(S, e)
    BY DEF Newer
  <2>2. IsFiniteSet(Newer(S, e))
    BY <2>1, ListFinite
  <2>3. /\ Cardinality(Newer(T, e)) <= Cardinality(Newer(S, e))
        /\ Cardinality(Newer(S, e)) \in Nat
        /\ Cardinality(Newer(T, e)) \in Nat
    BY <2>1, <2>2, FS_Subset, FS_CardinalityType
  <2>4. Cardinality(Newer(S, e)) < k
    BY DEF Within
  <2> QED BY <2>3, <2>4
<1> QED BY <1>1 DEF Within

\* recordSkipped keeps the history what it has to be.
LEMMA Recording ==
  ASSUME TypeOK, ShownRecorded, HistoryKept, NEW m \in Msgs, RecordSkipped(m),
         UNCHANGED <<limit, given, forgotten, turn>>,
         (history \cup turn.entries) \cap given.entries = {}
  PROVE  /\ recorded' \in Seq(Msgs)
         /\ history' \subseteq 1 .. Len(recorded')
         /\ Within(history', limit)
         /\ forgotten \in 0 .. Len(recorded')
         /\ given.entries \subseteq 1 .. Len(recorded')
         /\ turn.entries \subseteq 1 .. Len(recorded')
         /\ HistoryKept'
         /\ (history' \cup turn.entries) \cap given.entries = {}
<1> DEFINE n == Len(recorded)
           S == history \cup {n + 1}
<1>0. /\ n \in Nat /\ recorded \in Seq(Msgs) /\ history \subseteq 1 .. n
      /\ Within(history, limit) /\ forgotten \in 0 .. n /\ limit \in Nat
      /\ given.entries \subseteq 1 .. n /\ turn.entries \subseteq 1 .. n
  BY LimitsAssumption DEF TypeOK, ShownRecorded, Recorded
<1>1. CASE limit = 0
  BY <1>0, <1>1 DEF RecordSkipped, HistoryKept
<1>2. CASE limit # 0
  <2>1. /\ recorded' = Append(recorded, m)
        /\ history' = Slice(S, limit)
    BY <1>2 DEF RecordSkipped
  <2>2. recorded' \in Seq(Msgs) /\ Len(recorded') = n + 1
    BY <1>0, <2>1
  <2>3. S \in SUBSET (1 .. n + 1) /\ n + 1 \in Nat /\ limit \in Nat \ {0}
    <3>1. n + 1 \in 1 .. n + 1 /\ \A e \in 1 .. n : e \in 1 .. n + 1
      BY <1>0
    <3>2. \A e \in S : e \in 1 .. n + 1
      BY <1>0, <3>1
    <3>3. S \subseteq 1 .. n + 1
      BY <3>2
    <3>4. n + 1 \in Nat /\ limit \in Nat \ {0}
      BY <1>0, <1>2
    <3> HIDE DEF S, n
    <3> QED BY <3>3, <3>4
  <2>4. history' \subseteq S /\ Within(history', limit)
    <3>1. Slice(S, limit) \subseteq S /\ Within(Slice(S, limit), limit)
      <4> DEFINE N == n + 1
      <4>1. S \in SUBSET (1 .. N) /\ N \in Nat /\ limit \in Nat \ {0}
        BY <2>3
      <4> HIDE DEF S, N
      <4> QED BY <4>1, SliceKeeps
    <3> QED BY <2>1, <3>1
  <2>5. ASSUME NEW e \in S \ history'
        PROVE  (n + 1) - e >= limit
    <3> DEFINE N == n + 1
    <3>1. S \in SUBSET (1 .. N) /\ N \in Nat /\ limit \in Nat \ {0} /\ e \in S \ Slice(S, limit)
      BY <2>1, <2>3
    <3>2. N - e >= limit
      <4> HIDE DEF S, N
      <4> QED BY <3>1, SliceDrops
    <3> QED BY <3>2
  <2>6. HistoryKept'
    <3> SUFFICES ASSUME NEW e \in forgotten + 1 .. n + 1, e \notin history', e \notin given.entries
                 PROVE  (n + 1) - e >= limit
      BY <2>2 DEF HistoryKept
    <3>1. CASE e \in S
      BY <2>5, <3>1
    <3>2. CASE e \notin S
      <4>1. e \in forgotten + 1 .. n /\ e \notin history
        BY <1>0, <3>2
      <4>2. n - e >= limit
        BY <4>1 DEF HistoryKept
      <4> QED BY <1>0, <4>1, <4>2
    <3> QED BY <3>1, <3>2
  <2>7. (history' \cup turn.entries) \cap given.entries = {}
    <3>1. n + 1 \notin given.entries
      BY <1>0
    <3> QED BY <2>4, <3>1
  <2>8. /\ 1 .. n \subseteq 1 .. n + 1
        /\ forgotten \in 0 .. n + 1
    BY <1>0
  <2> QED BY <1>0, <2>2, <2>3, <2>4, <2>6, <2>7, <2>8
<1> QED BY <1>1, <1>2

\* reportRefusals keeps the notes what they have to be.
LEMMA Noting ==
  ASSUME TypeOK, ShownRecorded, NotesKept, NEW k \in Nat, Note(k),
         UNCHANGED <<given, turn>>,
         (notes \cup turn.refusals) \cap given.refusals = {}
  PROVE  /\ noted' \in Nat
         /\ notes' \subseteq 1 .. noted'
         /\ Within(notes', MaxNotes)
         /\ given.refusals \subseteq 1 .. noted'
         /\ turn.refusals \subseteq 1 .. noted'
         /\ NotesKept'
         /\ (notes' \cup turn.refusals) \cap given.refusals = {}
<1> DEFINE S == notes \cup noted + 1 .. noted + k
<1>0. /\ noted \in Nat /\ notes \subseteq 1 .. noted
      /\ given.refusals \subseteq 1 .. noted /\ turn.refusals \subseteq 1 .. noted
      /\ MaxNotes \in Nat \ {0}
  BY NotesAssumption DEF TypeOK, ShownRecorded, Noted
<1>1. notes' = Slice(S, MaxNotes) /\ noted' = noted + k /\ noted' \in Nat
  BY <1>0 DEF Note
<1>2. S \in SUBSET (1 .. noted')
  BY <1>0, <1>1
<1>3. notes' \subseteq S /\ Within(notes', MaxNotes)
  <2>1. Slice(S, MaxNotes) \subseteq S /\ Within(Slice(S, MaxNotes), MaxNotes)
    <3> HIDE DEF S
    <3> QED BY <1>0, <1>1, <1>2, SliceKeeps
  <2> QED BY <1>1, <2>1
<1>4. \A r \in S \ notes' : noted' - r >= MaxNotes
  <2>1. \A r \in S \ Slice(S, MaxNotes) : noted' - r >= MaxNotes
    <3> HIDE DEF S
    <3> QED BY <1>0, <1>1, <1>2, SliceDrops
  <2> QED BY <1>1, <2>1
<1>5. NotesKept'
  <2> SUFFICES ASSUME NEW r \in 1 .. noted', r \notin notes', r \notin given.refusals
               PROVE  noted' - r >= MaxNotes
    BY DEF NotesKept
  <2>1. CASE r \in S
    BY <1>4, <2>1
  <2>2. CASE r \notin S
    <3>1. r \in 1 .. noted /\ r \notin notes
      BY <1>0, <1>1, <2>2
    <3>2. noted - r >= MaxNotes
      BY <3>1 DEF NotesKept
    <3> QED BY <1>0, <1>1, <3>1, <3>2
  <2> QED BY <2>1, <2>2
<1>6. 1 .. noted \subseteq 1 .. noted'
  BY <1>0, <1>1
<1>7. (notes' \cup turn.refusals) \cap given.refusals = {}
  <2>1. (noted + 1 .. noted + k) \cap (1 .. noted) = {}
    BY <1>0
  <2> QED BY <1>0, <1>3, <2>1
<1> QED BY <1>0, <1>1, <1>2, <1>3, <1>5, <1>6, <1>7
-----------------------------------------------------------------------------
(* The media sends.                                                        *)

\* What a step of one send keeps: the others are where they were.
LEMMA Becoming ==
  ASSUME send \in [Sends -> Send], SendsInv, NEW i \in Sends, NEW s \in Send, SendInv(s),
         Becomes(i, s)
  PROVE  send' \in [Sends -> Send] /\ SendsInv'
<1>1. send' = [send EXCEPT ![i] = s]
  BY DEF Becomes
<1>2. send' \in [Sends -> Send]
  BY <1>1
<1>3. \A j \in Sends : send'[j] = IF j = i THEN s ELSE send[j]
  BY <1>1
<1>4. \A j \in Sends : SendInv(send'[j])
  BY <1>3 DEF SendsInv
<1> QED BY <1>2, <1>4 DEF SendsInv

\* A send starts with its files split into the album and the refused.
LEMMA StartKeeps ==
  ASSUME send \in [Sends -> Send], SendsInv, NEW i \in Sends, Start(i)
  PROVE  send' \in [Sends -> Send] /\ SendsInv'
<1>0. PICK v \in {"reply", "tool"}, t \in {"none", "short", "long"}, n \in Counts \ {0} :
        \E r \in 0 .. n : Becomes(i, Started(v, t, n, r))
  BY DEF Start
<1>1. PICK r \in 0 .. n : Becomes(i, Started(v, t, n, r))
  BY <1>0
<1> DEFINE b == [NewSend EXCEPT !.via = v, !.text = t, !.files = n, !.items = n - r, !.refused = r]
           s == [b EXCEPT !.step = IF t # "none" /\ ~Captioned(b) THEN "text"
                                   ELSE IF n > r THEN "album" ELSE "report"]
<1>2. n \in Nat /\ r \in Nat /\ r <= n /\ n - r \in Counts /\ r \in Counts /\ n \in Counts
  BY BoundsAssumption DEF Counts
<1>3. Started(v, t, n, r) = s
  BY DEF Started
<1>4. NewSend \in Send
  BY BoundsAssumption DEF Send, NewSend, Counts
<1>5. /\ b \in Send /\ b.text = t /\ b.files = n /\ b.items = n - r /\ b.refused = r
      /\ b.step = "new" /\ b.album = "none" /\ b.late = "none" /\ ~ b.said /\ b.told = 0
  <2>1. b \in Send
    BY <1>2, <1>4 DEF Send
  <2>2. /\ b.text = t /\ b.files = n /\ b.items = n - r /\ b.refused = r
        /\ b.step = "new" /\ b.album = "none" /\ b.late = "none" /\ ~ b.said /\ b.told = 0
    BY DEF NewSend
  <2> QED BY <2>1, <2>2
<1>6. s \in Send
  BY <1>5 DEF Send
<1>7. SendInv(s)
  <2> HIDE DEF b
  <2> QED BY <1>2, <1>5, <1>6 DEF Send, SendInv, Captioned
<1> QED BY <1>1, <1>3, <1>6, <1>7, Becoming

\* An album that goes out leaves the refused files as they are.
LEMMA AlbumGoesOutKeeps ==
  ASSUME send \in [Sends -> Send], SendsInv, NEW i \in Sends,
         NEW outcome \in {"queued", "pending"}, AlbumGoesOut(i, outcome)
  PROVE  send' \in [Sends -> Send] /\ SendsInv'
<1> DEFINE o == send[i]
           s == [o EXCEPT !.album = outcome, !.step = "report",
                          !.late = IF outcome = "pending" THEN "watch" ELSE "none"]
<1>1. o \in Send /\ SendInv(o) /\ o.step = "album"
  BY DEF SendsInv, AlbumGoesOut
<1>2. s \in Send
  BY <1>1 DEF Send
<1>3. SendInv(s)
  BY <1>1, <1>2 DEF Send, SendInv, Captioned, Counts
<1>4. Becomes(i, s)
  BY DEF AlbumGoesOut
<1> QED BY <1>2, <1>3, <1>4, Becoming

\* A send that throws early has told nothing.
LEMMA GiveUpKeeps ==
  ASSUME send \in [Sends -> Send], SendsInv, NEW i \in Sends, GiveUp(i)
  PROVE  send' \in [Sends -> Send] /\ SendsInv'
<1> DEFINE o == send[i]
           s == [o EXCEPT !.step = "gaveup"]
<1>1. o \in Send /\ SendInv(o) /\ o.step \in {"text", "album"}
  BY DEF SendsInv, GiveUp
<1>2. s \in Send
  BY <1>1 DEF Send
<1>3. SendInv(s)
  BY <1>1, <1>2 DEF Send, SendInv, Captioned, Counts
<1>4. Becomes(i, s)
  BY DEF GiveUp
<1> QED BY <1>2, <1>3, <1>4, Becoming

\* The text of a send with a caption never goes this way.
LEMMA SendTextKeeps ==
  ASSUME send \in [Sends -> Send], SendsInv, NEW i \in Sends, SendText(i)
  PROVE  send' \in [Sends -> Send] /\ SendsInv'
<1> DEFINE o == send[i]
           s == [o EXCEPT !.said = TRUE, !.step = IF o.items > 0 THEN "album" ELSE "report"]
<1>1. o \in Send /\ SendInv(o) /\ o.step = "text"
  BY DEF SendsInv, SendText
<1>2. s \in Send
  BY <1>1 DEF Send
<1>3. SendInv(s)
  BY <1>1, <1>2 DEF Send, SendInv, Captioned, Counts
<1>4. Becomes(i, s)
  BY DEF SendText
<1> QED BY <1>2, <1>3, <1>4, Becoming

\* A failed album takes all files of the send with it.
LEMMA AlbumFailsKeeps ==
  ASSUME send \in [Sends -> Send], SendsInv, NEW i \in Sends, AlbumFails(i)
  PROVE  send' \in [Sends -> Send] /\ SendsInv'
<1> DEFINE o == send[i]
           s == [o EXCEPT !.album = "failed", !.refused = o.files,
                          !.step = IF Captioned(o) THEN "resend" ELSE "report"]
<1>1. o \in Send /\ SendInv(o) /\ o.step = "album"
  BY DEF SendsInv, AlbumFails
<1>2. s \in Send
  BY <1>1 DEF Send
<1>3. SendInv(s)
  BY <1>1, <1>2 DEF Send, SendInv, Captioned, Counts
<1>4. Becomes(i, s)
  BY DEF AlbumFails
<1> QED BY <1>2, <1>3, <1>4, Becoming

\* The caption of a failed album goes out as text, or fails to.
LEMMA ResendKeeps ==
  ASSUME send \in [Sends -> Send], SendsInv, NEW i \in Sends, NEW out \in BOOLEAN, Resend(i, out)
  PROVE  send' \in [Sends -> Send] /\ SendsInv'
<1> DEFINE o == send[i]
           s == [o EXCEPT !.said = out, !.failedToSay = ~out, !.step = "report"]
<1>1. o \in Send /\ SendInv(o) /\ o.step = "resend"
  BY DEF SendsInv, Resend
<1>2. s \in Send
  BY <1>1 DEF Send
<1>3. SendInv(s)
  <2>1. /\ s.step = "report" /\ s.late = o.late /\ s.album = o.album
        /\ s.text = o.text /\ s.files = o.files /\ s.items = o.items
        /\ s.refused = o.refused /\ s.told = o.told
        /\ s.said \/ s.failedToSay
    BY <1>1 DEF Send
  <2> HIDE DEF s, o
  <2> QED BY <1>1, <2>1 DEF SendInv, NewSend, Captioned
<1>4. Becomes(i, s)
  BY DEF Resend
<1> QED BY <1>2, <1>3, <1>4, Becoming

\* So does the caption of an album that failed late.
LEMMA LateResendKeeps ==
  ASSUME send \in [Sends -> Send], SendsInv, NEW i \in Sends, NEW out \in BOOLEAN, LateResend(i, out)
  PROVE  send' \in [Sends -> Send] /\ SendsInv'
<1> DEFINE o == send[i]
           s == [o EXCEPT !.said = out, !.failedToSay = ~out, !.late = "report"]
<1>1. o \in Send /\ SendInv(o) /\ o.late = "resend"
  BY DEF SendsInv, LateResend
<1>2. s \in Send
  BY <1>1 DEF Send
<1>3. SendInv(s)
  <2>1. /\ s.step = o.step /\ s.late = "report" /\ s.album = o.album
        /\ s.text = o.text /\ s.files = o.files /\ s.items = o.items
        /\ s.refused = o.refused /\ s.told = o.told
        /\ s.said \/ s.failedToSay
    BY <1>1 DEF Send
  <2> HIDE DEF s, o
  <2> QED BY <1>1, <2>1 DEF SendInv, NewSend, Captioned
<1>4. Becomes(i, s)
  BY DEF LateResend
<1> QED BY <1>2, <1>3, <1>4, Becoming

\* The late outcome comes once.
LEMMA LateOutcomeKeeps ==
  ASSUME send \in [Sends -> Send], SendsInv, NEW i \in Sends,
         NEW outcome \in {"queued", "failed"}, LateOutcome(i, outcome)
  PROVE  send' \in [Sends -> Send] /\ SendsInv'
<1> DEFINE o == send[i]
           s == [o EXCEPT !.album = outcome,
                          !.late = IF outcome = "queued" THEN "none"
                                   ELSE IF Captioned(o) THEN "resend" ELSE "report"]
<1>1. o \in Send /\ SendInv(o) /\ o.late = "watch"
  BY DEF SendsInv, LateOutcome
<1>2. s \in Send
  BY <1>1 DEF Send
<1>3. SendInv(s)
  BY <1>1, <1>2 DEF Send, SendInv, NewSend, Captioned, Counts
<1>4. Becomes(i, s)
  BY DEF LateOutcome
<1> QED BY <1>2, <1>3, <1>4, Becoming

\* A late failure is told of the files of the album only.
LEMMA LateReportKeeps ==
  ASSUME send \in [Sends -> Send], SendsInv, NEW i \in Sends, LateReport(i)
  PROVE  /\ send' \in [Sends -> Send] /\ SendsInv'
         /\ \E k \in Nat : Note(k)
<1> DEFINE o == send[i]
           s == [o EXCEPT !.told = @ + o.items, !.late = "none"]
<1>1. o \in Send /\ SendInv(o) /\ o.late = "report" /\ o.told + o.items \in Nat
  BY BoundsAssumption DEF SendsInv, LateReport, Send, Counts
<1>2. s \in Send
  BY <1>1 DEF Send
<1>3. SendInv(s)
  BY <1>1, <1>2 DEF Send, SendInv, NewSend, Captioned, Counts
<1>4. Becomes(i, s) /\ Note(o.items)
  BY DEF LateReport
<1>5. o.items \in Nat
  BY <1>1, BoundsAssumption DEF Send, Counts
<1> QED BY <1>2, <1>3, <1>4, <1>5, Becoming

\* A send tells of its refused files once.
LEMMA ReportKeeps ==
  ASSUME send \in [Sends -> Send], SendsInv, NEW i \in Sends, Report(i)
  PROVE  /\ send' \in [Sends -> Send] /\ SendsInv'
         /\ UNCHANGED noteVars \/ \E k \in Nat : Note(k)
<1> DEFINE o == send[i]
           r == [o EXCEPT !.told = @ + o.refused]
           s(end) == [r EXCEPT !.step = end]
<1>1. /\ o \in Send /\ SendInv(o) /\ o.step = "report" /\ o.refused \in Nat /\ o.told \in Nat
      /\ o.files \in Nat /\ o.items \in Nat
  BY BoundsAssumption DEF SendsInv, Report, Send, Counts
<1>2. r \in Send /\ r.refused = o.refused
  BY <1>1 DEF Send
<1>3. \E end \in {"done", "threw"} : Becomes(i, s(end))
  BY <1>2 DEF Report
<1>4. UNCHANGED noteVars \/ Note(o.refused)
  BY <1>2 DEF Report
<1>5. ASSUME NEW end \in {"done", "threw"}
      PROVE  s(end) \in Send /\ SendInv(s(end))
  <2>1. s(end) \in Send
    BY <1>2 DEF Send
  <2>2. SendInv(s(end))
    BY <1>1, <2>1 DEF Send, SendInv, Captioned
  <2> QED BY <2>1, <2>2
<1> QED BY <1>1, <1>3, <1>4, <1>5, Becoming

-----------------------------------------------------------------------------
(* The invariant.                                                          *)

\* The lease starts with both maps empty and no send in hand.
LEMMA Starting == Init => IInv
<1> SUFFICES ASSUME Init PROVE IInv
  OBVIOUS
<1>1. Len(recorded) = 0 /\ recorded \in Seq(Msgs)
  BY DEF Init
<1>2. NewSend \in Send
  BY BoundsAssumption DEF Send, NewSend, Counts
<1>3. TypeOK
  BY <1>1, <1>2, BoundsAssumption DEF TypeOK, Init, Shown, NoTurn, Within, NoRewind
<1>4. RoomInv
  BY <1>1 DEF Init, NoTurn, RoomInv, ShownRecorded, Recorded, Noted, HistoryKept,
     NotesKept,
     ShownOnce, TurnHoldsHistory
<1>5. SendInv(NewSend)
  BY DEF SendInv, NewSend, Captioned
<1>6. SendsInv
  BY <1>5 DEF Init, SendsInv
<1> QED BY <1>3, <1>4, <1>6 DEF IInv

\* Every step keeps the invariant.
LEMMA Stepping == IInv /\ [Next]_vars => IInv'
<1> SUFFICES ASSUME IInv, [Next]_vars PROVE IInv'
  OBVIOUS
<1>0. TypeOK /\ RoomInv /\ SendsInv
  BY DEF IInv
<1>1. CASE Reconnect
  <2>1. TypeOK'
    BY <1>0, <1>1, BoundsAssumption DEF TypeOK, Reconnect, vars, streamVars, loopVars,
       mapVars, noteVars, NoRewind
  <2>2. RoomInv'
    BY <1>0, <1>1 DEF RoomInv, ShownRecorded, Recorded, Noted, HistoryKept, NotesKept,
       ShownOnce, TurnHoldsHistory, Reconnect, vars, streamVars, loopVars, mapVars,
       noteVars, NoRewind
  <2>3. SendsInv'
    BY <1>0, <1>1 DEF SendsInv, Reconnect, vars, streamVars, loopVars, mapVars, noteVars
  <2> QED BY <2>1, <2>2, <2>3 DEF IInv
<1>2. CASE Replay
  <2>1. TypeOK'
    BY <1>0, <1>2, BoundsAssumption DEF TypeOK, Replay, vars, streamVars, loopVars,
       mapVars, noteVars, NoRewind
  <2>2. RoomInv'
    BY <1>0, <1>2 DEF RoomInv, ShownRecorded, Recorded, Noted, HistoryKept, NotesKept,
       ShownOnce, TurnHoldsHistory, Replay, vars, streamVars, loopVars, mapVars,
       noteVars, NoRewind
  <2>3. SendsInv'
    BY <1>0, <1>2 DEF SendsInv, Replay, vars, streamVars, loopVars, mapVars, noteVars
  <2> QED BY <2>1, <2>2, <2>3 DEF IInv
<1>3. CASE AckReplay
  <2>1. TypeOK'
    BY <1>0, <1>3, BoundsAssumption DEF TypeOK, AckReplay, vars, streamVars, loopVars,
       mapVars, noteVars, Ack, Larger
  <2>2. RoomInv'
    BY <1>0, <1>3 DEF RoomInv, ShownRecorded, Recorded, Noted, HistoryKept, NotesKept,
       ShownOnce, TurnHoldsHistory, AckReplay, vars, streamVars, loopVars, mapVars,
       noteVars, Ack, Larger
  <2>3. SendsInv'
    BY <1>0, <1>3 DEF SendsInv, AckReplay, vars, streamVars, loopVars, mapVars, noteVars
  <2> QED BY <2>1, <2>2, <2>3 DEF IInv
<1>4. ASSUME NEW m \in Msgs, Skip(m)
      PROVE  IInv'
  <2>0. /\ RecordSkipped(m) /\ loop' \in {"next", "halted"} /\ at' = m
        /\ acked' \in {acked, m} /\ UNCHANGED <<limit, given, forgotten, turn>>
    BY <1>4 DEF Skip, Ack, Larger, streamVars
  <2>1. /\ recorded' \in Seq(Msgs)
        /\ history' \subseteq 1 .. Len(recorded')
        /\ Within(history', limit)
        /\ forgotten \in 0 .. Len(recorded')
        /\ given.entries \subseteq 1 .. Len(recorded')
        /\ turn.entries \subseteq 1 .. Len(recorded')
        /\ HistoryKept'
        /\ (history' \cup turn.entries) \cap given.entries = {}
    <3>1. (history \cup turn.entries) \cap given.entries = {}
      BY <1>0 DEF RoomInv, ShownOnce
    <3> QED BY <1>0, <2>0, <3>1, Recording DEF RoomInv
  <2>2. TypeOK'
    BY <1>0, <1>4, <2>0, <2>1, BoundsAssumption DEF TypeOK, Skip, Msgs, vars,
       streamVars, loopVars, mapVars, noteVars
  <2>3. RoomInv'
    BY <1>0, <1>4, <2>0, <2>1 DEF RoomInv, ShownRecorded, Recorded, Noted, HistoryKept,
       NotesKept, ShownOnce, TurnHoldsHistory, Skip, vars, streamVars, loopVars,
       mapVars, noteVars
  <2>4. SendsInv'
    BY <1>0, <1>4 DEF SendsInv, Skip
  <2> QED BY <2>2, <2>3, <2>4 DEF IInv
<1>5. ASSUME NEW m \in Msgs, Dispatch(m)
      PROVE  IInv'
  <2>1. TypeOK'
    BY <1>0, <1>5, BoundsAssumption DEF TypeOK, Dispatch, vars, streamVars, loopVars,
       mapVars, noteVars, Takes, Shown, Msgs
  <2>2. RoomInv'
    <3>1. /\ turn'.entries \in {history, {}} /\ turn'.refusals \in {notes, {}}
          /\ history' = history /\ kind' = kind /\ at' = m
          /\ kind[m] = "turn" => turn'.entries = history
          /\ UNCHANGED <<notes, noted, recorded, forgotten, given, limit>>
      BY <1>5 DEF Dispatch, Takes, streamVars, mapVars, noteVars
    <3>2. ShownRecorded' /\ ShownOnce'
      BY <1>0, <3>1 DEF TypeOK, RoomInv, ShownRecorded, Recorded, Noted, ShownOnce
    <3>3. HistoryKept' /\ NotesKept'
      BY <1>0, <3>1 DEF RoomInv, HistoryKept, NotesKept
    <3>4. TurnHoldsHistory'
      BY <3>1 DEF TurnHoldsHistory
    <3> QED BY <3>2, <3>3, <3>4 DEF RoomInv
  <2>3. SendsInv'
    BY <1>0, <1>5 DEF SendsInv, Dispatch, vars, streamVars, loopVars, mapVars, noteVars
  <2> QED BY <2>1, <2>2, <2>3 DEF IInv
<1>6. ASSUME NEW how \in {"accepted", "declined"}, Commit(how)
      PROVE  IInv'
  <2>1. TypeOK'
    BY <1>0, <1>6, BoundsAssumption DEF TypeOK, Commit, vars, streamVars, loopVars,
       mapVars, noteVars, Larger, Shown
  <2>2. RoomInv'
    BY <1>0, <1>6 DEF RoomInv, ShownRecorded, Recorded, Noted, HistoryKept, NotesKept,
       ShownOnce, TurnHoldsHistory, Commit, vars, streamVars, loopVars, mapVars,
       noteVars, Larger, Shown
  <2>3. SendsInv'
    BY <1>0, <1>6 DEF SendsInv, Commit, vars, streamVars, loopVars, mapVars, noteVars
  <2> QED BY <2>1, <2>2, <2>3 DEF IInv
<1>7. CASE TurnFails
  <2>1. TypeOK'
    BY <1>0, <1>7, BoundsAssumption DEF TypeOK, TurnFails, vars, streamVars, loopVars,
       mapVars, noteVars
  <2>2. RoomInv'
    BY <1>0, <1>7 DEF RoomInv, ShownRecorded, Recorded, Noted, HistoryKept, NotesKept,
       ShownOnce, TurnHoldsHistory, TurnFails, vars, streamVars, loopVars, mapVars,
       noteVars
  <2>3. SendsInv'
    BY <1>0, <1>7 DEF SendsInv, TurnFails, vars, streamVars, loopVars, mapVars, noteVars
  <2> QED BY <2>1, <2>2, <2>3 DEF IInv
<1>8. CASE Resume
  <2>0. /\ history' \subseteq history /\ notes' \subseteq notes /\ turn' = NoTurn
        /\ loop' \in {"next", "halted"} /\ acked' \in {acked, at}
        /\ UNCHANGED <<streamVars, at, adoptedSeq, recorded, forgotten, noted, send>>
    BY <1>8 DEF Resume, Consume, Ack, Larger
  <2>1. Within(history', limit) /\ Within(notes', MaxNotes)
    <3>1. /\ Len(recorded) \in Nat /\ history \subseteq 1 .. Len(recorded) /\ limit \in Nat
          /\ Within(history, limit)
      BY <1>0, LimitsAssumption DEF TypeOK
    <3>2. noted \in Nat /\ notes \subseteq 1 .. noted /\ Within(notes, MaxNotes)
      BY <1>0 DEF TypeOK
    <3> QED BY <2>0, <3>1, <3>2, FewerWithin, NotesAssumption
  <2>2. /\ given'.entries \in {given.entries, given.entries \cup turn.entries}
        /\ given'.refusals \in {given.refusals, given.refusals \cup turn.refusals}
        /\ given' \in [entries : SUBSET Nat, refusals : SUBSET Nat]
    BY <1>0, <1>8 DEF TypeOK, Shown, Resume
  <2>3. TypeOK'
    BY <1>0, <2>0, <2>1, <2>2, BoundsAssumption DEF TypeOK, Shown, NoTurn, streamVars
  <2>4. RoomInv'
    BY <1>0, <1>8, <2>0, <2>2 DEF RoomInv, ShownRecorded, Recorded, Noted, HistoryKept,
       NotesKept, ShownOnce, TurnHoldsHistory, Resume, Consume, NoTurn, streamVars
  <2>5. SendsInv'
    BY <1>0, <2>0 DEF SendsInv
  <2> QED BY <2>3, <2>4, <2>5 DEF IInv
<1>9. CASE Removed
  <2>1. TypeOK'
    BY <1>0, <1>9, BoundsAssumption DEF TypeOK, Removed, vars, streamVars, loopVars,
       mapVars, noteVars, Within
  <2>2. RoomInv'
    BY <1>0, <1>9 DEF RoomInv, ShownRecorded, Recorded, Noted, HistoryKept, NotesKept,
       ShownOnce, TurnHoldsHistory, Removed, vars, streamVars, loopVars, mapVars,
       noteVars, Within
  <2>3. SendsInv'
    BY <1>0, <1>9 DEF SendsInv, Removed, vars, streamVars, loopVars, mapVars, noteVars
  <2> QED BY <2>1, <2>2, <2>3 DEF IInv
<1>10. ASSUME NEW i \in Sends, SendStep(i)
       PROVE  IInv'
  <2> DEFINE OneSend == /\ send' \in [Sends -> Send] /\ SendsInv'
                        /\ UNCHANGED <<streamVars, loopVars, mapVars, given>>
                        /\ UNCHANGED noteVars \/ \E k \in Nat : Note(k)
  <2>1. OneSend
    <3>0. send \in [Sends -> Send] /\ SendsInv
      BY <1>0 DEF TypeOK
    <3>1. CASE Start(i)
      BY <3>0, <3>1, StartKeeps DEF Start, sendOnly
    <3>2. CASE GiveUp(i)
      BY <3>0, <3>2, GiveUpKeeps DEF GiveUp, sendOnly
    <3>3. CASE SendText(i)
      BY <3>0, <3>3, SendTextKeeps DEF SendText, sendOnly
    <3>4. ASSUME NEW outcome \in {"queued", "pending"}, AlbumGoesOut(i, outcome)
          PROVE  OneSend
      BY <3>0, <3>4, AlbumGoesOutKeeps DEF AlbumGoesOut, sendOnly
    <3>5. CASE AlbumFails(i)
      BY <3>0, <3>5, AlbumFailsKeeps DEF AlbumFails, sendOnly
    <3>6. ASSUME NEW out \in BOOLEAN, Resend(i, out)
          PROVE  OneSend
      BY <3>0, <3>6, ResendKeeps DEF Resend, sendOnly
    <3>7. ASSUME NEW out \in BOOLEAN, LateResend(i, out)
          PROVE  OneSend
      BY <3>0, <3>7, LateResendKeeps DEF LateResend, sendOnly
    <3>8. CASE Report(i)
      BY <3>0, <3>8, ReportKeeps DEF Report
    <3>9. ASSUME NEW outcome \in {"queued", "failed"}, LateOutcome(i, outcome)
          PROVE  OneSend
      BY <3>0, <3>9, LateOutcomeKeeps DEF LateOutcome, sendOnly
    <3>10. CASE LateReport(i)
      BY <3>0, <3>10, LateReportKeeps DEF LateReport
    <3> QED BY <1>10, <3>1, <3>2, <3>3, <3>4, <3>5, <3>6, <3>7, <3>8, <3>9, <3>10 DEF SendStep
  <2>2. CASE UNCHANGED noteVars
    <3>1. TypeOK'
      BY <1>0, <2>1, <2>2 DEF TypeOK, streamVars, loopVars, mapVars, noteVars
    <3>2. RoomInv'
      BY <1>0, <2>1, <2>2 DEF RoomInv, ShownRecorded, Recorded, Noted, HistoryKept,
         NotesKept, ShownOnce, TurnHoldsHistory, streamVars, loopVars, mapVars, noteVars
    <3> QED BY <2>1, <3>1, <3>2 DEF IInv
  <2>3. ASSUME NEW k \in Nat, Note(k)
        PROVE  IInv'
    <3>1. /\ noted' \in Nat
          /\ notes' \subseteq 1 .. noted'
          /\ Within(notes', MaxNotes)
          /\ given.refusals \subseteq 1 .. noted'
          /\ turn.refusals \subseteq 1 .. noted'
          /\ NotesKept'
          /\ (notes' \cup turn.refusals) \cap given.refusals = {}
      <4>1. (notes \cup turn.refusals) \cap given.refusals = {}
        BY <1>0 DEF RoomInv, ShownOnce
      <4>2. UNCHANGED <<given, turn>>
        BY <2>1 DEF loopVars
      <4> QED BY <1>0, <2>3, <4>1, <4>2, Noting DEF RoomInv
    <3>2. TypeOK'
      BY <1>0, <2>1, <3>1 DEF TypeOK, streamVars, loopVars, mapVars, noteVars
    <3>3. RoomInv'
      BY <1>0, <2>1, <3>1 DEF RoomInv, ShownRecorded, Recorded, Noted, HistoryKept,
         NotesKept, ShownOnce, TurnHoldsHistory, streamVars, loopVars, mapVars, noteVars
    <3> QED BY <2>1, <3>2, <3>3 DEF IInv
  <2> QED BY <2>1, <2>2, <2>3
<1>11. CASE UNCHANGED vars
  <2>1. TypeOK'
    BY <1>0, <1>11 DEF TypeOK, vars, streamVars, loopVars, mapVars, noteVars
  <2>2. RoomInv'
    BY <1>0, <1>11 DEF RoomInv, ShownRecorded, Recorded, Noted, HistoryKept, NotesKept,
       ShownOnce, TurnHoldsHistory, vars, streamVars, loopVars, mapVars, noteVars
  <2>3. SendsInv'
    BY <1>0, <1>11 DEF SendsInv, vars
  <2> QED BY <2>1, <2>2, <2>3 DEF IInv
<1> QED BY <1>1, <1>2, <1>3, <1>4, <1>5, <1>6, <1>7, <1>8, <1>9, <1>10, <1>11
   DEF Next, StreamStep, LoopStep

-----------------------------------------------------------------------------
(* The theorems.                                                           *)

\* What a lease starts with and every step keeps holds throughout.
LEMMA Invariance == Spec => []IInv
<1> QED BY Starting, Stepping, PTL DEF Spec

\* The maps hold only what was recorded, and never more than historyLimit entries
\* and MAX_NOTES_PER_CONVERSATION refusals (recordSkipped, setRefusalNote).
THEOREM TypeCorrect == Spec => []TypeOK
<1>1. IInv => TypeOK
  BY DEF IInv
<1> QED BY <1>1, Invariance, PTL

\* No skipped message is lost on the agent: recordSkipped and the clearing behind
\* a turn (history.ts) leave every entry to the next turn, to one that was accepted
\* with it, or to `historyLimit` newer ones.
THEOREM KeepsHistory == Spec => []HistoryKept
<1>1. IInv => HistoryKept
  BY DEF IInv, RoomInv
<1> QED BY <1>1, Invariance, PTL

\* No refused file is lost on the agent, however reportRefusals and
\* watchPendingSend fall into the turn that reads the notes.
THEOREM KeepsNotes == Spec => []NotesKept
<1>1. IInv => NotesKept
  BY DEF IInv, RoomInv
<1> QED BY <1>1, Invariance, PTL

\* history.ts and outbound.ts: the maps lose nothing before its time and keep nothing
\* beyond their limits, a limit of 0 included.
THEOREM KeepsContext == Spec => []ContextKept
<1>1. IInv => ContextKept
  BY DEF IInv, TypeOK, RoomInv, ContextKept
<1> QED BY <1>1, Invariance, PTL

\* consume() clears what an accepted turn was shown: it is never shown again.
THEOREM ShowsOnce == Spec => []ShownOnce
<1>1. IInv => ShownOnce
  BY DEF IInv, RoomInv
<1> QED BY <1>1, Invariance, PTL

\* While the loop waits for the agent's turn, nothing changes the room history the
\* turn was shown.
THEOREM HoldsHistory == Spec => []TurnHoldsHistory
<1>1. IInv => TurnHoldsHistory
  BY DEF IInv, RoomInv
<1> QED BY <1>1, Invariance, PTL

\* sendAdemuMedia: every file of a settled send is in an album that was not
\* refused, or was told as refused, once.
THEOREM AccountsForFiles == Spec => []FilesAccounted
<1>1. IInv => FilesAccounted
  <2> SUFFICES ASSUME IInv, NEW i \in Sends
               PROVE  FilesAccounted!(i)
    BY DEF FilesAccounted
  <2>1. send[i] \in Send /\ SendInv(send[i])
    BY DEF IInv, TypeOK, SendsInv
  <2> QED BY <2>1, BoundsAssumption DEF SendInv, Send, Counts, Captioned
<1> QED BY <1>1, Invariance, PTL

\* sendAdemuMedia and its watcher: the text of a send is neither lost in silence
\* nor out twice.
THEOREM TextOnce == Spec => []TextOutOnce
<1>1. IInv => TextOutOnce
  <2> SUFFICES ASSUME IInv, NEW i \in Sends
               PROVE  TextOutOnce!(i)
    BY DEF TextOutOnce
  <2>1. send[i] \in Send /\ SendInv(send[i])
    BY DEF IInv, TypeOK, SendsInv
  <2> QED BY <2>1, BoundsAssumption DEF SendInv, Send, Counts, Captioned
<1> QED BY <1>1, Invariance, PTL


\* sendAdemuMedia and its watcher: files and text of a settled send are accounted for.
THEOREM AccountsForSends == Spec => []SendAccounted
<1> QED BY AccountsForFiles, TextOnce, PTL DEF SendAccounted
=============================================================================
