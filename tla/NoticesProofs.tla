--------------------------- MODULE NoticesProofs ---------------------------
(***************************************************************************)
(* Proofs about Notices for any number of students, sessions, attendance   *)
(* requests, edits and reminder workers.                                   *)
(***************************************************************************)
EXTENDS Notices, FiniteSetTheorems, TLAPS

\* A set whose elements are all the same has at most one.
LEMMA AtMostOne ==
  ASSUME NEW S, \A a, b \in S : a = b
  PROVE  Cardinality(S) <= 1
  <1>1. CASE S = {}
    BY <1>1, FS_EmptySet
  <1>2. CASE S # {}
    <2>1. PICK a \in S : TRUE
      BY <1>2
    <2>2. S = {a}
      BY <2>1
    <2> QED BY <2>2, FS_Singleton
  <1> QED BY <1>1, <1>2

\* A request that carries nothing.
LEMMA NoMarkTyped == NoMark \in Mark /\ NoMark.kind = "idle"
  <1>1. <<>> \in [{} -> Marked]
    OBVIOUS
  <1>2. <<>> \in Items
    BY <1>1 DEF Items
  <1> QED BY <1>2 DEF NoMark, Mark, SessionIds

\* One request changes; the others stay as they are.
LEMMA MarkWritten ==
  ASSUME MarksTyped, NEW m \in Marks, NEW r \in Mark, mark' = [mark EXCEPT ![m] = r]
  PROVE  /\ mark' \in [Marks -> Mark] /\ mark'[m] = r
         /\ \A q \in Marks \ {m} : mark'[q] = mark[q]
  BY DEF MarksTyped

\* An answer keeps what a request asked for.
LEMMA AnswerKeeps ==
  ASSUME MarksTyped, NEW m \in Marks, NEW answer \in Written \cup {"duplicate"}, Answer(m, answer)
  PROVE  /\ mark' \in [Marks -> Mark] /\ mark'[m].kind = answer
         /\ mark'[m].session = mark[m].session /\ mark'[m].items = mark[m].items
         /\ \A q \in Marks \ {m} : mark'[q] = mark[q]
  <1> DEFINE r == [mark[m] EXCEPT !.kind = answer]
  <1>1. mark[m] \in Mark
    BY DEF MarksTyped
  <1>2. /\ r \in Mark /\ r.kind = answer
        /\ r.session = mark[m].session /\ r.items = mark[m].items
    BY <1>1 DEF Mark
  <1>3. mark' = [mark EXCEPT ![m] = r]
    BY DEF Answer, MarksTyped
  <1> HIDE DEF r
  <1> QED BY <1>2, <1>3, MarkWritten

-----------------------------------------------------------------------------
(* Writing attendance. *)

\* The rows that request m inserts.
New(m) == {<<m, e>> : e \in {d \in DOMAIN mark[m].items : MarkOf(mark[m].session, d) = {}}}

\* What a write does to the rows: those that exist keep their names and take
\* the new status, the others are inserted under names nobody has used.
LEMMA WriteRows ==
  ASSUME MarksTyped, RowsNamed, NEW m \in Marks, mark[m].kind \in {"create", "bulk", "update"},
         Write(m)
  PROVE  /\ DOMAIN att' = DOMAIN att \cup New(m) /\ DOMAIN att \cap New(m) = {}
         /\ DOMAIN att' \subseteq RowIds /\ att' \in [DOMAIN att' -> AttendanceRow]
         /\ \A i \in DOMAIN att :
               /\ att'[i].session = att[i].session /\ att'[i].enrollment = att[i].enrollment
               /\ att'[i].status =
                     IF /\ att[i].session = mark[m].session
                        /\ att[i].enrollment \in DOMAIN mark[m].items
                     THEN mark[m].items[att[i].enrollment] ELSE att[i].status
         /\ \A i \in New(m) : /\ i = <<m, i[2]>> /\ i[2] \in DOMAIN mark[m].items
                              /\ MarkOf(mark[m].session, i[2]) = {}
                              /\ att'[i].session = mark[m].session
                              /\ att'[i].enrollment = i[2]
                              /\ att'[i].status = mark[m].items[i[2]]
  <1> DEFINE x == mark[m].session
             items == mark[m].items
  <1>0. x \in SessionIds /\ items \in Items
    BY DEF MarksTyped, Mark
  <1>1. DOMAIN items \subseteq Enrollments /\ items \in [DOMAIN items -> Marked]
    BY <1>0 DEF Items
  <1>2. att' = [i \in DOMAIN att \cup New(m) |->
                   IF i \in New(m)
                   THEN [session |-> x, enrollment |-> i[2], status |-> items[i[2]]]
                   ELSE IF att[i].session = x /\ att[i].enrollment \in DOMAIN items
                   THEN [att[i] EXCEPT !.status = items[att[i].enrollment]] ELSE att[i]]
    BY DEF Write, Upsert, New
  <1>3. \A i \in New(m) : /\ i = <<m, i[2]>> /\ i \in RowIds /\ i[1] = m
                          /\ i[2] \in DOMAIN items /\ MarkOf(x, i[2]) = {}
    BY <1>1 DEF New, RowIds
  <1>4. DOMAIN att \cap New(m) = {}
    BY <1>3 DEF RowsNamed, Written
  <1> HIDE DEF x, items
  <1>5. \A i \in New(m) : /\ att'[i] = [session |-> x, enrollment |-> i[2], status |-> items[i[2]]]
                          /\ att'[i] \in AttendanceRow
    BY <1>0, <1>1, <1>2, <1>3 DEF AttendanceRow
  <1>6. ASSUME NEW i \in DOMAIN att
        PROVE  /\ att'[i] \in AttendanceRow
               /\ att'[i].session = att[i].session /\ att'[i].enrollment = att[i].enrollment
               /\ att'[i].status = IF att[i].session = x /\ att[i].enrollment \in DOMAIN items
                                   THEN items[att[i].enrollment] ELSE att[i].status
    <2>1. att[i] \in AttendanceRow
      BY DEF MarksTyped
    <2>2. CASE att[i].session = x /\ att[i].enrollment \in DOMAIN items
      <3>1. att'[i] = [att[i] EXCEPT !.status = items[att[i].enrollment]]
        BY <1>2, <1>4, <2>2
      <3>2. items[att[i].enrollment] \in Marked
        BY <1>1, <2>2
      <3> QED BY <2>1, <2>2, <3>1, <3>2 DEF AttendanceRow
    <2>3. CASE ~(att[i].session = x /\ att[i].enrollment \in DOMAIN items)
      BY <1>2, <1>4, <2>1, <2>3
    <2> QED BY <2>2, <2>3
  <1>7. DOMAIN att' = DOMAIN att \cup New(m)
    BY <1>2
  <1>8. DOMAIN att' \subseteq RowIds /\ att' \in [DOMAIN att' -> AttendanceRow]
    BY <1>2, <1>3, <1>5, <1>6, <1>7 DEF MarksTyped
  <1>9. ASSUME NEW i \in New(m)
        PROVE  att'[i].session = x /\ att'[i].enrollment = i[2] /\ att'[i].status = items[i[2]]
    <2> DEFINE e == i[2]
               st == items[e]
    <2>1. att'[i] = [session |-> x, enrollment |-> e, status |-> st]
      BY <1>5
    <2> HIDE DEF e, st
    <2>2. att'[i].session = x /\ att'[i].enrollment = e /\ att'[i].status = st
      BY <2>1
    <2> QED BY <2>2 DEF e, st
  <1>10. \A i \in DOMAIN att :
           /\ att'[i].session = att[i].session /\ att'[i].enrollment = att[i].enrollment
           /\ att'[i].status =
                 IF /\ att[i].session = mark[m].session
                    /\ att[i].enrollment \in DOMAIN mark[m].items
                 THEN mark[m].items[att[i].enrollment] ELSE att[i].status
    BY <1>6 DEF x, items
  <1>11. \A i \in New(m) : /\ i = <<m, i[2]>> /\ i[2] \in DOMAIN mark[m].items
                           /\ MarkOf(mark[m].session, i[2]) = {}
    BY <1>3 DEF x, items
  <1>12. \A i \in New(m) : /\ att'[i].session = mark[m].session
                           /\ att'[i].enrollment = i[2]
                           /\ att'[i].status = mark[m].items[i[2]]
    BY <1>9 DEF x, items
  <1> QED BY <1>4, <1>7, <1>8, <1>10, <1>11, <1>12

\* The notice of one absence.
AbsenceNotice(m, x, e) ==
  [event |-> <<m, e>>, kind |-> "absence", session |-> x, parent |-> ParentOf[e]]

\* Those whose absence request m is the first to record and whose parents are
\* to hear of it.
NewlyAbsent(m) ==
  {e \in DOMAIN mark[m].items : /\ mark[m].items[e] = "absent" /\ ~Absent(mark[m].session, e)
                                /\ e \in Recipients(ses, mark[m].session)}

\* The trigger writes one notice for each of them.
LEMMA AbsenceNotices ==
  ASSUME NEW m
  PROVE  capture_absence_notification(m, mark[m].session, mark[m].items) =
            {AbsenceNotice(m, mark[m].session, e) : e \in NewlyAbsent(m)}
  BY DEF capture_absence_notification, Notify, AbsenceNotice, NewlyAbsent

\* Rows keep their names when a request writes them.
LEMMA WriteNames ==
  ASSUME MarksTyped, RowsNamed, NEW m \in Marks, mark[m].kind \in {"create", "bulk", "update"},
         NEW answer \in Written, answer = "created" => UniqueMark(m),
         Answer(m, answer), Write(m)
  PROVE  MarksTyped' /\ RowsNamed'
  <1>a. /\ mark' \in [Marks -> Mark] /\ mark'[m].kind = answer
        /\ mark'[m].session = mark[m].session /\ mark'[m].items = mark[m].items
        /\ \A q \in Marks \ {m} : mark'[q] = mark[q]
    BY AnswerKeeps
  <1>d. /\ DOMAIN att' = DOMAIN att \cup New(m) /\ DOMAIN att' \subseteq RowIds
        /\ att' \in [DOMAIN att' -> AttendanceRow]
    BY WriteRows
  <1>o. \A i \in DOMAIN att : /\ att'[i].session = att[i].session
                              /\ att'[i].enrollment = att[i].enrollment
    BY WriteRows
  <1>n. \A i \in New(m) : /\ i = <<m, i[2]>> /\ MarkOf(mark[m].session, i[2]) = {}
                          /\ att'[i].session = mark[m].session /\ att'[i].enrollment = i[2]
    BY WriteRows
  <1>1. MarksTyped'
    BY <1>a, <1>d DEF MarksTyped
  <1>2. ASSUME NEW i \in DOMAIN att', NEW j \in DOMAIN att', att'[i].session = att'[j].session,
               att'[i].enrollment = att'[j].enrollment
        PROVE  i = j
    <2>1. CASE i \in DOMAIN att /\ j \in DOMAIN att
      BY <1>2, <1>o, <2>1 DEF RowsNamed
    <2>2. ASSUME NEW a \in New(m), NEW b \in DOMAIN att, att'[a].session = att'[b].session,
                 att'[a].enrollment = att'[b].enrollment
          PROVE  FALSE
      <3>1. att[b].session = mark[m].session /\ att[b].enrollment = a[2]
        BY <1>n, <1>o, <2>2
      <3>2. b \in MarkOf(mark[m].session, a[2])
        BY <3>1 DEF MarkOf
      <3> QED BY <1>n, <3>2
    <2>3. CASE i \in New(m) /\ j \in New(m)
      <3>1. i[2] = j[2] /\ i = <<m, i[2]>> /\ j = <<m, j[2]>>
        BY <1>2, <1>n, <2>3
      <3> QED BY <3>1
    <2> QED BY <1>2, <1>d, <2>1, <2>2, <2>3
  <1>3. ASSUME NEW i \in DOMAIN att' PROVE mark'[i[1]].kind \in Written
    <2>1. i[1] \in Marks
      BY <1>3, <1>d DEF RowIds
    <2>2. CASE i[1] = m
      BY <1>a, <2>2
    <2>3. CASE i[1] # m
      <3>1. i \in DOMAIN att
        <4>1. i \in New(m) => i[1] = m
          BY <1>n
        <4> QED BY <1>3, <1>d, <2>3, <4>1
      <3> QED BY <1>a, <2>1, <2>3, <3>1 DEF RowsNamed
    <2> QED BY <2>2, <2>3
  <1>4. ASSUME NEW q \in Marks, mark'[q].kind = "created", NEW e \in DOMAIN mark'[q].items
        PROVE  /\ <<q, e>> \in DOMAIN att' /\ att'[<<q, e>>].enrollment = e
               /\ att'[<<q, e>>].session = mark'[q].session
    <2>1. CASE q # m
      <3>1. mark'[q] = mark[q]
        BY <1>a, <2>1
      <3>2. /\ <<q, e>> \in DOMAIN att /\ att[<<q, e>>].enrollment = e
            /\ att[<<q, e>>].session = mark[q].session
        BY <1>4, <3>1 DEF RowsNamed
      <3> QED BY <1>d, <1>o, <3>1, <3>2
    <2>2. CASE q = m
      <3>1. <<m, e>> \in New(m)
        BY <1>4, <1>a, <2>2 DEF New, UniqueMark
      <3>2. <<m, e>>[2] = e
        OBVIOUS
      <3> QED BY <1>a, <1>d, <1>n, <2>2, <3>1, <3>2
    <2> QED BY <2>1, <2>2
  <1>5. RowsNamed'
    BY <1>2, <1>3, <1>4 DEF RowsNamed
  <1> QED BY <1>1, <1>5

\* The notices keep their events, too.
LEMMA WriteEvents ==
  ASSUME NoticesInvariant, NEW m \in Marks, NEW answer \in Written, Answer(m, answer), Write(m)
  PROVE  EventsNamed'
  <1>a. /\ mark'[m].kind = answer /\ \A q \in Marks \ {m} : mark'[q] = mark[q]
    BY AnswerKeeps DEF NoticesInvariant
  <1>1. outbox' = outbox \cup {AbsenceNotice(m, mark[m].session, e) : e \in NewlyAbsent(m)}
    BY AbsenceNotices DEF Write
  <1>2. ASSUME NEW n \in outbox'
        PROVE  n.kind = "absence" =>
                   \E q \in Marks : n.event[1] = q /\ mark'[q].kind \in Written
    <2>1. CASE n \in outbox
      <3>1. \A q \in Marks : mark[q].kind \in Written => mark'[q].kind \in Written
        BY <1>a
      <3> QED BY <2>1, <3>1 DEF NoticesInvariant, EventsNamed
    <2>2. ASSUME NEW e \in NewlyAbsent(m), n = AbsenceNotice(m, mark[m].session, e)
          PROVE  n.kind = "absence" /\ n.event[1] = m
      BY <2>2 DEF AbsenceNotice
    <2> QED BY <1>a, <1>1, <1>2, <2>1, <2>2
  <1> QED BY <1>2 DEF EventsNamed

-----------------------------------------------------------------------------
(* The steps of Notices. *)

\* A request that is accepted carries marks of members.
AcceptStep(m) ==
  \E kind \in {"create", "bulk", "update"}, x \in SessionIds, items \in Items :
      Accept(m, kind, x, items)

\* One mark is a set of marks.
LEMMA OneItem ==
  ASSUME NEW e \in Enrollments, NEW status \in Marked
  PROVE  [member \in {e} |-> status] \in Items
  <1>1. [member \in {e} |-> status] \in [{e} -> Marked]
    OBVIOUS
  <1> QED BY <1>1 DEF Items

\* A step accepts a request, answers one, adds notices that are of no absence, or
\* leaves attendance and outbox alone.
LEMMA NoticesSteps ==
  ASSUME MarksTyped, [Next]_vars
  PROVE  \/ \E m \in Marks : AcceptStep(m)
         \/ \E m \in Marks : InsertAttendance(m) \/ AnswerDuplicate(m) \/ SaveAttendance(m)
         \/ \E r \in Replicas : CommitReminders(r)
         \/ \E e \in Edits, d \in Dates : RescheduleSession(e, d)
         \/ \E e \in Edits, tutor \in {"own", "other"} : ChangeTutorTemporary(e, tutor)
         \/ UNCHANGED <<att, mark, outbox>>
  <1>1. ASSUME NEW m \in Marks, NEW x \in SessionIds, NEW e \in Enrollments,
               NEW status \in Marked, AcceptCreate(m, x, e, status)
        PROVE  AcceptStep(m)
    BY <1>1, OneItem DEF AcceptCreate, AcceptStep
  <1>2. ASSUME NEW m \in Marks, NEW e \in Enrollments,
               NEW status \in Marked, AcceptCreateByDate(m, e, status)
        PROVE  AcceptStep(m)
    BY <1>2, OneItem DEF AcceptCreateByDate, AcceptStep, SessionIds
  <1>3. ASSUME NEW m \in Marks, NEW x \in SessionIds, NEW items \in Items, AcceptBulk(m, x, items)
        PROVE  AcceptStep(m)
    BY <1>3 DEF AcceptBulk, AcceptStep
  <1>4. ASSUME NEW m \in Marks, NEW i \in RowIds, NEW status \in Marked, AcceptUpdate(m, i, status)
        PROVE  AcceptStep(m)
    <2>1. att[i].session \in SessionIds /\ att[i].enrollment \in Enrollments
      BY <1>4 DEF AcceptUpdate, MarksTyped, AttendanceRow
    <2>2. [e \in {att[i].enrollment} |-> status] \in Items
      BY <2>1, OneItem
    <2> QED BY <1>4, <2>1, <2>2 DEF AcceptUpdate, AcceptStep
  <1>5. CASE UNCHANGED vars
    BY <1>5 DEF vars
  <1>6. CASE Midnight
    BY <1>6 DEF Midnight
  <1>7. ASSUME NEW e \in Enrollments, EnrollmentMoves(e) PROVE UNCHANGED <<att, mark, outbox>>
    BY <1>7 DEF EnrollmentMoves
  <1>8. ASSUME NEW eff \in Dates, ChangeSchedulePermanent(eff) PROVE UNCHANGED <<att, mark, outbox>>
    BY <1>8 DEF ChangeSchedulePermanent
  <1>9. ASSUME NEW x \in SessionIds, DeleteSession(x) PROVE UNCHANGED <<att, mark, outbox>>
    BY <1>9 DEF DeleteSession
  <1>10. ASSUME NEW e \in Edits, NEW x \in SessionIds, NEW kind \in {"move", "substitute"},
                ReadSession(e, x, kind)
         PROVE  UNCHANGED <<att, mark, outbox>>
    BY <1>10 DEF ReadSession
  <1>11. ASSUME NEW r \in Replicas,
                \/ StartPass(r) \/ LockSessions(r) \/ PassFails(r)
                \/ \E x \in SessionIds : EnqueueReminders(r, x)
         PROVE  UNCHANGED <<att, mark, outbox>>
    BY <1>11 DEF StartPass, LockSessions, EnqueueReminders, PassFails
  <1>12. CASE Next
    BY <1>12, <1>1, <1>2, <1>3, <1>4, <1>6, <1>7, <1>8, <1>9, <1>10, <1>11 DEF Next
  <1> QED BY <1>5, <1>12

\* Notices other than of absences: what moves of sessions, substitutions and
\* reminders add to the outbox.
Told(notices) == \A n \in notices : n.kind \in {"moved", "tutor", "reminder"}

\* Notices of a kind say so.
LEMMA NotifyTold ==
  ASSUME NEW event, NEW x, NEW members, NEW kind \in {"moved", "tutor", "reminder"}
  PROVE  Told(Notify(event, kind, x, members))
  BY DEF Told, Notify

\* The steps of edits and of the reminder worker leave attendance alone and add
\* no notice of an absence.
LEMMA TellingSteps ==
  ASSUME \/ \E r \in Replicas : CommitReminders(r)
         \/ \E e \in Edits, d \in Dates : RescheduleSession(e, d)
         \/ \E e \in Edits, tutor \in {"own", "other"} : ChangeTutorTemporary(e, tutor)
  PROVE  UNCHANGED <<att, mark>> /\ \E notices : outbox' = outbox \cup notices /\ Told(notices)
  <1>1. ASSUME NEW r \in Replicas, CommitReminders(r)
        PROVE  /\ UNCHANGED <<att, mark>>
               /\ \E notices : outbox' = outbox \cup notices /\ Told(notices)
    <2> DEFINE notices == UNION {Notify(ReminderEvent(w[1]), "reminder", w[1], {w[2]}) :
                                     w \in pass[r].marked}
    <2>1. \A w : Told(Notify(ReminderEvent(w[1]), "reminder", w[1], {w[2]}))
      BY NotifyTold
    <2>2. Told(notices)
      BY <2>1 DEF Told
    <2> QED BY <1>1, <2>2 DEF CommitReminders
  <1>2. ASSUME NEW e \in Edits, NEW d \in Dates, RescheduleSession(e, d)
        PROVE  /\ UNCHANGED <<att, mark>>
               /\ \E notices : outbox' = outbox \cup notices /\ Told(notices)
    <2>1. Told(Notify(e, "moved", e, Recipients(ses', e)))
      BY NotifyTold
    <2> QED BY <1>2, <2>1 DEF RescheduleSession
  <1>3. ASSUME NEW e \in Edits, NEW tutor \in {"own", "other"}, ChangeTutorTemporary(e, tutor)
        PROVE  /\ UNCHANGED <<att, mark>>
               /\ \E notices : outbox' = outbox \cup notices /\ Told(notices)
    <2>1. Told(Notify(e, "tutor", edit[e].id, Recipients(ses', edit[e].id)))
      BY NotifyTold
    <2>2. Told({})
      BY DEF Told
    <2>3. outbox = outbox \cup {}
      OBVIOUS
    <2> QED BY <1>3, <2>1, <2>2, <2>3 DEF ChangeTutorTemporary
  <1> QED BY <1>1, <1>2, <1>3

\* A request that is accepted has written nothing yet.
LEMMA AcceptKeeps ==
  ASSUME NoticesInvariant, NEW m \in Marks, AcceptStep(m)
  PROVE  NoticesInvariant'
  <1>1. PICK kind \in {"create", "bulk", "update"}, x \in SessionIds, items \in Items :
           Accept(m, kind, x, items)
    BY DEF AcceptStep
  <1> DEFINE r == [kind |-> kind, session |-> x, items |-> items]
  <1>2. r \in Mark /\ r.kind \notin Written
    BY <1>1 DEF Mark, Written
  <1>3. /\ mark' = [mark EXCEPT ![m] = r] /\ mark[m].kind \notin Written
        /\ UNCHANGED <<att, outbox>>
    BY <1>1, NoMarkTyped DEF Accept, Written
  <1> HIDE DEF r
  <1>4. /\ mark' \in [Marks -> Mark] /\ mark'[m] = r
        /\ \A q \in Marks \ {m} : mark'[q] = mark[q]
    BY <1>2, <1>3, MarkWritten DEF NoticesInvariant
  <1>5. \A q \in Marks : \/ mark'[q].kind \notin Written /\ mark[q].kind \notin Written
                         \/ mark'[q] = mark[q]
    BY <1>2, <1>3, <1>4
  <1>6. MarksTyped'
    BY <1>3, <1>4 DEF NoticesInvariant, MarksTyped
  <1>7. RowsNamed'
    <2>1. \A i \in DOMAIN att : i[1] \in Marks
      BY DEF NoticesInvariant, MarksTyped, RowIds
    <2>2. \A i \in DOMAIN att : mark'[i[1]].kind \in Written
      BY <1>5, <2>1 DEF NoticesInvariant, RowsNamed
    <2>3. \A q \in Marks : mark'[q].kind = "created" => mark'[q] = mark[q]
      BY <1>5 DEF Written
    <2>4. \A q \in Marks : mark'[q].kind = "created" =>
             \A e \in DOMAIN mark'[q].items :
                 /\ <<q, e>> \in DOMAIN att /\ att[<<q, e>>].enrollment = e
                 /\ att[<<q, e>>].session = mark'[q].session
      BY <2>3 DEF NoticesInvariant, RowsNamed
    <2> QED BY <1>3, <2>2, <2>4 DEF NoticesInvariant, RowsNamed
  <1>8. EventsNamed'
    BY <1>3, <1>5 DEF NoticesInvariant, EventsNamed
  <1> QED BY <1>6, <1>7, <1>8 DEF NoticesInvariant

\* Nor has one that is refused as a duplicate.
LEMMA DuplicateKeeps ==
  ASSUME NoticesInvariant, NEW m \in Marks, AnswerDuplicate(m)
  PROVE  NoticesInvariant'
  <1>1. /\ mark' \in [Marks -> Mark] /\ mark'[m].kind = "duplicate"
        /\ \A q \in Marks \ {m} : mark'[q] = mark[q]
    BY AnswerKeeps DEF NoticesInvariant, AnswerDuplicate
  <1>2. mark[m].kind \notin Written /\ UNCHANGED <<att, outbox>>
    BY DEF AnswerDuplicate, Written
  <1>3. \A q \in Marks : \/ mark'[q].kind \notin Written /\ mark[q].kind \notin Written
                         \/ mark'[q] = mark[q]
    BY <1>1, <1>2 DEF Written
  <1>4. MarksTyped'
    BY <1>1, <1>2 DEF NoticesInvariant, MarksTyped
  <1>5. RowsNamed'
    <2>1. \A i \in DOMAIN att : i[1] \in Marks
      BY DEF NoticesInvariant, MarksTyped, RowIds
    <2>2. \A i \in DOMAIN att : mark'[i[1]].kind \in Written
      BY <1>3, <2>1 DEF NoticesInvariant, RowsNamed
    <2>3. \A q \in Marks : mark'[q].kind = "created" => mark'[q] = mark[q]
      BY <1>3 DEF Written
    <2>4. \A q \in Marks : mark'[q].kind = "created" =>
             \A e \in DOMAIN mark'[q].items :
                 /\ <<q, e>> \in DOMAIN att /\ att[<<q, e>>].enrollment = e
                 /\ att[<<q, e>>].session = mark'[q].session
      BY <2>3 DEF NoticesInvariant, RowsNamed
    <2> QED BY <1>2, <2>2, <2>4 DEF NoticesInvariant, RowsNamed
  <1>6. EventsNamed'
    BY <1>2, <1>3 DEF NoticesInvariant, EventsNamed
  <1> QED BY <1>4, <1>5, <1>6 DEF NoticesInvariant

\* A request that writes leaves rows and events named.
LEMMA WriteKeeps ==
  ASSUME NoticesInvariant, NEW m \in Marks, InsertAttendance(m) \/ SaveAttendance(m)
  PROVE  NoticesInvariant'
  <1>1. CASE InsertAttendance(m)
    <2>1. /\ mark[m].kind \in {"create", "bulk", "update"} /\ UniqueMark(m)
          /\ Answer(m, "created") /\ Write(m) /\ "created" \in Written
      BY <1>1 DEF InsertAttendance, Written
    <2> QED BY <2>1, WriteNames, WriteEvents DEF NoticesInvariant
  <1>2. CASE SaveAttendance(m)
    <2>1. /\ mark[m].kind \in {"create", "bulk", "update"}
          /\ Answer(m, "saved") /\ Write(m) /\ "saved" \in Written
      BY <1>2 DEF SaveAttendance, Written
    <2> QED BY <2>1, WriteNames, WriteEvents DEF NoticesInvariant
  <1> QED BY <1>1, <1>2

\* The notices of edits and reminders are named as well.
LEMMA TellingKeeps ==
  ASSUME NoticesInvariant, UNCHANGED <<att, mark>>, NEW notices,
         outbox' = outbox \cup notices, Told(notices)
  PROVE  NoticesInvariant'
  <1>1. MarksTyped' /\ RowsNamed'
    BY DEF NoticesInvariant, MarksTyped, RowsNamed
  <1>2. EventsNamed'
    BY DEF NoticesInvariant, EventsNamed, Told
  <1> QED BY <1>1, <1>2 DEF NoticesInvariant

\* No step of the requests, edits and workers breaks the invariant.
LEMMA NoticesStep == NoticesInvariant /\ [Next]_vars => NoticesInvariant'
  <1> SUFFICES ASSUME NoticesInvariant, [Next]_vars PROVE NoticesInvariant'
    OBVIOUS
  <1>0. MarksTyped
    BY DEF NoticesInvariant
  <1>1. CASE UNCHANGED <<att, mark, outbox>>
    BY <1>1 DEF NoticesInvariant, MarksTyped, RowsNamed, EventsNamed
  <1>2. CASE \/ \E r \in Replicas : CommitReminders(r)
             \/ \E e \in Edits, d \in Dates : RescheduleSession(e, d)
             \/ \E e \in Edits, tutor \in {"own", "other"} : ChangeTutorTemporary(e, tutor)
    BY <1>2, TellingSteps, TellingKeeps
  <1>3. ASSUME NEW m \in Marks,
               AcceptStep(m) \/ InsertAttendance(m) \/ AnswerDuplicate(m) \/ SaveAttendance(m)
        PROVE  NoticesInvariant'
    BY <1>3, AcceptKeeps, DuplicateKeeps, WriteKeeps
  <1> QED BY <1>0, <1>1, <1>2, <1>3, NoticesSteps

\* Before the first request there are neither rows nor notices.
LEMMA NoticesInit == Init => NoticesInvariant
  <1> SUFFICES ASSUME Init PROVE NoticesInvariant
    OBVIOUS
  <1>1. att = <<>> /\ outbox = {} /\ mark = [m \in Marks |-> NoMark]
    BY DEF Init
  <1>2. DOMAIN att = {} /\ att \in [DOMAIN att -> AttendanceRow]
    BY <1>1
  <1>3. MarksTyped
    BY <1>1, <1>2, NoMarkTyped DEF MarksTyped
  <1>4. RowsNamed
    BY <1>1, <1>2, NoMarkTyped DEF RowsNamed
  <1>5. EventsNamed
    BY <1>1 DEF EventsNamed
  <1> QED BY <1>3, <1>4, <1>5 DEF NoticesInvariant

-----------------------------------------------------------------------------
(* Theorems. *)

\* Attendance rows are named by session and student, by one finished request
\* each, and every notice in the outbox carries the event that names it.
THEOREM NoticesInvariantHolds == Spec => []NoticesInvariant
  <1> QED BY NoticesInit, NoticesStep, PTL DEF Spec

\* A student has one mark for a session, and of all the requests to create it
\* at most one is told that it did (uq_attendances_session_enrollment).
THEOREM MarksAreUnique == Spec => []OneMark
  <1>1. NoticesInvariant => OneMark
    <2> SUFFICES ASSUME NoticesInvariant, NEW x \in SessionIds, NEW e \in Enrollments
                 PROVE  /\ Cardinality(MarkOf(x, e)) <= 1
                        /\ Cardinality({m \in Marks : /\ mark[m].kind = "created"
                                                      /\ mark[m].session = x
                                                      /\ e \in DOMAIN mark[m].items}) <= 1
      BY DEF OneMark
    <2>1. \A i, j \in MarkOf(x, e) : i = j
      BY DEF NoticesInvariant, RowsNamed, MarkOf
    <2> DEFINE told == {m \in Marks : /\ mark[m].kind = "created" /\ mark[m].session = x
                                      /\ e \in DOMAIN mark[m].items}
    <2>2. ASSUME NEW m \in told, NEW q \in told PROVE m = q
      <3>1. /\ <<m, e>> \in DOMAIN att /\ att[<<m, e>>].enrollment = e
            /\ att[<<m, e>>].session = x
        BY DEF NoticesInvariant, RowsNamed
      <3>2. /\ <<q, e>> \in DOMAIN att /\ att[<<q, e>>].enrollment = e
            /\ att[<<q, e>>].session = x
        BY DEF NoticesInvariant, RowsNamed
      <3>3. <<m, e>> = <<q, e>>
        BY <3>1, <3>2 DEF NoticesInvariant, RowsNamed
      <3> QED BY <3>3
    <2>3. Cardinality(MarkOf(x, e)) <= 1
      BY <2>1, AtMostOne
    <2>4. Cardinality(told) <= 1
      <3> HIDE DEF told
      <3> QED BY <2>2, AtMostOne
    <2> QED BY <2>3, <2>4
  <1> QED BY <1>1, NoticesInvariantHolds, PTL

-----------------------------------------------------------------------------
(* The notices of absences. *)

\* Who is absent once a request has written: whom it says so of, and of the
\* others those who were.
LEMMA AbsentAfterWrite ==
  ASSUME MarksTyped, RowsNamed, NEW m \in Marks, mark[m].kind \in {"create", "bulk", "update"},
         Write(m), NEW x \in SessionIds, NEW e \in Enrollments
  PROVE  Absent(x, e)' <=> IF x = mark[m].session /\ e \in DOMAIN mark[m].items
                           THEN mark[m].items[e] = "absent" ELSE Absent(x, e)
  <1>d. DOMAIN att' = DOMAIN att \cup New(m)
    BY WriteRows
  <1>o. \A i \in DOMAIN att :
           /\ att'[i].session = att[i].session /\ att'[i].enrollment = att[i].enrollment
           /\ att'[i].status = IF /\ att[i].session = mark[m].session
                                  /\ att[i].enrollment \in DOMAIN mark[m].items
                               THEN mark[m].items[att[i].enrollment] ELSE att[i].status
    BY WriteRows
  <1>n. \A i \in New(m) : /\ i[2] \in DOMAIN mark[m].items
                          /\ att'[i].session = mark[m].session /\ att'[i].enrollment = i[2]
                          /\ att'[i].status = mark[m].items[i[2]]
    BY WriteRows
  <1>0. Absent(x, e)' <=> \E i \in DOMAIN att' : /\ att'[i].session = x /\ att'[i].enrollment = e
                                                 /\ att'[i].status = "absent"
    BY DEF Absent, MarkOf
  <1>1. CASE x = mark[m].session /\ e \in DOMAIN mark[m].items
    <2>1. \E i \in DOMAIN att' : att'[i].session = x /\ att'[i].enrollment = e
      <3>1. CASE MarkOf(x, e) = {}
        <4>1. <<m, e>> \in New(m)
          BY <1>1, <3>1 DEF New
        <4>2. <<m, e>>[2] = e
          OBVIOUS
        <4> QED BY <1>1, <1>d, <1>n, <4>1, <4>2
      <3>2. CASE MarkOf(x, e) # {}
        <4>1. PICK i \in DOMAIN att : att[i].session = x /\ att[i].enrollment = e
          BY <3>2 DEF MarkOf
        <4> QED BY <1>d, <1>o, <4>1
      <3> QED BY <3>1, <3>2
    <2>2. \A i \in DOMAIN att' : att'[i].session = x /\ att'[i].enrollment = e =>
                                 att'[i].status = mark[m].items[e]
      BY <1>1, <1>d, <1>o, <1>n
    <2> QED BY <1>0, <1>1, <2>1, <2>2
  <1>2. CASE ~(x = mark[m].session /\ e \in DOMAIN mark[m].items)
    <2>1. \A i \in New(m) : ~(att'[i].session = x /\ att'[i].enrollment = e)
      BY <1>2, <1>n
    <2>2. \A i \in DOMAIN att : att[i].session = x /\ att[i].enrollment = e =>
                                att'[i].status = att[i].status
      BY <1>2, <1>o
    <2>3. Absent(x, e) <=> \E i \in DOMAIN att : /\ att[i].session = x /\ att[i].enrollment = e
                                                 /\ att[i].status = "absent"
      BY DEF Absent, MarkOf
    <2> QED BY <1>0, <1>2, <1>d, <1>o, <2>1, <2>2, <2>3
  <1> QED BY <1>1, <1>2

\* The notices of a request are new: no earlier request had its name.
LEMMA AbsencesAreNew ==
  ASSUME NoticesInvariant, NEW m \in Marks, mark[m].kind \notin Written, Write(m)
  PROVE  outbox' \ outbox = {AbsenceNotice(m, mark[m].session, e) : e \in NewlyAbsent(m)}
  <1>1. outbox' = outbox \cup {AbsenceNotice(m, mark[m].session, e) : e \in NewlyAbsent(m)}
    BY AbsenceNotices DEF Write
  <1>2. ASSUME NEW e PROVE AbsenceNotice(m, mark[m].session, e) \notin outbox
    <2> DEFINE n == AbsenceNotice(m, mark[m].session, e)
    <2>1. n.kind = "absence" /\ n.event[1] = m
      BY DEF AbsenceNotice
    <2> HIDE DEF n
    <2>2. n \notin outbox
      BY <2>1 DEF NoticesInvariant, EventsNamed
    <2> QED BY <2>2 DEF n
  <1> QED BY <1>1, <1>2

\* A write tells of the absences it is the first to record, once each.
LEMMA WriteTells ==
  ASSUME NoticesInvariant, NEW m \in Marks, mark[m].kind \in {"create", "bulk", "update"},
         Write(m), NEW x \in SessionIds, NEW e \in Enrollments
  PROVE  Cardinality({n \in outbox' \ outbox : /\ n.kind = "absence" /\ n.session = x
                                               /\ n.event[2] = e})
            = IF ~Absent(x, e) /\ Absent(x, e)' /\ e \in Recipients(ses, x) THEN 1 ELSE 0
  <1> DEFINE S == {n \in outbox' \ outbox : /\ n.kind = "absence" /\ n.session = x
                                            /\ n.event[2] = e}
             told == ~Absent(x, e) /\ Absent(x, e)' /\ e \in Recipients(ses, x)
  <1>1. outbox' \ outbox = {AbsenceNotice(m, mark[m].session, d) : d \in NewlyAbsent(m)}
    BY AbsencesAreNew DEF Written
  <1>2. Absent(x, e)' <=> IF x = mark[m].session /\ e \in DOMAIN mark[m].items
                          THEN mark[m].items[e] = "absent" ELSE Absent(x, e)
    BY AbsentAfterWrite DEF NoticesInvariant
  <1>3. told <=> x = mark[m].session /\ e \in NewlyAbsent(m)
    BY <1>2 DEF NewlyAbsent
  <1>4. \A d : LET n == AbsenceNotice(m, mark[m].session, d)
               IN  n.kind = "absence" /\ n.session = mark[m].session /\ n.event[2] = d
    BY DEF AbsenceNotice
  <1>5. CASE told
    <2>1. S = {AbsenceNotice(m, x, e)}
      BY <1>1, <1>3, <1>4, <1>5
    <2> QED BY <1>5, <2>1, FS_Singleton
  <1>6. CASE ~told
    <2>1. S = {}
      BY <1>1, <1>3, <1>4, <1>6
    <2> QED BY <1>6, <2>1, FS_EmptySet
  <1> QED BY <1>5, <1>6

\* A step that writes no attendance tells of no absence.
LEMMA NoAbsenceTold ==
  ASSUME UNCHANGED att, \A n \in outbox' \ outbox : n.kind # "absence",
         NEW x \in SessionIds, NEW e \in Enrollments
  PROVE  Cardinality({n \in outbox' \ outbox : /\ n.kind = "absence" /\ n.session = x
                                               /\ n.event[2] = e})
            = IF ~Absent(x, e) /\ Absent(x, e)' /\ e \in Recipients(ses, x) THEN 1 ELSE 0
  <1>1. Absent(x, e)' <=> Absent(x, e)
    BY DEF Absent, MarkOf
  <1>2. {n \in outbox' \ outbox : n.kind = "absence" /\ n.session = x /\ n.event[2] = e} = {}
    OBVIOUS
  <1> QED BY <1>1, <1>2, FS_EmptySet

\* The parent of a member is told of an absence when the mark becomes absent, on
\* whichever path, once, and not again when it is only written again.
THEOREM AbsencesToldOnce == Spec => AbsenceToldOnce
  <1> DEFINE A == \A x \in SessionIds, e \in Enrollments :
                     LET notices == {n \in outbox' \ outbox : /\ n.kind = "absence" /\ n.session = x
                                                              /\ n.event[2] = e}
                     IN  Cardinality(notices) = IF /\ ~Absent(x, e) /\ Absent(x, e)'
                                                   /\ e \in Recipients(ses, x)
                                                THEN 1 ELSE 0
  <1>1. NoticesInvariant /\ [Next]_vars => A
    <2> SUFFICES ASSUME NoticesInvariant, [Next]_vars PROVE A
      OBVIOUS
    <2>1. ASSUME NEW m \in Marks, InsertAttendance(m) \/ SaveAttendance(m) PROVE A
      <3>1. mark[m].kind \in {"create", "bulk", "update"} /\ Write(m)
        BY <2>1 DEF InsertAttendance, SaveAttendance
      <3> QED BY <3>1, WriteTells
    <2>2. CASE UNCHANGED <<att, outbox>>
      BY <2>2, NoAbsenceTold
    <2>3. ASSUME NEW m \in Marks, AcceptStep(m) \/ AnswerDuplicate(m) PROVE UNCHANGED <<att, outbox>>
      BY <2>3 DEF AcceptStep, Accept, AnswerDuplicate
    <2>4. CASE \/ \E r \in Replicas : CommitReminders(r)
               \/ \E e \in Edits, d \in Dates : RescheduleSession(e, d)
               \/ \E e \in Edits, tutor \in {"own", "other"} : ChangeTutorTemporary(e, tutor)
      <3>1. PICK notices : outbox' = outbox \cup notices /\ Told(notices)
        BY <2>4, TellingSteps
      <3>2. UNCHANGED att
        BY <2>4, TellingSteps
      <3>3. \A n \in outbox' \ outbox : n.kind # "absence"
        BY <3>1 DEF Told
      <3> QED BY <3>2, <3>3, NoAbsenceTold
    <2>5. MarksTyped
      BY DEF NoticesInvariant
    <2> HIDE DEF A
    <2> QED BY <2>1, <2>2, <2>3, <2>4, <2>5, NoticesSteps
  <1> QED BY <1>1, NoticesInvariantHolds, PTL DEF Spec, AbsenceToldOnce

-----------------------------------------------------------------------------
(* The reminders. *)

\* Whatever a session replaces is the origin of some session.
LEMMA ChainOrigin ==
  ASSUME NEW table \in [SessionIds -> Session], NEW x \in SessionIds,
         NEW y \in chain(table, x), y # x
  PROVE  \E z \in SessionIds : table[z].origin = y
  <1> SUFFICES ASSUME \A z \in SessionIds : table[z].origin # y PROVE FALSE
    OBVIOUS
  <1> DEFINE S == SessionIds \ {y}
  <1>1. S \in SUBSET SessionIds /\ x \in S
    OBVIOUS
  <1>2. \A z \in S : table[z].origin \in S \cup {Null}
    BY DEF Session
  <1>3. y \in S
    BY <1>1, <1>2 DEF chain
  <1> QED BY <1>3

\* The chain of a session only depends on the origins of the sessions.
LEMMA ChainSame ==
  ASSUME NEW s, NEW t, \A z \in SessionIds : s[z].origin = t[z].origin,
         NEW x \in SessionIds
  PROVE  chain(s, x) = chain(t, x)
  BY DEF chain

\* A session that nothing replaces yet, e, can be given an origin: the others
\* replace no more than before.
LEMMA ChainMoves ==
  ASSUME NEW s, NEW t, NEW e \in SessionIds,
         \A z \in SessionIds \ {e} : s[z].origin = t[z].origin,
         \A z \in SessionIds : s[z].origin # e,
         NEW x \in SessionIds, x # e
  PROVE  chain(t, x) \subseteq chain(s, x)
  <1> SUFFICES ASSUME NEW y \in chain(t, x), NEW S \in SUBSET SessionIds, x \in S,
                      \A z \in S : s[z].origin \in S \cup {Null}
               PROVE  y \in S
    BY DEF chain
  <1> DEFINE U == S \ {e}
  <1>1. U \in SUBSET SessionIds /\ x \in U
    OBVIOUS
  <1>2. \A z \in U : t[z].origin \in U \cup {Null}
    OBVIOUS
  <1>3. y \in U
    BY <1>1, <1>2 DEF chain
  <1> QED BY <1>3

\* What has been replaced and is scheduled was revived.
LEMMA ScheduledOrigins ==
  ASSUME RemindersTyped, ReplacedSessions, NEW x \in SessionIds, NEW y \in chain(ses, x),
         y # x, ses[y].status = "scheduled"
  PROVE  y \in revived
  <1>1. PICK z \in SessionIds : ses[z].origin = y
    BY ChainOrigin DEF RemindersTyped
  <1>2. y # Null
    BY NoticeConstants DEF chain
  <1> QED BY <1>1, <1>2 DEF ReplacedSessions

\* All reminders are of sessions and students.
LEMMA RemindedTyped ==
  ASSUME RemindersTyped PROVE Reminded \subseteq SessionIds \X Enrollments
  BY DEF RemindersTyped, Reminded, Pass

\* A step that sends no reminder and lets no session that was reminded of replace
\* more than it did keeps reminders and chains apart.
LEMMA FollowKept ==
  ASSUME RemindersTyped, RemindersFollowChain, Reminded' \subseteq Reminded, revived \subseteq revived',
         \A x \in SessionIds : ses[x].status # "none" =>
             ses'[x].status # "none" /\ chain(ses', x) \subseteq chain(ses, x)
  PROVE  RemindersFollowChain'
  <1>1. \A w \in Reminded' : ses'[w[1]].status # "none"
    <2> SUFFICES ASSUME NEW w \in Reminded' PROVE ses'[w[1]].status # "none"
      OBVIOUS
    <2>1. w \in Reminded /\ w \in SessionIds \X Enrollments
      BY RemindedTyped
    <2> QED BY <2>1 DEF RemindersFollowChain
  <1>2. ASSUME NEW x \in SessionIds, NEW y \in chain(ses', x) \ ({x} \cup revived'),
               NEW e \in Enrollments, <<x, e>> \in Reminded', <<y, e>> \in Reminded'
        PROVE  FALSE
    <2>1. <<x, e>> \in Reminded /\ <<y, e>> \in Reminded
      BY <1>2
    <2>2. ses[<<x, e>>[1]].status # "none"
      BY <2>1 DEF RemindersFollowChain
    <2>3. y \in chain(ses, x) \ ({x} \cup revived)
      BY <2>2
    <2> QED BY <2>1, <2>3 DEF RemindersFollowChain
  <1> QED BY <1>1, <1>2 DEF RemindersFollowChain

\* A step that keeps the sessions, their edits and the passes.
LEMMA RemindersUnchanged ==
  ASSUME RemindersInvariant, today' \in Dates, UNCHANGED <<ses, edit, pass, covered, revived>>
  PROVE  RemindersInvariant'
  <1>1. RemindersTyped' /\ EditsCarryOrigins' /\ ReplacedSessions' /\ PassesHoldSessions'
    BY DEF RemindersInvariant, RemindersTyped, EditsCarryOrigins, ReplacedSessions,
           PassesHoldSessions
  <1>2. RemindersFollowChain'
    BY DEF RemindersInvariant, RemindersFollowChain, Reminded, chain
  <1> QED BY <1>1, <1>2 DEF RemindersInvariant

\* A session is given another status or deleted, no pass having it locked.
LEMMA SessionWritten ==
  ASSUME RemindersInvariant, NEW x \in SessionIds, NEW n \in Session,
         ses' = [ses EXCEPT ![x] = n], ses[x].status # "none", n.status # "none",
         n.origin = ses[x].origin, ~Locked(x),
         revived \subseteq revived',
         n.status = "scheduled" /\ ses[x].status # "scheduled" => x \in revived',
         edit' \in [Edits -> Edit],
         \A e \in Edits : edit'[e].kind = "done" \/ edit'[e] = edit[e],
         UNCHANGED <<today, pass, covered>>
  PROVE  RemindersInvariant'
  <1>0. /\ ses \in [SessionIds -> Session] /\ ses'[x] = n
        /\ \A z \in SessionIds \ {x} : ses'[z] = ses[z]
    BY DEF RemindersInvariant, RemindersTyped
  <1>1. RemindersTyped'
    BY DEF RemindersInvariant, RemindersTyped
  <1>2. \A z \in SessionIds : /\ ses'[z].origin = ses[z].origin
                             /\ ses'[z].status = "none" <=> ses[z].status = "none"
    BY <1>0
  <1>3. EditsCarryOrigins'
    <2> SUFFICES ASSUME NEW e \in Edits
                 PROVE  /\ edit'[e].kind # "done" => ses'[e].status = "none"
                        /\ edit'[e].kind \in {"move", "substitute"} =>
                              /\ ses'[edit'[e].id].status # "none"
                              /\ edit'[e].row.status # "none"
                              /\ edit'[e].row.origin = ses'[edit'[e].id].origin
      BY DEF EditsCarryOrigins
    <2>1. e \in SessionIds /\ edit[e].id \in SessionIds
      BY DEF RemindersInvariant, RemindersTyped, Edit, SessionIds
    <2>2. CASE edit'[e] = edit[e]
      BY <1>2, <2>1, <2>2 DEF RemindersInvariant, EditsCarryOrigins
    <2>3. CASE edit'[e].kind = "done"
      BY <2>3
    <2> QED BY <2>2, <2>3
  <1>4. ReplacedSessions'
    <2> SUFFICES ASSUME NEW z \in SessionIds, ses'[z].origin # Null
                 PROVE  /\ ses'[z].status # "none" /\ ses'[ses'[z].origin].status # "none"
                        /\ ses'[ses'[z].origin].status = "scheduled" => ses'[z].origin \in revived'
      BY DEF ReplacedSessions
    <2>1. ses'[z].origin = ses[z].origin /\ ses[z].origin \in SessionIds
      BY <1>0, <1>2 DEF Session
    <2>2. /\ ses[z].status # "none" /\ ses[ses[z].origin].status # "none"
          /\ ses[ses[z].origin].status = "scheduled" => ses[z].origin \in revived
      BY <2>1 DEF RemindersInvariant, ReplacedSessions
    <2> QED BY <1>0, <1>2, <2>1, <2>2
  <1>5. PassesHoldSessions'
    <2>1. \A r \in Replicas : pass[r].locked \subseteq SessionIds /\ x \notin pass[r].locked
      BY DEF RemindersInvariant, RemindersTyped, Pass, Locked
    <2> QED BY <1>0, <2>1 DEF RemindersInvariant, PassesHoldSessions
  <1>6. RemindersFollowChain'
    <2>1. ASSUME NEW z \in SessionIds PROVE chain(ses', z) = chain(ses, z)
      <3> DEFINE t == ses'
      <3>1. \A w \in SessionIds : t[w].origin = ses[w].origin
        BY <1>2
      <3> HIDE DEF t
      <3>2. chain(t, z) = chain(ses, z)
        BY <3>1, ChainSame
      <3> QED BY <3>2 DEF t
    <2>2. Reminded' = Reminded
      BY DEF Reminded
    <2>3. ASSUME NEW z \in SessionIds, ses[z].status # "none"
          PROVE  ses'[z].status # "none" /\ chain(ses', z) \subseteq chain(ses, z)
      <3>1. ses'[z].status # "none"
        BY <1>2, <2>3
      <3>2. chain(ses', z) = chain(ses, z)
        BY <2>1
      <3> QED BY <3>1, <3>2
    <2> QED BY <2>2, <2>3, FollowKept DEF RemindersInvariant
  <1> QED BY <1>1, <1>3, <1>4, <1>5, <1>6 DEF RemindersInvariant

\* An edit is over.
LEMMA DoneEdit ==
  ASSUME RemindersTyped, NEW e \in Edits, Done(e)
  PROVE  /\ edit' \in [Edits -> Edit] /\ edit'[e].kind = "done"
         /\ \A d \in Edits \ {e} : edit'[d] = edit[d]
  <1> DEFINE n == [NoEdit EXCEPT !.kind = "done"]
  <1>1. NoEdit \in Edit
    BY NoticeConstants DEF NoEdit, Edit, SessionIds, NoSession, Session, Dates
  <1>2. n \in Edit /\ n.kind = "done"
    BY <1>1 DEF Edit
  <1>3. edit' = [edit EXCEPT ![e] = n]
    BY DEF Done
  <1> HIDE DEF n
  <1> QED BY <1>2, <1>3 DEF RemindersTyped

\* A substitution saves the session as it was read, with another tutor.
LEMMA SubstituteKeeps ==
  ASSUME RemindersInvariant, NEW e \in Edits, NEW tutor \in {"own", "other"},
         ChangeTutorTemporary(e, tutor)
  PROVE  RemindersInvariant'
  <1> DEFINE x == edit[e].id
             n == [edit[e].row EXCEPT !.tutor = tutor]
  <1>0. edit[e] \in Edit /\ edit[e].kind = "substitute"
    BY DEF RemindersInvariant, RemindersTyped, ChangeTutorTemporary
  <1>1. x \in SessionIds /\ edit[e].row \in Session
    BY <1>0 DEF Edit
  <1>2. /\ n \in Session /\ n.status = edit[e].row.status
        /\ n.origin = edit[e].row.origin
    BY <1>1 DEF Session
  <1>3. /\ ses[x].status # "none" /\ n.status # "none" /\ n.origin = ses[x].origin
    BY <1>0, <1>2 DEF RemindersInvariant, EditsCarryOrigins
  <1>4. /\ ses' = [ses EXCEPT ![x] = n] /\ ~Locked(x) /\ Done(e)
        /\ UNCHANGED <<today, pass, covered>>
        /\ revived' = IF edit[e].row.status = "scheduled" /\ ses[x].status # "scheduled"
                      THEN revived \cup {x} ELSE revived
    BY DEF ChangeTutorTemporary
  <1>5. /\ edit' \in [Edits -> Edit]
        /\ \A d \in Edits : edit'[d].kind = "done" \/ edit'[d] = edit[d]
    BY <1>4, DoneEdit DEF RemindersInvariant
  <1> HIDE DEF x, n
  <1>6. /\ revived \subseteq revived'
        /\ n.status = "scheduled" /\ ses[x].status # "scheduled" => x \in revived'
    BY <1>2, <1>4
  <1> QED BY <1>1, <1>2, <1>3, <1>4, <1>5, <1>6, SessionWritten

\* A session is deleted.
LEMMA DeletionKeeps ==
  ASSUME RemindersInvariant, NEW x \in SessionIds, DeleteSession(x)
  PROVE  RemindersInvariant'
  <1> DEFINE n == [ses[x] EXCEPT !.deleted = TRUE]
  <1>1. ses[x] \in Session /\ ses[x].status # "none"
    BY DEF RemindersInvariant, RemindersTyped, DeleteSession, Exists
  <1>2. /\ n \in Session /\ n.status = ses[x].status /\ n.origin = ses[x].origin
    BY <1>1 DEF Session
  <1>3. /\ ses' = [ses EXCEPT ![x] = n] /\ ~Locked(x) /\ edit' \in [Edits -> Edit]
        /\ UNCHANGED <<today, pass, covered, revived, edit>>
    BY DEF DeleteSession, RemindersInvariant, RemindersTyped, history
  <1> HIDE DEF n
  <1> QED BY <1>1, <1>2, <1>3, SessionWritten

\* A permanent change of the schedule cancels the regular session.
LEMMA CancellationKeeps ==
  ASSUME RemindersInvariant, NEW eff \in Dates, ChangeSchedulePermanent(eff)
  PROVE  RemindersInvariant'
  <1>1. UNCHANGED <<today, edit, pass, covered, revived>>
    BY DEF ChangeSchedulePermanent, history
  <1>2. CASE /\ Exists(Regular) /\ ses[Regular].status = "scheduled"
             /\ ses[Regular].date >= eff
    <2> DEFINE n == [ses[Regular] EXCEPT !.status = "cancelled"]
    <2>1. Regular \in SessionIds /\ ses[Regular] \in Session
      BY DEF RemindersInvariant, RemindersTyped, SessionIds
    <2>2. n \in Session /\ n.status = "cancelled" /\ n.origin = ses[Regular].origin
      BY <2>1 DEF Session
    <2>3. /\ ses' = [ses EXCEPT ![Regular] = n] /\ ~Locked(Regular)
          /\ edit' \in [Edits -> Edit]
      BY <1>1, <1>2 DEF ChangeSchedulePermanent, RemindersInvariant, RemindersTyped
    <2> HIDE DEF n
    <2> QED BY <1>1, <1>2, <2>1, <2>2, <2>3, SessionWritten
  <1>3. CASE ~(/\ Exists(Regular) /\ ses[Regular].status = "scheduled"
               /\ ses[Regular].date >= eff)
    <2>1. ses' = ses
      BY <1>3 DEF ChangeSchedulePermanent
    <2> QED BY <1>1, <2>1, RemindersUnchanged DEF RemindersInvariant, RemindersTyped
  <1> QED BY <1>2, <1>3

\* A move: the session that was read is replaced by a new one, of which nobody
\* has been reminded yet.
LEMMA MoveKeeps ==
  ASSUME RemindersInvariant, NEW e \in Edits, NEW d \in Dates, RescheduleSession(e, d)
  PROVE  RemindersInvariant'
  <1> DEFINE x == edit[e].id
             moved == [edit[e].row EXCEPT !.status = "rescheduled"]
             new == [edit[e].row EXCEPT !.status = "scheduled", !.date = d, !.origin = x]
  <1>0. edit[e] \in Edit /\ edit[e].kind = "move"
    BY DEF RemindersInvariant, RemindersTyped, RescheduleSession
  <1>1. x \in SessionIds /\ e \in SessionIds /\ edit[e].row \in Session
    BY <1>0 DEF Edit, SessionIds
  <1>2. /\ moved \in Session /\ moved.status = "rescheduled"
        /\ moved.origin = edit[e].row.origin
        /\ new \in Session /\ new.status = "scheduled" /\ new.origin = x
    BY <1>1 DEF Session
  <1>3. /\ ses[x].status # "none" /\ moved.origin = ses[x].origin /\ ses[e].status = "none"
    BY <1>0, <1>2 DEF RemindersInvariant, EditsCarryOrigins
  <1>4. /\ ses' = [ses EXCEPT ![x] = moved, ![e] = new] /\ ~Locked(x) /\ Done(e)
        /\ UNCHANGED <<today, pass, covered, revived>>
    BY DEF RescheduleSession
  <1> HIDE DEF x, moved, new
  <1>5. /\ ses \in [SessionIds -> Session] /\ ses' \in [SessionIds -> Session]
        /\ x # e /\ ses'[x] = moved /\ ses'[e] = new
        /\ \A z \in SessionIds \ {x, e} : ses'[z] = ses[z]
    BY <1>1, <1>2, <1>3, <1>4 DEF RemindersInvariant, RemindersTyped
  <1>6. /\ edit' \in [Edits -> Edit] /\ edit'[e].kind = "done"
        /\ \A f \in Edits \ {e} : edit'[f] = edit[f]
    BY <1>4, DoneEdit DEF RemindersInvariant
  <1>7. RemindersTyped'
    BY <1>4, <1>5, <1>6 DEF RemindersInvariant, RemindersTyped
  <1>8. \A z \in SessionIds : ses[z].status # "none" =>
           /\ z # e /\ ses'[z].status # "none" /\ ses'[z].origin = ses[z].origin
    BY <1>2, <1>3, <1>5
  <1>9. EditsCarryOrigins'
    <2> SUFFICES ASSUME NEW f \in Edits
                 PROVE  /\ edit'[f].kind # "done" => ses'[f].status = "none"
                        /\ edit'[f].kind \in {"move", "substitute"} =>
                              /\ ses'[edit'[f].id].status # "none"
                              /\ edit'[f].row.status # "none"
                              /\ edit'[f].row.origin = ses'[edit'[f].id].origin
      BY DEF EditsCarryOrigins
    <2>1. CASE f = e
      BY <1>6, <2>1
    <2>2. CASE f # e
      <3>1. edit'[f] = edit[f] /\ f \in SessionIds /\ edit[f].id \in SessionIds
        BY <1>6, <2>2 DEF RemindersInvariant, RemindersTyped, Edit, SessionIds
      <3>2. edit[f].kind # "done" => ses[f].status = "none" /\ f # x
        BY <1>3 DEF RemindersInvariant, EditsCarryOrigins
      <3>3. edit[f].kind # "done" => ses'[f].status = "none"
        BY <1>5, <2>2, <3>1, <3>2
      <3>4. edit[f].kind \in {"move", "substitute"} =>
               /\ ses[edit[f].id].status # "none" /\ edit[f].row.status # "none"
               /\ edit[f].row.origin = ses[edit[f].id].origin
        BY DEF RemindersInvariant, EditsCarryOrigins
      <3> QED BY <1>8, <3>1, <3>3, <3>4
    <2> QED BY <2>1, <2>2
  <1>10. ReplacedSessions'
    <2> SUFFICES ASSUME NEW z \in SessionIds, ses'[z].origin # Null
                 PROVE  /\ ses'[z].status # "none" /\ ses'[ses'[z].origin].status # "none"
                        /\ ses'[ses'[z].origin].status = "scheduled" => ses'[z].origin \in revived'
      BY DEF ReplacedSessions
    <2>1. CASE z = e
      BY <1>2, <1>5, <2>1
    <2>2. CASE z # e
      <3>1. ses'[z].origin = ses[z].origin /\ ses[z].origin \in SessionIds
        BY <1>2, <1>3, <1>5, <2>2 DEF Session
      <3>2. /\ ses[z].status # "none" /\ ses[ses[z].origin].status # "none"
            /\ ses[ses[z].origin].status = "scheduled" => ses[z].origin \in revived
        BY <3>1 DEF RemindersInvariant, ReplacedSessions
      <3>3. ses[z].origin # e
        BY <1>3, <3>2
      <3>4. ses'[ses[z].origin].status = "scheduled" => ses[ses[z].origin].status = "scheduled"
        BY <1>2, <1>5, <3>1, <3>3
      <3>5. ses'[z].status # "none" /\ ses'[ses[z].origin].status # "none"
        BY <1>8, <3>1, <3>2
      <3>6. ses'[ses[z].origin].status = "scheduled" => ses[z].origin \in revived'
        BY <1>4, <3>2, <3>4
      <3> QED BY <3>1, <3>5, <3>6
    <2> QED BY <2>1, <2>2
  <1>11. PassesHoldSessions'
    <2>1. \A r \in Replicas : pass[r].locked \subseteq SessionIds /\ x \notin pass[r].locked
      BY <1>4 DEF RemindersInvariant, RemindersTyped, Pass, Locked
    <2>2. \A r \in Replicas : e \notin pass[r].locked
      BY <1>3 DEF RemindersInvariant, PassesHoldSessions
    <2> QED BY <1>4, <1>5, <2>1, <2>2 DEF RemindersInvariant, PassesHoldSessions
  <1>12. RemindersFollowChain'
    <2>1. \A z \in SessionIds : ses[z].origin # e
      <3>1. e # Null
        BY <1>1, NoticeConstants
      <3> QED BY <1>3, <3>1 DEF RemindersInvariant, ReplacedSessions
    <2>2. ASSUME NEW z \in SessionIds, ses[z].status # "none"
          PROVE  ses'[z].status # "none" /\ chain(ses', z) \subseteq chain(ses, z)
      <3> DEFINE t == ses'
      <3>1. z # e
        BY <1>3, <2>2
      <3>2. \A w \in SessionIds \ {e} : ses[w].origin = t[w].origin
        BY <1>2, <1>3, <1>5
      <3> HIDE DEF t
      <3>3. chain(t, z) \subseteq chain(ses, z)
        BY <1>1, <2>1, <3>1, <3>2, ChainMoves
      <3>4. chain(ses', z) \subseteq chain(ses, z)
        BY <3>3 DEF t
      <3> QED BY <1>8, <2>2, <3>4
    <2>3. Reminded' = Reminded
      BY <1>4 DEF Reminded
    <2> QED BY <1>4, <2>2, <2>3, FollowKept DEF RemindersInvariant
  <1> QED BY <1>7, <1>9, <1>10, <1>11, <1>12 DEF RemindersInvariant

\* A step of a reminder worker that sends nothing new and locks scheduled sessions.
LEMMA PassMoves ==
  ASSUME RemindersInvariant, NEW r \in Replicas, NEW n \in Pass, pass' = [pass EXCEPT ![r] = n],
         n.todo \subseteq n.locked, \A w \in n.marked : w[1] \in n.locked,
         \A x \in n.locked : ses[x].status = "scheduled",
         covered' \subseteq Reminded, n.marked \subseteq pass[r].marked,
         UNCHANGED <<today, ses, edit, revived>>
  PROVE  RemindersInvariant'
  <1>1. /\ pass' \in [Replicas -> Pass] /\ pass'[r] = n
        /\ \A q \in Replicas \ {r} : pass'[q] = pass[q]
    BY DEF RemindersInvariant, RemindersTyped
  <1>2. covered' \subseteq SessionIds \X Enrollments
    BY RemindedTyped DEF RemindersInvariant
  <1>3. RemindersTyped' /\ EditsCarryOrigins' /\ ReplacedSessions'
    BY <1>1, <1>2 DEF RemindersInvariant, RemindersTyped, EditsCarryOrigins, ReplacedSessions
  <1>4. PassesHoldSessions'
    BY <1>1 DEF RemindersInvariant, PassesHoldSessions
  <1>5. Reminded' \subseteq Reminded
    <2>1. \A q \in Replicas : pass'[q].marked \subseteq Reminded
      BY <1>1 DEF Reminded
    <2> QED BY <2>1 DEF Reminded
  <1>6. \A x \in SessionIds : ses[x].status # "none" =>
           ses'[x].status # "none" /\ chain(ses', x) \subseteq chain(ses, x)
    OBVIOUS
  <1>7. RemindersFollowChain'
    BY <1>5, <1>6, FollowKept DEF RemindersInvariant
  <1> QED BY <1>3, <1>4, <1>7 DEF RemindersInvariant

\* A worker that looks for nothing.
LEMMA NoPassTyped ==
  /\ NoPass \in Pass /\ NoPass.todo = {} /\ NoPass.marked = {} /\ NoPass.locked = {}
  BY NoticeConstants DEF NoPass, Pass

\* Starting, committing and losing a pass.
LEMMA PassEndsKeep ==
  ASSUME RemindersInvariant, NEW r \in Replicas,
         StartPass(r) \/ LockSessions(r) \/ CommitReminders(r) \/ PassFails(r)
  PROVE  RemindersInvariant'
  <1>1. /\ pass[r] \in Pass /\ covered \subseteq Reminded /\ pass[r].marked \subseteq Reminded
    BY DEF RemindersInvariant, RemindersTyped, Reminded
  <1>2. CASE StartPass(r)
    <2> DEFINE n == [NoPass EXCEPT !.step = "query", !.from = today]
    <2>0. today \in 0 .. LastDay
      BY NoticeConstants DEF RemindersInvariant, RemindersTyped, Dates
    <2>1. /\ n \in Pass /\ n.todo = {} /\ n.marked = {} /\ n.locked = {}
      BY <2>0 DEF Pass, NoPass
    <2>2. /\ pass' = [pass EXCEPT ![r] = n] /\ covered' \subseteq Reminded
          /\ UNCHANGED <<today, ses, edit, revived>>
      BY <1>1, <1>2 DEF StartPass, history
    <2> HIDE DEF n
    <2> QED BY <2>1, <2>2, PassMoves
  <1>3. CASE LockSessions(r)
    <2> DEFINE found == DueSessions(window(pass[r].from))
               n == IF found = {} THEN NoPass ELSE Locking(found)
    <2>1. found \subseteq SessionIds /\ \A x \in found : ses[x].status = "scheduled"
      BY DEF DueSessions, Remindable
    <2>2. /\ n \in Pass /\ n.todo \subseteq found /\ n.marked = {} /\ n.locked = n.todo
      <3> HIDE DEF found
      <3> QED BY <2>1, NoPassTyped DEF Locking, Pass
    <2>3. /\ pass' = [pass EXCEPT ![r] = n] /\ covered' \subseteq Reminded
          /\ UNCHANGED <<today, ses, edit, revived>>
      BY <1>1, <1>3 DEF LockSessions, history
    <2> HIDE DEF n, found
    <2> QED BY <2>1, <2>2, <2>3, PassMoves
  <1>4. CASE CommitReminders(r) \/ PassFails(r)
    <2>1. /\ pass' = [pass EXCEPT ![r] = NoPass] /\ covered' \subseteq Reminded
          /\ UNCHANGED <<today, ses, edit, revived>>
      BY <1>1, <1>4 DEF CommitReminders, PassFails, history
    <2> QED BY <2>1, NoPassTyped, PassMoves
  <1> QED BY <1>2, <1>3, <1>4

\* The statement for a session: nobody it adds has been reminded along the chain
\* of the session, by this pass or another, or is yet to be of what replaces it.
LEMMA EnqueueKeeps ==
  ASSUME RemindersInvariant, NEW r \in Replicas, NEW x \in SessionIds, EnqueueReminders(r, x)
  PROVE  RemindersInvariant'
  <1> DEFINE eligible == {e \in ReminderScope(covered \cup pass[r].marked, x) : Remindable(x)}
             n == [pass[r] EXCEPT !.todo = @ \ {x}, !.marked = @ \cup ({x} \X eligible)]
  <1>1. eligible \subseteq Enrollments /\ x \in pass[r].todo /\ pass[r] \in Pass
    BY DEF EnqueueReminders, ReminderScope, RemindersInvariant, RemindersTyped
  <1>2. /\ \A e \in eligible : /\ ses[x].status = "scheduled"
                               /\ \A y \in chain(ses, x) :
                                     <<y, e>> \notin covered \cup pass[r].marked
    BY DEF ReminderScope, Remindable, session_reminder_covered
  <1>3. /\ pass' = [pass EXCEPT ![r] = n] /\ UNCHANGED <<today, ses, edit, covered, revived>>
    BY DEF EnqueueReminders, history
  <1> HIDE DEF eligible
  <1>4. /\ n \in Pass /\ n.locked = pass[r].locked /\ n.todo \subseteq pass[r].todo
        /\ n.marked = pass[r].marked \cup ({x} \X eligible)
    BY <1>1 DEF Pass
  <1> HIDE DEF n
  <1>5. /\ pass' \in [Replicas -> Pass] /\ pass'[r] = n
        /\ \A q \in Replicas \ {r} : pass'[q] = pass[q]
    BY <1>3, <1>4 DEF RemindersInvariant, RemindersTyped
  <1>6. RemindersTyped' /\ EditsCarryOrigins' /\ ReplacedSessions'
    BY <1>3, <1>5 DEF RemindersInvariant, RemindersTyped, EditsCarryOrigins, ReplacedSessions
  <1>7. PassesHoldSessions'
    <2>1. \A w \in {x} \X eligible : w[1] = x
      OBVIOUS
    <2>2. /\ n.todo \subseteq n.locked /\ \A w \in n.marked : w[1] \in n.locked
          /\ \A z \in n.locked : ses[z].status = "scheduled"
      BY <1>1, <1>4, <2>1 DEF RemindersInvariant, PassesHoldSessions
    <2> QED BY <1>3, <1>5, <2>2 DEF RemindersInvariant, PassesHoldSessions
  <1>8. Reminded' = Reminded \cup ({x} \X eligible)
    <2>1. \A q \in Replicas : pass'[q].marked =
             IF q = r THEN pass[r].marked \cup ({x} \X eligible) ELSE pass[q].marked
      BY <1>4, <1>5
    <2> QED BY <1>3, <2>1 DEF Reminded
  <1>9. RemindersFollowChain'
    <2>1. ASSUME NEW w \in Reminded' PROVE ses'[w[1]].status # "none"
      <3>1. CASE w \in Reminded
        BY <1>3, <3>1 DEF RemindersInvariant, RemindersFollowChain
      <3>2. CASE w \in {x} \X eligible
        <4>1. w[1] = x /\ w[2] \in eligible
          BY <3>2
        <4> QED BY <1>2, <1>3, <4>1
      <3> QED BY <1>8, <3>1, <3>2
    <2>2. ASSUME NEW a \in SessionIds, NEW b \in chain(ses, a) \ ({a} \cup revived),
                 NEW e \in Enrollments, <<a, e>> \in Reminded', <<b, e>> \in Reminded'
          PROVE  FALSE
      <3>1. ses[b].status # "scheduled"
        BY ScheduledOrigins DEF RemindersInvariant
      <3>2. <<b, e>> \in Reminded
        <4>1. <<b, e>> \in {x} \X eligible => b = x /\ e \in eligible
          OBVIOUS
        <4> QED BY <1>2, <1>8, <2>2, <3>1, <4>1
      <3>3. <<a, e>> \notin Reminded
        BY <3>2 DEF RemindersInvariant, RemindersFollowChain
      <3>4. a = x /\ e \in eligible
        BY <1>8, <2>2, <3>3
      <3>5. <<b, e>> \notin covered
        BY <1>2, <3>4
      <3>6. PICK q \in Replicas : <<b, e>> \in pass[q].marked
        BY <3>2, <3>5 DEF Reminded
      <3>7. \A w \in pass[q].marked : w[1] \in pass[q].locked
        BY DEF RemindersInvariant, PassesHoldSessions
      <3>8. b \in pass[q].locked
        <4>1. <<b, e>>[1] \in pass[q].locked
          BY <3>6, <3>7
        <4> QED BY <4>1
      <3> QED BY <3>1, <3>8 DEF RemindersInvariant, PassesHoldSessions
    <2>3. /\ revived' = revived /\ \A a \in SessionIds : chain(ses', a) = chain(ses, a)
      BY <1>3
    <2> QED BY <2>1, <2>2, <2>3 DEF RemindersFollowChain
  <1> QED BY <1>6, <1>7, <1>9 DEF RemindersInvariant

\* An edit that reads a session.
LEMMA ReadKeeps ==
  ASSUME RemindersInvariant, NEW e \in Edits, NEW x \in SessionIds,
         NEW kind \in {"move", "substitute"}, ReadSession(e, x, kind)
  PROVE  RemindersInvariant'
  <1> DEFINE n == [kind |-> kind, id |-> x, row |-> ses[x]]
  <1>1. /\ n \in Edit /\ ses[x].status # "none" /\ edit[e].kind # "done"
        /\ n.kind = kind /\ n.id = x /\ n.row = ses[x]
    BY DEF RemindersInvariant, RemindersTyped, Edit, ReadSession, Exists, NoEdit
  <1>2. edit' = [edit EXCEPT ![e] = n] /\ UNCHANGED <<today, ses, pass, covered, revived>>
    BY DEF ReadSession, history
  <1> HIDE DEF n
  <1>3. /\ edit' \in [Edits -> Edit] /\ edit'[e] = n
        /\ \A d \in Edits \ {e} : edit'[d] = edit[d]
    BY <1>1, <1>2 DEF RemindersInvariant, RemindersTyped
  <1>4. RemindersTyped' /\ ReplacedSessions' /\ PassesHoldSessions'
    BY <1>2, <1>3 DEF RemindersInvariant, RemindersTyped, ReplacedSessions, PassesHoldSessions
  <1>5. EditsCarryOrigins'
    BY <1>1, <1>2, <1>3 DEF RemindersInvariant, EditsCarryOrigins
  <1>6. RemindersFollowChain'
    BY <1>2 DEF RemindersInvariant, RemindersFollowChain, Reminded, chain
  <1> QED BY <1>4, <1>5, <1>6 DEF RemindersInvariant

\* No step breaks the invariant of the reminders.
LEMMA RemindersStep == RemindersInvariant /\ [Next]_vars => RemindersInvariant'
  <1> SUFFICES ASSUME RemindersInvariant, [Next]_vars PROVE RemindersInvariant'
    OBVIOUS
  <1> DEFINE Aside == today' \in Dates /\ UNCHANGED <<ses, edit, pass, covered, revived>>
  <1>0. today \in Dates
    BY DEF RemindersInvariant, RemindersTyped
  <1>1. CASE UNCHANGED vars
    BY <1>0, <1>1, RemindersUnchanged DEF vars, history
  <1>2. CASE Midnight
    <2>1. today' \in Dates
      BY <1>0, <1>2, NoticeConstants DEF Midnight, Dates
    <2> QED BY <1>2, <2>1, RemindersUnchanged DEF Midnight, history
  <1>3. ASSUME NEW e \in Enrollments, EnrollmentMoves(e) PROVE Aside
    BY <1>0, <1>3 DEF EnrollmentMoves, history
  <1>4. ASSUME NEW m \in Marks,
               \/ \E x \in SessionIds, e \in Enrollments, status \in Marked :
                      AcceptCreate(m, x, e, status)
               \/ \E e \in Enrollments, status \in Marked : AcceptCreateByDate(m, e, status)
               \/ \E x \in SessionIds, items \in Items : AcceptBulk(m, x, items)
               \/ \E i \in RowIds, status \in Marked : AcceptUpdate(m, i, status)
        PROVE  Aside
    <2>1. \E kind, x, items : Accept(m, kind, x, items)
      BY <1>4 DEF AcceptCreate, AcceptCreateByDate, AcceptBulk, AcceptUpdate
    <2> QED BY <1>0, <2>1 DEF Accept, history
  <1>5. ASSUME NEW m \in Marks, InsertAttendance(m) \/ AnswerDuplicate(m) \/ SaveAttendance(m)
        PROVE  Aside
    BY <1>0, <1>5 DEF InsertAttendance, AnswerDuplicate, SaveAttendance, Write, history
  <1>6. Aside => RemindersInvariant'
    BY RemindersUnchanged
  <1> HIDE DEF Aside
  <1>7. CASE Next
    BY <1>2, <1>3, <1>4, <1>5, <1>6, <1>7, CancellationKeeps, DeletionKeeps, ReadKeeps, MoveKeeps,
       SubstituteKeeps, PassEndsKeep, EnqueueKeeps DEF Next
  <1> QED BY <1>1, <1>7

\* Before the first request nothing has been replaced and nobody was reminded.
LEMMA RemindersInit == Init => RemindersInvariant
  <1> SUFFICES ASSUME Init PROVE RemindersInvariant
    OBVIOUS
  <1>0. /\ today = 1 /\ edit = [e \in Edits |-> NoEdit]
        /\ pass = [r \in Replicas |-> NoPass] /\ covered = {}
    BY DEF Init
  <1> DEFINE first == [NoSession EXCEPT !.status = "scheduled", !.date = LastDay]
  <1>1. ses = [x \in SessionIds |-> IF x = Regular THEN first ELSE NoSession]
    BY DEF Init
  <1>2. /\ first \in Session /\ NoSession \in Session /\ NoEdit \in Edit
        /\ first.origin = Null /\ NoSession.origin = Null
        /\ NoSession.status = "none" /\ NoEdit.kind = "idle"
    <2>1. 1 \in Dates /\ LastDay \in Dates /\ Regular \in SessionIds
      BY NoticeConstants DEF Dates, SessionIds
    <2>2. NoSession \in Session /\ NoSession.origin = Null /\ NoSession.status = "none"
      BY <2>1 DEF NoSession, Session
    <2>3. first \in Session /\ first.origin = Null
      BY <2>1, <2>2 DEF Session
    <2>4. NoEdit \in Edit /\ NoEdit.kind = "idle"
      BY <2>1, <2>2 DEF NoEdit, Edit
    <2> QED BY <2>2, <2>3, <2>4
  <1> HIDE DEF first
  <1>3. /\ ses \in [SessionIds -> Session]
        /\ \A x \in SessionIds : ses[x].origin = Null
        /\ \A e \in Edits : ses[e].status = "none"
    BY <1>1, <1>2, NoticeConstants DEF SessionIds
  <1>4. RemindersTyped
    BY <1>0, <1>2, <1>3, NoPassTyped, NoticeConstants DEF RemindersTyped, Dates
  <1>5. EditsCarryOrigins
    BY <1>0, <1>2, <1>3 DEF EditsCarryOrigins
  <1>6. ReplacedSessions
    BY <1>3 DEF ReplacedSessions
  <1>7. PassesHoldSessions
    BY <1>0, NoPassTyped DEF PassesHoldSessions
  <1>8. Reminded = {}
    BY <1>0, NoPassTyped DEF Reminded
  <1>9. RemindersFollowChain
    BY <1>8 DEF RemindersFollowChain
  <1> QED BY <1>4, <1>5, <1>6, <1>7, <1>9 DEF RemindersInvariant

\* Edits keep the origins of sessions, what has been replaced is scheduled again
\* only by the save of an old copy, and passes keep what they remind of locked.
THEOREM RemindersInvariantHolds == Spec => []RemindersInvariant
  <1> QED BY RemindersInit, RemindersStep, PTL DEF Spec

\* No student is reminded of a session and again of one that replaces it, whatever
\* replicas, moves and deletions do between the statements of a pass: coverage is
\* looked up along the chain of origins, and what a pass has found is locked.
THEOREM FamiliesRemindedOnce == Spec => []RemindedOnce
  <1>1. RemindersInvariant => RemindedOnce
    BY DEF RemindersInvariant, RemindersFollowChain, Reminded, RemindedOnce
  <1> QED BY <1>1, RemindersInvariantHolds, PTL

=============================================================================
