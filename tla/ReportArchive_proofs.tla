------------------------- MODULE ReportArchive_proofs -------------------------
(***************************************************************************)
(* Proofs about ReportArchive, for any sets of numbers, months, documents  *)
(* and threads: IInv is inductive, one lemma per group of steps.           *)
(***************************************************************************)
EXTENDS ReportArchive, TLAPS

LEMMA DigestInjective ==
    ASSUME NEW c, NEW d, Digest(c) = Digest(d)
    PROVE  c = d
  BY DEF Digest

LEMMA JobFacts ==
    /\ \A j \in CreateJob : /\ j.id \in Ids /\ j.month \in Months /\ j.doc \in Docs
                            /\ j.op = "create" /\ j # NoJob
                            /\ BodyPath(j) \in Paths
                            /\ EntryOf(j) \in Entry /\ EntryOf(j).month = j.month
                            /\ \A d \in Docs : Verified(d, EntryOf(j)) <=> d = j.doc
    /\ \A j \in ReadJob : j.id \in Ids /\ j.op = "read" /\ j # NoJob
    /\ NoJob.op = "none"
<1>1. \A j \in CreateJob : /\ j.id \in Ids /\ j.month \in Months /\ j.doc \in Docs
                           /\ j.op = "create" /\ j # NoJob
    BY DEF CreateJob, NoJob
<1>2. \A j \in CreateJob : BodyPath(j) \in Paths
    BY <1>1 DEF BodyPath, Paths
<1>3. \A j \in CreateJob : EntryOf(j) \in Entry /\ EntryOf(j).month = j.month
    BY <1>1 DEF EntryOf, Entry
<1>4. \A j \in CreateJob, d \in Docs : Verified(d, EntryOf(j)) <=> d = j.doc
    BY DEF Verified, EntryOf, Digest
<1>5. \A j \in ReadJob : j.id \in Ids /\ j.op = "read" /\ j # NoJob
    BY DEF ReadJob, NoJob
<1>. QED BY <1>1, <1>2, <1>3, <1>4, <1>5 DEF NoJob

LEMMA EntryFacts ==
    \A e \in Entry :
        /\ e.month \in Months /\ e # NoRow /\ e # Missing /\ e # Torn
        /\ \E d \in Docs : Verified(d, e)
        /\ ~Verified(Missing, e) /\ ~Verified(Torn, e)
        /\ \A c, d : Verified(c, e) /\ Verified(d, e) => c = d
  BY RecordAssumption, FileAssumption DEF Entry, NoRow, Verified, Digest

LEMMA InitIInv == Init => IInv
<1> SUFFICES ASSUME Init PROVE IInv
    OBVIOUS
<1>1. TypeOK
    BY DEF Init, TypeOK, Replies, Status, Steps, Refused, Paths
<1>2. BodyOwned /\ RecordOwned /\ StepFitsJob /\ BodyStays /\ RecordStays
    BY DEF Init, BodyOwned, RecordOwned, StepFitsJob, BodyStays, RecordStays, Refused
<1>3. PublishedOnDisk /\ DiskPublished /\ SeenPublished /\ SeenIsCurrent
    BY RecordAssumption
       DEF Init, PublishedOnDisk, DiskPublished, SeenPublished, SeenIsCurrent
<1>4. RecordHasBody /\ ServesPublishedOnly /\ CreatedIsOwn /\ IndexAgrees
      /\ UnhandledNeedsDamage
    BY RecordAssumption
       DEF Init, RecordHasBody, ServesPublishedOnly, CreatedIsOwn, IndexAgrees,
           UnhandledNeedsDamage, Refused
<1>. QED BY <1>1, <1>2, <1>3, <1>4 DEF IInv

LEMMA TypeStep == TypeOK /\ StepFitsJob /\ [Next]_vars => TypeOK'
<1> SUFFICES ASSUME TypeOK, StepFitsJob, [Next]_vars PROVE TypeOK'
    OBVIOUS
<1> USE DEF TypeOK, StepFitsJob, files, history, threads
<1>1. ASSUME NEW w \in Workers, Post(w) \/ Get(w) PROVE TypeOK'
    BY <1>1 DEF Post, Get, Begin, Steps, Replies, Status, Refused
<1>2. ASSUME NEW w \in Workers, Render(w) PROVE TypeOK'
    BY <1>2 DEF Render, Answer, Goto, Steps, Replies, Status, Refused
<1>3. ASSUME NEW w \in Workers, OpenBody(w) PROVE TypeOK'
    BY <1>3 DEF OpenBody, CanCreate, BodyPath, Answer, Goto, Steps, Replies, Status, Refused
<1>4. ASSUME NEW w \in Workers, WriteBody(w) PROVE TypeOK'
  <2>1. job[w].doc \in Docs
      BY <1>4 DEF WriteBody, CreateJob
  <2>. QED BY <1>4, <2>1 DEF WriteBody, Answer, Goto, Steps, Replies, Status, Refused
<1>5. ASSUME NEW w \in Workers, OpenRecord(w) PROVE TypeOK'
    BY <1>5 DEF OpenRecord, Answer, Goto, Steps, Replies, Status, Refused
<1>6. ASSUME NEW w \in Workers, WriteRecord(w) PROVE TypeOK'
  <2>1. job[w].doc \in Docs /\ EntryOf(job[w]) \in Entry
      BY <1>6 DEF WriteRecord, CreateJob, EntryOf, Entry
  <2>. QED BY <1>6, <2>1 DEF WriteRecord, Answer, Goto, Steps, Replies, Status, Refused
<1>7. ASSUME NEW w \in Workers, IndexRow(w) PROVE TypeOK'
  <2>1. EntryOf(job[w]) \in Entry
      BY <1>7 DEF IndexRow, CreateJob, EntryOf, Entry
  <2>. QED BY <1>7, <2>1 DEF IndexRow, Answer, Goto, Steps
<1>8. ASSUME NEW w \in Workers, ReadRecord(w) PROVE TypeOK'
    BY <1>8 DEF ReadRecord, Answer, Goto, Steps, Replies, Status, Refused
<1>9. ASSUME NEW w \in Workers, ReadBody(w) PROVE TypeOK'
  <2>1. job[w].id \in Ids /\ seen[w] \in Entry
      BY <1>9 DEF ReadBody, CreateJob, ReadJob
  <2>2. <<job[w].id, seen[w].month>> \in Paths
      BY <2>1 DEF Paths, Entry
  <2> DEFINE content == body[<<job[w].id, seen[w].month>>]
  <2>3. content # Missing /\ Verified(content, seen[w]) => content \in Docs
      BY <2>1, <2>2, DigestInjective, FileAssumption DEF Verified, Entry, Digest
  <2>. QED BY <1>9, <2>3 DEF ReadBody, Answer, Steps, Replies, Status, Refused, Served
<1>10. CASE Restart
    BY <1>10 DEF Restart, Steps, Replies, Status, Refused
<1>11. ASSUME NEW p \in Paths, DamageBody(p) PROVE TypeOK'
    BY <1>11 DEF DamageBody, Paths
<1>12. ASSUME NEW i \in Ids, DamageRecord(i) PROVE TypeOK'
    BY <1>12 DEF DamageRecord
<1>13. CASE UNCHANGED vars
    BY <1>13 DEF vars
<1>. QED BY <1>1, <1>2, <1>3, <1>4, <1>5, <1>6, <1>7, <1>8, <1>9, <1>10, <1>11,
            <1>12, <1>13 DEF Next, Request, Step, Environment
\* A thread that answers with a refusal leaves the archive as it is.
LEMMA RefusingStep ==
    ASSUME IInv, TypeOK',
           NEW w \in Workers, pc[w] # "idle", NEW s \in Status \ {"none"}, Answer(w, Refused(s)),
           s = "unhandled" => job[w].id \in damaged, UNCHANGED <<files, row, history>>
    PROVE  IInv'
<1>1. /\ pc'[w] = "idle" /\ reply'[w] = [status |-> s] /\ seen'[w] = NoRow
      /\ job' = job /\ job[w] # NoJob
      /\ body' = body /\ record' = record /\ row' = row
      /\ published' = published /\ delivered' = delivered /\ damaged' = damaged
    BY JobFacts DEF Answer, Refused, files, history, IInv, StepFitsJob, TypeOK, Steps
<1>2. \A v \in Workers \ {w} :
        pc'[v] = pc[v] /\ reply'[v] = reply[v] /\ seen'[v] = seen[v]
    BY DEF Answer, IInv, TypeOK
<1> USE JobFacts, EntryFacts, FileAssumption, <1>1, <1>2 DEF IInv, StepFitsJob
<1>3. BodyOwned'
    BY DEF BodyOwned, TypeOK, BodyPath
<1>4. RecordOwned'
    BY DEF RecordOwned, TypeOK
<1>5. StepFitsJob'
    BY DEF TypeOK
<1>6. BodyStays'
    BY DEF BodyStays, TypeOK, BodyPath, BodyOwned
<1>7. RecordStays'
    BY DEF RecordStays, TypeOK, RecordOwned
<1>8. PublishedOnDisk'
    BY DEF PublishedOnDisk, TypeOK, RecordOwned
<1>9. DiskPublished'
    BY DEF DiskPublished, TypeOK
<1>10. SeenPublished'
    BY DEF SeenPublished, TypeOK, DiskPublished
<1>11. SeenIsCurrent'
    BY DEF SeenIsCurrent, TypeOK, RecordOwned
<1>12. RecordHasBody'
    BY DEF RecordHasBody, TypeOK, BodyPath, BodyStays, BodyOwned
<1>13. ServesPublishedOnly'
    BY DEF ServesPublishedOnly, TypeOK, SeenPublished
<1>14. CreatedIsOwn'
    BY DEF CreatedIsOwn, Status
<1>15. IndexAgrees'
    BY DEF IndexAgrees, TypeOK, RecordOwned, RecordStays
<1>16. UnhandledNeedsDamage'
    BY DEF UnhandledNeedsDamage, TypeOK
<1>. QED BY <1>3, <1>4, <1>5, <1>6, <1>7, <1>8, <1>9, <1>10, <1>11, <1>12, <1>13, <1>14, <1>15, <1>16 DEF IInv

\* Receiving a request.
LEMMA RequestStep ==
    ASSUME IInv, TypeOK',
           NEW w \in Workers, Request(w)
    PROVE  IInv'
<1>1. /\ pc[w] = "idle" /\ reply'[w] = [status |-> "none"] /\ seen' = seen
      /\ body' = body /\ record' = record /\ row' = row
      /\ published' = published /\ delivered' = delivered /\ damaged' = damaged
      /\ \/ pc'[w] = "render" /\ job'[w] \in CreateJob
         \/ pc'[w] = "readRecord" /\ job'[w] \in ReadJob
    BY DEF Request, Post, Get, Begin, Refused, files, history, IInv, TypeOK
<1>2. \A v \in Workers \ {w} :
        pc'[v] = pc[v] /\ reply'[v] = reply[v] /\ job'[v] = job[v]
    BY DEF Request, Post, Get, Begin, IInv, TypeOK
<1> USE JobFacts, EntryFacts, FileAssumption, <1>1, <1>2 DEF IInv, StepFitsJob
<1>3. BodyOwned'
    BY DEF BodyOwned, TypeOK, BodyPath
<1>4. RecordOwned'
    BY DEF RecordOwned, TypeOK
<1>5. StepFitsJob'
    BY DEF TypeOK
<1>6. BodyStays'
    BY DEF BodyStays, TypeOK, BodyPath, BodyOwned
<1>7. RecordStays'
    BY DEF RecordStays, TypeOK, RecordOwned
<1>8. PublishedOnDisk'
    BY DEF PublishedOnDisk, TypeOK, RecordOwned
<1>9. DiskPublished'
    BY DEF DiskPublished, TypeOK
<1>10. SeenPublished'
    BY DEF SeenPublished, TypeOK, DiskPublished
<1>11. SeenIsCurrent'
    BY DEF SeenIsCurrent, TypeOK, RecordOwned
<1>12. RecordHasBody'
    BY DEF RecordHasBody, TypeOK, BodyPath, BodyStays, BodyOwned
<1>13. ServesPublishedOnly'
    BY DEF ServesPublishedOnly, TypeOK, SeenPublished
<1>14. CreatedIsOwn'
    BY DEF CreatedIsOwn, TypeOK, BodyPath, RecordStays, SeenIsCurrent, RecordHasBody, RecordOwned, BodyOwned
<1>15. IndexAgrees'
    BY DEF IndexAgrees, TypeOK, RecordOwned, RecordStays
<1>16. UnhandledNeedsDamage'
    BY DEF UnhandledNeedsDamage, TypeOK
<1>. QED BY <1>3, <1>4, <1>5, <1>6, <1>7, <1>8, <1>9, <1>10, <1>11, <1>12, <1>13, <1>14, <1>15, <1>16 DEF IInv

\* render_pdf and verify_korean_glyphs succeed.
LEMMA RenderedStep ==
    ASSUME IInv, TypeOK',
           NEW w \in Workers, pc[w] = "render", Goto(w, "openBody"),
           UNCHANGED <<files, row, history>>
    PROVE  IInv'
<1>1. /\ pc'[w] = "openBody" /\ job[w] \in CreateJob
      /\ reply' = reply /\ seen' = seen /\ job' = job
      /\ body' = body /\ record' = record /\ row' = row /\ published' = published /\ delivered' = delivered /\ damaged' = damaged
    BY DEF Goto, IInv, StepFitsJob, TypeOK, files, history
<1>2. \A v \in Workers \ {w} : pc'[v] = pc[v]
    BY DEF Goto, IInv, TypeOK
<1> USE JobFacts, EntryFacts, FileAssumption, <1>1, <1>2 DEF IInv, StepFitsJob
<1>3. BodyOwned'
    BY DEF BodyOwned, TypeOK, BodyPath
<1>4. RecordOwned'
    BY DEF RecordOwned, TypeOK
<1>5. StepFitsJob'
    BY DEF TypeOK
<1>6. BodyStays'
    BY DEF BodyStays, TypeOK, BodyPath, BodyOwned
<1>7. RecordStays'
    BY DEF RecordStays, TypeOK, RecordOwned
<1>8. PublishedOnDisk'
    BY DEF PublishedOnDisk, TypeOK, RecordOwned
<1>9. DiskPublished'
    BY DEF DiskPublished, TypeOK
<1>10. SeenPublished'
    BY DEF SeenPublished, TypeOK, DiskPublished
<1>11. SeenIsCurrent'
    BY DEF SeenIsCurrent, TypeOK, RecordOwned
<1>12. RecordHasBody'
    BY DEF RecordHasBody, TypeOK, BodyPath, BodyStays, BodyOwned
<1>13. ServesPublishedOnly'
    BY DEF ServesPublishedOnly, TypeOK, SeenPublished
<1>14. CreatedIsOwn'
    BY DEF CreatedIsOwn, TypeOK, BodyPath, RecordStays, SeenIsCurrent, RecordHasBody, RecordOwned, BodyOwned
<1>15. IndexAgrees'
    BY DEF IndexAgrees, TypeOK, RecordOwned, RecordStays
<1>16. UnhandledNeedsDamage'
    BY DEF UnhandledNeedsDamage, TypeOK
<1>. QED BY <1>3, <1>4, <1>5, <1>6, <1>7, <1>8, <1>9, <1>10, <1>11, <1>12, <1>13, <1>14, <1>15, <1>16 DEF IInv

\* The body file is created, empty.
LEMMA BodyOpenedStep ==
    ASSUME IInv, TypeOK',
           NEW w \in Workers, pc[w] = "openBody", Goto(w, "writeBody"),
           body[BodyPath(job[w])] = Missing, body' = [body EXCEPT ![BodyPath(job[w])] = Torn],
           UNCHANGED <<record, row, history>>
    PROVE  IInv'
<1>1. /\ pc'[w] = "writeBody" /\ job[w] \in CreateJob
      /\ reply' = reply /\ seen' = seen /\ job' = job
      /\ record' = record /\ row' = row /\ published' = published /\ delivered' = delivered /\ damaged' = damaged
    BY DEF Goto, IInv, StepFitsJob, TypeOK, files, history
<1>2. \A v \in Workers \ {w} : pc'[v] = pc[v]
    BY DEF Goto, IInv, TypeOK
<1>3. /\ BodyPath(job[w]) \in Paths /\ body'[BodyPath(job[w])] = Torn
      /\ \A q \in Paths \ {BodyPath(job[w])} : body'[q] = body[q]
    BY <1>1, JobFacts DEF IInv, TypeOK
<1> USE JobFacts, EntryFacts, FileAssumption, <1>1, <1>2, <1>3 DEF IInv, StepFitsJob
<1>4. BodyOwned'
    BY DEF BodyOwned, TypeOK, BodyPath
<1>5. RecordOwned'
    BY DEF RecordOwned, TypeOK
<1>6. StepFitsJob'
    BY DEF TypeOK
<1>7. BodyStays'
  <2> SUFFICES ASSUME NEW v \in Workers, pc'[v] \in {"openRecord", "writeRecord"},
                      job[v].id \notin damaged
               PROVE  body'[BodyPath(job[v])] = job[v].doc
      BY DEF BodyStays
  <2>1. pc[v] \in {"openRecord", "writeRecord"} /\ job[v] \in CreateJob
      OBVIOUS
  <2>2. body[BodyPath(job[v])] = job[v].doc /\ job[v].doc # Missing
      BY <2>1 DEF BodyStays
  <2>. QED BY <2>1, <2>2
<1>8. RecordStays'
    BY DEF RecordStays, TypeOK, RecordOwned
<1>9. PublishedOnDisk'
    BY DEF PublishedOnDisk, TypeOK, RecordOwned
<1>10. DiskPublished'
    BY DEF DiskPublished, TypeOK
<1>11. SeenPublished'
    BY DEF SeenPublished, TypeOK, DiskPublished
<1>12. SeenIsCurrent'
    BY DEF SeenIsCurrent, TypeOK, RecordOwned
<1>13. RecordHasBody'
    BY DEF RecordHasBody, TypeOK, BodyPath, BodyStays, BodyOwned
<1>14. ServesPublishedOnly'
    BY DEF ServesPublishedOnly, TypeOK, SeenPublished
<1>15. CreatedIsOwn'
    BY DEF CreatedIsOwn, TypeOK, BodyPath, RecordStays, SeenIsCurrent, RecordHasBody, RecordOwned, BodyOwned
<1>16. IndexAgrees'
    BY DEF IndexAgrees, TypeOK, RecordOwned, RecordStays
<1>17. UnhandledNeedsDamage'
    BY DEF UnhandledNeedsDamage, TypeOK
<1>. QED BY <1>4, <1>5, <1>6, <1>7, <1>8, <1>9, <1>10, <1>11, <1>12, <1>13, <1>14, <1>15, <1>16, <1>17 DEF IInv

\* The body file is filled.
LEMMA BodyWrittenStep ==
    ASSUME IInv, TypeOK',
           NEW w \in Workers, pc[w] = "writeBody", Goto(w, "openRecord"),
           body' = [body EXCEPT ![BodyPath(job[w])] = job[w].doc],
           UNCHANGED <<record, row, history>>
    PROVE  IInv'
<1>1. /\ pc'[w] = "openRecord" /\ job[w] \in CreateJob
      /\ reply' = reply /\ seen' = seen /\ job' = job
      /\ record' = record /\ row' = row /\ published' = published /\ delivered' = delivered /\ damaged' = damaged
    BY DEF Goto, IInv, StepFitsJob, TypeOK, files, history
<1>2. \A v \in Workers \ {w} : pc'[v] = pc[v]
    BY DEF Goto, IInv, TypeOK
<1>3. /\ BodyPath(job[w]) \in Paths /\ body[BodyPath(job[w])] = Torn
      /\ body'[BodyPath(job[w])] = job[w].doc
      /\ \A q \in Paths \ {BodyPath(job[w])} : body'[q] = body[q]
    BY <1>1, JobFacts DEF IInv, TypeOK, BodyOwned
<1> USE JobFacts, EntryFacts, FileAssumption, <1>1, <1>2, <1>3 DEF IInv, StepFitsJob
<1>4. BodyOwned'
    BY DEF BodyOwned, TypeOK, BodyPath
<1>5. RecordOwned'
    BY DEF RecordOwned, TypeOK
<1>6. StepFitsJob'
    BY DEF TypeOK
<1>7. BodyStays'
  <2> SUFFICES ASSUME NEW v \in Workers, pc'[v] \in {"openRecord", "writeRecord"},
                      job[v].id \notin damaged
               PROVE  body'[BodyPath(job[v])] = job[v].doc
      BY DEF BodyStays
  <2>1. CASE v = w
      BY <2>1
  <2>2. CASE v # w
    <3>1. pc[v] \in {"openRecord", "writeRecord"} /\ job[v] \in CreateJob
        BY <2>2
    <3>2. body[BodyPath(job[v])] = job[v].doc /\ job[v].doc # Torn
        BY <3>1 DEF BodyStays
    <3>. QED BY <3>1, <3>2
  <2>. QED BY <2>1, <2>2
<1>8. RecordStays'
    BY DEF RecordStays, TypeOK, RecordOwned
<1>9. PublishedOnDisk'
    BY DEF PublishedOnDisk, TypeOK, RecordOwned
<1>10. DiskPublished'
    BY DEF DiskPublished, TypeOK
<1>11. SeenPublished'
    BY DEF SeenPublished, TypeOK, DiskPublished
<1>12. SeenIsCurrent'
    BY DEF SeenIsCurrent, TypeOK, RecordOwned
<1>13. RecordHasBody'
    BY DEF RecordHasBody, TypeOK, BodyPath, BodyStays, BodyOwned
<1>14. ServesPublishedOnly'
    BY DEF ServesPublishedOnly, TypeOK, SeenPublished
<1>15. CreatedIsOwn'
    BY DEF CreatedIsOwn, TypeOK, BodyPath, RecordStays, SeenIsCurrent, RecordHasBody, RecordOwned, BodyOwned
<1>16. IndexAgrees'
    BY DEF IndexAgrees, TypeOK, RecordOwned, RecordStays
<1>17. UnhandledNeedsDamage'
    BY DEF UnhandledNeedsDamage, TypeOK
<1>. QED BY <1>4, <1>5, <1>6, <1>7, <1>8, <1>9, <1>10, <1>11, <1>12, <1>13, <1>14, <1>15, <1>16, <1>17 DEF IInv

\* The record file is created, empty.
LEMMA RecordOpenedStep ==
    ASSUME IInv, TypeOK',
           NEW w \in Workers, pc[w] = "openRecord", Goto(w, "writeRecord"),
           record[job[w].id] = Missing, record' = [record EXCEPT ![job[w].id] = Torn],
           UNCHANGED <<body, row, history>>
    PROVE  IInv'
<1>1. /\ pc'[w] = "writeRecord" /\ job[w] \in CreateJob
      /\ reply' = reply /\ seen' = seen /\ job' = job
      /\ body' = body /\ row' = row /\ published' = published /\ delivered' = delivered /\ damaged' = damaged
    BY DEF Goto, IInv, StepFitsJob, TypeOK, files, history
<1>2. \A v \in Workers \ {w} : pc'[v] = pc[v]
    BY DEF Goto, IInv, TypeOK
<1>3. /\ job[w].id \in Ids /\ record'[job[w].id] = Torn
      /\ \A i \in Ids \ {job[w].id} : record'[i] = record[i]
    BY <1>1, JobFacts DEF IInv, TypeOK
<1> USE JobFacts, EntryFacts, FileAssumption, <1>1, <1>2, <1>3 DEF IInv, StepFitsJob
<1>4. BodyOwned'
    BY DEF BodyOwned, TypeOK, BodyPath
<1>5. RecordOwned'
    BY DEF RecordOwned, TypeOK
<1>6. StepFitsJob'
    BY DEF TypeOK
<1>7. BodyStays'
    BY DEF BodyStays, TypeOK, BodyPath, BodyOwned
<1>8. RecordStays'
    BY DEF RecordStays, TypeOK, RecordOwned
<1>9. PublishedOnDisk'
    BY DEF PublishedOnDisk, TypeOK, RecordOwned
<1>10. DiskPublished'
    BY DEF DiskPublished, TypeOK
<1>11. SeenPublished'
    BY DEF SeenPublished, TypeOK, DiskPublished
<1>12. SeenIsCurrent'
    BY DEF SeenIsCurrent, TypeOK, RecordOwned
<1>13. RecordHasBody'
    BY DEF RecordHasBody, TypeOK, BodyPath, BodyStays, BodyOwned
<1>14. ServesPublishedOnly'
    BY DEF ServesPublishedOnly, TypeOK, SeenPublished
<1>15. CreatedIsOwn'
    BY DEF CreatedIsOwn, TypeOK, BodyPath, RecordStays, SeenIsCurrent, RecordHasBody, RecordOwned, BodyOwned
<1>16. IndexAgrees'
    BY DEF IndexAgrees, TypeOK, RecordOwned, RecordStays
<1>17. UnhandledNeedsDamage'
    BY DEF UnhandledNeedsDamage, TypeOK
<1>. QED BY <1>4, <1>5, <1>6, <1>7, <1>8, <1>9, <1>10, <1>11, <1>12, <1>13, <1>14, <1>15, <1>16, <1>17 DEF IInv

\* The record file is filled: the document is published.
LEMMA RecordWrittenStep ==
    ASSUME IInv, TypeOK',
           NEW w \in Workers, pc[w] = "writeRecord", Goto(w, "index"),
           record' = [record EXCEPT ![job[w].id] = EntryOf(job[w])],
           published' = [published EXCEPT ![job[w].id] = @ \cup {job[w].doc}],
           UNCHANGED <<body, row, delivered, damaged>>
    PROVE  IInv'
<1>1. /\ pc'[w] = "index" /\ job[w] \in CreateJob
      /\ reply' = reply /\ seen' = seen /\ job' = job
      /\ body' = body /\ row' = row /\ delivered' = delivered /\ damaged' = damaged
    BY DEF Goto, IInv, StepFitsJob, TypeOK, files, history
<1>2. \A v \in Workers \ {w} : pc'[v] = pc[v]
    BY DEF Goto, IInv, TypeOK
<1>3. /\ job[w].id \in Ids /\ record[job[w].id] = Torn
      /\ record'[job[w].id] = EntryOf(job[w])
      /\ published'[job[w].id] = published[job[w].id] \cup {job[w].doc}
      /\ \A i \in Ids \ {job[w].id} : record'[i] = record[i] /\ published'[i] = published[i]
    BY <1>1, JobFacts DEF IInv, TypeOK, RecordOwned
<1> USE JobFacts, EntryFacts, FileAssumption, <1>1, <1>2, <1>3 DEF IInv, StepFitsJob
<1>4. BodyOwned'
    BY DEF BodyOwned, TypeOK, BodyPath
<1>5. RecordOwned'
    BY DEF RecordOwned, TypeOK
<1>6. StepFitsJob'
    BY DEF TypeOK
<1>7. BodyStays'
    BY DEF BodyStays, TypeOK, BodyPath, BodyOwned
<1>8. RecordStays'
    BY DEF RecordStays, TypeOK, RecordOwned
<1>9. PublishedOnDisk'
    BY DEF PublishedOnDisk, TypeOK, RecordOwned
<1>10. DiskPublished'
    BY DEF DiskPublished, TypeOK
<1>11. SeenPublished'
    BY DEF SeenPublished, TypeOK, DiskPublished
<1>12. SeenIsCurrent'
    BY DEF SeenIsCurrent, TypeOK, RecordOwned
<1>13. RecordHasBody'
  <2> SUFFICES ASSUME NEW i \in Ids \ damaged, record'[i] \in Entry
               PROVE  Verified(body[<<i, record'[i].month>>], record'[i])
      BY DEF RecordHasBody, Verified
  <2>1. CASE i = job[w].id
    <3>1. body[BodyPath(job[w])] = job[w].doc
        BY <2>1 DEF BodyStays
    <3>2. record'[i] = EntryOf(job[w]) /\ EntryOf(job[w]).month = job[w].month
        BY <2>1
    <3>3. BodyPath(job[w]) = <<i, job[w].month>>
        BY <2>1 DEF BodyPath
    <3>. QED BY <2>1, <3>1, <3>2, <3>3
  <2>2. CASE i # job[w].id
      BY <2>2 DEF RecordHasBody
  <2>. QED BY <2>1, <2>2
<1>14. ServesPublishedOnly'
    BY DEF ServesPublishedOnly, TypeOK, SeenPublished
<1>15. CreatedIsOwn'
    BY DEF CreatedIsOwn, TypeOK, BodyPath, RecordStays, SeenIsCurrent, RecordHasBody, RecordOwned, BodyOwned
<1>16. IndexAgrees'
    BY DEF IndexAgrees, TypeOK, RecordOwned, RecordStays
<1>17. UnhandledNeedsDamage'
    BY DEF UnhandledNeedsDamage, TypeOK
<1>. QED BY <1>4, <1>5, <1>6, <1>7, <1>8, <1>9, <1>10, <1>11, <1>12, <1>13, <1>14, <1>15, <1>16, <1>17 DEF IInv

\* The database row is inserted, or not.
LEMMA IndexedStep ==
    ASSUME IInv, TypeOK',
           NEW w \in Workers, pc[w] = "index", Goto(w, "readRecord"),
           UNCHANGED <<files, history>>,
           \/ row' = [row EXCEPT ![job[w].id] = EntryOf(job[w])]
           \/ row' = row
    PROVE  IInv'
<1>1. /\ pc'[w] = "readRecord" /\ job[w] \in CreateJob
      /\ reply' = reply /\ seen' = seen /\ job' = job
      /\ body' = body /\ record' = record /\ published' = published /\ delivered' = delivered /\ damaged' = damaged
    BY DEF Goto, IInv, StepFitsJob, TypeOK, files, history
<1>2. \A v \in Workers \ {w} : pc'[v] = pc[v]
    BY DEF Goto, IInv, TypeOK
<1>3. /\ job[w].id \in Ids /\ row'[job[w].id] \in {row[job[w].id], EntryOf(job[w])}
      /\ \A i \in Ids \ {job[w].id} : row'[i] = row[i]
    BY <1>1, JobFacts DEF IInv, TypeOK
<1> USE JobFacts, EntryFacts, FileAssumption, <1>1, <1>2, <1>3 DEF IInv, StepFitsJob
<1>4. BodyOwned'
    BY DEF BodyOwned, TypeOK, BodyPath
<1>5. RecordOwned'
    BY DEF RecordOwned, TypeOK
<1>6. StepFitsJob'
    BY DEF TypeOK
<1>7. BodyStays'
    BY DEF BodyStays, TypeOK, BodyPath, BodyOwned
<1>8. RecordStays'
    BY DEF RecordStays, TypeOK, RecordOwned
<1>9. PublishedOnDisk'
    BY DEF PublishedOnDisk, TypeOK, RecordOwned
<1>10. DiskPublished'
    BY DEF DiskPublished, TypeOK
<1>11. SeenPublished'
    BY DEF SeenPublished, TypeOK, DiskPublished
<1>12. SeenIsCurrent'
    BY DEF SeenIsCurrent, TypeOK, RecordOwned
<1>13. RecordHasBody'
    BY DEF RecordHasBody, TypeOK, BodyPath, BodyStays, BodyOwned
<1>14. ServesPublishedOnly'
    BY DEF ServesPublishedOnly, TypeOK, SeenPublished
<1>15. CreatedIsOwn'
    BY DEF CreatedIsOwn, TypeOK, BodyPath, RecordStays, SeenIsCurrent, RecordHasBody, RecordOwned, BodyOwned
<1>16. IndexAgrees'
    BY DEF IndexAgrees, TypeOK, RecordOwned, RecordStays
<1>17. UnhandledNeedsDamage'
    BY DEF UnhandledNeedsDamage, TypeOK
<1>. QED BY <1>4, <1>5, <1>6, <1>7, <1>8, <1>9, <1>10, <1>11, <1>12, <1>13, <1>14, <1>15, <1>16, <1>17 DEF IInv

\* A thread reads and decodes a complete record.
LEMMA DecodedStep ==
    ASSUME IInv, TypeOK',
           NEW w \in Workers, pc[w] = "readRecord", record[job[w].id] \in Entry,
           seen' = [seen EXCEPT ![w] = record[job[w].id]], pc' = [pc EXCEPT ![w] = "readBody"],
           UNCHANGED <<job, reply, files, row, history>>
    PROVE  IInv'
<1>1. /\ pc'[w] = "readBody" /\ job[w] \in CreateJob \cup ReadJob /\ job' = job /\ reply' = reply
      /\ seen'[w] = record[job[w].id] /\ delivered' = delivered
      /\ body' = body /\ record' = record /\ row' = row
      /\ published' = published /\ damaged' = damaged
    BY DEF IInv, StepFitsJob, TypeOK, files, history
<1>2. \A v \in Workers \ {w} : pc'[v] = pc[v] /\ seen'[v] = seen[v]
    BY DEF IInv, TypeOK
<1> USE JobFacts, EntryFacts, FileAssumption, <1>1, <1>2 DEF IInv, StepFitsJob
<1>3. BodyOwned'
    BY DEF BodyOwned, TypeOK, BodyPath
<1>4. RecordOwned'
    BY DEF RecordOwned, TypeOK
<1>5. StepFitsJob'
    BY DEF TypeOK
<1>6. BodyStays'
    BY DEF BodyStays, TypeOK, BodyPath, BodyOwned
<1>7. RecordStays'
    BY DEF RecordStays, TypeOK, RecordOwned
<1>8. PublishedOnDisk'
    BY DEF PublishedOnDisk, TypeOK, RecordOwned
<1>9. DiskPublished'
    BY DEF DiskPublished, TypeOK
<1>10. SeenPublished'
    BY DEF SeenPublished, TypeOK, DiskPublished
<1>11. SeenIsCurrent'
    BY DEF SeenIsCurrent, TypeOK, RecordOwned
<1>12. RecordHasBody'
    BY DEF RecordHasBody, TypeOK, BodyPath, BodyStays, BodyOwned
<1>13. ServesPublishedOnly'
    BY DEF ServesPublishedOnly, TypeOK, SeenPublished
<1>14. CreatedIsOwn'
    BY DEF CreatedIsOwn, TypeOK, BodyPath, RecordStays, SeenIsCurrent, RecordHasBody, RecordOwned, BodyOwned
<1>15. IndexAgrees'
    BY DEF IndexAgrees, TypeOK, RecordOwned, RecordStays
<1>16. UnhandledNeedsDamage'
    BY DEF UnhandledNeedsDamage, TypeOK
<1>. QED BY <1>3, <1>4, <1>5, <1>6, <1>7, <1>8, <1>9, <1>10, <1>11, <1>12, <1>13, <1>14, <1>15, <1>16 DEF IInv

\* A thread reads a body that matches its record and answers with it.
LEMMA DeliveringStep ==
    ASSUME IInv, TypeOK',
           NEW w \in Workers, pc[w] = "readBody", NEW d, d = body[<<job[w].id, seen[w].month>>],
           Verified(d, seen[w]), Answer(w, Served(d)),
           delivered' = [delivered EXCEPT ![job[w].id] = @ \cup {d}],
           UNCHANGED <<files, row, published, damaged>>
    PROVE  IInv'
<1>1. /\ pc'[w] = "idle" /\ job[w] \in CreateJob \cup ReadJob /\ job' = job
      /\ reply'[w] = [status |-> "ok", content |-> d]
      /\ body' = body /\ record' = record /\ row' = row
      /\ published' = published /\ damaged' = damaged
    BY DEF Answer, Served, IInv, StepFitsJob, TypeOK, files
<1>2. \A v \in Workers \ {w} : pc'[v] = pc[v] /\ seen'[v] = seen[v] /\ reply'[v] = reply[v]
    BY DEF Answer, IInv, TypeOK
<1>3. /\ seen[w] \in Entry /\ job[w].id \in Ids /\ d \in Docs
      /\ delivered'[job[w].id] = delivered[job[w].id] \cup {d}
      /\ \A i \in Ids \ {job[w].id} : delivered'[i] = delivered[i]
  <2>1. seen[w] \in Entry /\ job[w].id \in Ids
      BY <1>1, JobFacts DEF IInv, StepFitsJob
  <2>2. d \in Docs \cup {Missing, Torn}
      BY <2>1, EntryFacts DEF IInv, TypeOK, Paths
  <2>. QED BY <2>1, <2>2, EntryFacts DEF IInv, TypeOK
<1> USE JobFacts, EntryFacts, FileAssumption, <1>1, <1>2, <1>3 DEF IInv, StepFitsJob
<1>4. BodyOwned'
    BY DEF BodyOwned, TypeOK, BodyPath
<1>5. RecordOwned'
    BY DEF RecordOwned, TypeOK
<1>6. StepFitsJob'
    BY DEF TypeOK
<1>7. BodyStays'
    BY DEF BodyStays, TypeOK, BodyPath, BodyOwned
<1>8. RecordStays'
    BY DEF RecordStays, TypeOK, RecordOwned
<1>9. PublishedOnDisk'
    BY DEF PublishedOnDisk, TypeOK, RecordOwned
<1>10. DiskPublished'
    BY DEF DiskPublished, TypeOK
<1>11. SeenPublished'
    BY DEF SeenPublished, TypeOK, DiskPublished
<1>12. SeenIsCurrent'
    BY DEF SeenIsCurrent, TypeOK, RecordOwned
<1>13. RecordHasBody'
    BY DEF RecordHasBody, TypeOK, BodyPath, BodyStays, BodyOwned
<1>14. ServesPublishedOnly'
    BY DEF ServesPublishedOnly, TypeOK, SeenPublished
<1>15. CreatedIsOwn'
    BY DEF CreatedIsOwn, TypeOK, BodyPath, RecordStays, SeenIsCurrent, RecordHasBody, RecordOwned, BodyOwned
<1>16. IndexAgrees'
    BY DEF IndexAgrees, TypeOK, RecordOwned, RecordStays
<1>17. UnhandledNeedsDamage'
    BY DEF UnhandledNeedsDamage, TypeOK
<1>. QED BY <1>4, <1>5, <1>6, <1>7, <1>8, <1>9, <1>10, <1>11, <1>12, <1>13, <1>14, <1>15, <1>16, <1>17 DEF IInv

\* The server process restarts.
LEMMA RestartStep ==
    ASSUME IInv, TypeOK',
           Restart
    PROVE  IInv'
<1>1. /\ \A v \in Workers : /\ pc'[v] = "idle" /\ job'[v] = NoJob
                            /\ reply'[v] = [status |-> "none"] /\ seen'[v] = NoRow
      /\ body' = body /\ record' = record /\ row' = row
      /\ published' = published /\ delivered' = delivered /\ damaged' = damaged
    BY DEF Restart, Refused, files, history, IInv, TypeOK
<1> USE JobFacts, EntryFacts, FileAssumption, <1>1 DEF IInv, StepFitsJob
<1>3. BodyOwned'
    BY DEF BodyOwned, TypeOK, BodyPath
<1>4. RecordOwned'
    BY DEF RecordOwned, TypeOK
<1>5. StepFitsJob'
    BY DEF TypeOK
<1>6. BodyStays'
    BY DEF BodyStays, TypeOK, BodyPath, BodyOwned
<1>7. RecordStays'
    BY DEF RecordStays, TypeOK, RecordOwned
<1>8. PublishedOnDisk'
    BY DEF PublishedOnDisk, TypeOK, RecordOwned
<1>9. DiskPublished'
    BY DEF DiskPublished, TypeOK
<1>10. SeenPublished'
    BY DEF SeenPublished, TypeOK, DiskPublished
<1>11. SeenIsCurrent'
    BY DEF SeenIsCurrent, TypeOK, RecordOwned
<1>12. RecordHasBody'
    BY DEF RecordHasBody, TypeOK, BodyPath, BodyStays, BodyOwned
<1>13. ServesPublishedOnly'
    BY DEF ServesPublishedOnly, TypeOK, SeenPublished
<1>14. CreatedIsOwn'
    BY DEF CreatedIsOwn, TypeOK, BodyPath, RecordStays, SeenIsCurrent, RecordHasBody, RecordOwned, BodyOwned
<1>15. IndexAgrees'
    BY DEF IndexAgrees, TypeOK, RecordOwned, RecordStays
<1>16. UnhandledNeedsDamage'
    BY DEF UnhandledNeedsDamage, TypeOK
<1>. QED BY <1>3, <1>4, <1>5, <1>6, <1>7, <1>8, <1>9, <1>10, <1>11, <1>12, <1>13, <1>14, <1>15, <1>16 DEF IInv

\* A body is damaged.
LEMMA DamageBodyStep ==
    ASSUME IInv, TypeOK',
           NEW p \in Paths, DamageBody(p)
    PROVE  IInv'
<1>1. /\ p[1] \in Ids /\ body[p] \in Docs /\ damaged' = damaged \cup {p[1]}
      /\ \A q \in Paths \ {p} : body'[q] = body[q]
      /\ record' = record /\ row' = row /\ pc' = pc /\ job' = job /\ seen' = seen
      /\ reply' = reply /\ published' = published /\ delivered' = delivered
    BY DEF DamageBody, threads, IInv, TypeOK, Paths
<1>2. \A i \in Ids, m \in Months : i # p[1] => <<i, m>> \in Paths \ {p}
    BY DEF Paths
<1> USE JobFacts, EntryFacts, FileAssumption, <1>1, <1>2 DEF IInv, StepFitsJob
<1>3. BodyOwned'
    BY DEF BodyOwned, TypeOK
<1>4. RecordOwned'
    BY DEF RecordOwned, TypeOK
<1>5. StepFitsJob'
    BY DEF TypeOK
<1>6. BodyStays'
    BY DEF BodyStays, TypeOK, BodyPath, BodyOwned
<1>7. RecordStays'
    BY DEF RecordStays, TypeOK, RecordOwned
<1>8. PublishedOnDisk'
    BY DEF PublishedOnDisk, TypeOK, RecordOwned
<1>9. DiskPublished'
    BY DEF DiskPublished, TypeOK
<1>10. SeenPublished'
    BY DEF SeenPublished, TypeOK, DiskPublished
<1>11. SeenIsCurrent'
    BY DEF SeenIsCurrent, TypeOK, RecordOwned
<1>12. RecordHasBody'
    BY DEF RecordHasBody, TypeOK, BodyPath, BodyStays, BodyOwned
<1>13. ServesPublishedOnly'
    BY DEF ServesPublishedOnly, TypeOK, SeenPublished
<1>14. CreatedIsOwn'
    BY DEF CreatedIsOwn, TypeOK, BodyPath, RecordStays, SeenIsCurrent, RecordHasBody, RecordOwned, BodyOwned
<1>15. IndexAgrees'
    BY DEF IndexAgrees, TypeOK, RecordOwned, RecordStays
<1>16. UnhandledNeedsDamage'
    BY DEF UnhandledNeedsDamage, TypeOK
<1>. QED BY <1>3, <1>4, <1>5, <1>6, <1>7, <1>8, <1>9, <1>10, <1>11, <1>12, <1>13, <1>14, <1>15, <1>16 DEF IInv

\* A record is damaged.
LEMMA DamageRecordStep ==
    ASSUME IInv, TypeOK',
           NEW i \in Ids, DamageRecord(i)
    PROVE  IInv'
<1>1. /\ record[i] \in Entry /\ record'[i] \in {Missing, Torn} /\ damaged' = damaged \cup {i}
      /\ \A k \in Ids \ {i} : record'[k] = record[k]
      /\ body' = body /\ row' = row /\ pc' = pc /\ job' = job /\ seen' = seen
      /\ reply' = reply /\ published' = published /\ delivered' = delivered
    BY DEF DamageRecord, threads, IInv, TypeOK
<1> USE JobFacts, EntryFacts, FileAssumption, <1>1 DEF IInv, StepFitsJob
<1>3. BodyOwned'
    BY DEF BodyOwned, TypeOK, BodyPath
<1>4. RecordOwned'
    BY DEF RecordOwned, TypeOK
<1>5. StepFitsJob'
    BY DEF TypeOK
<1>6. BodyStays'
    BY DEF BodyStays, TypeOK, BodyPath, BodyOwned
<1>7. RecordStays'
    BY DEF RecordStays, TypeOK, RecordOwned
<1>8. PublishedOnDisk'
    BY DEF PublishedOnDisk, TypeOK, RecordOwned
<1>9. DiskPublished'
    BY DEF DiskPublished, TypeOK
<1>10. SeenPublished'
    BY DEF SeenPublished, TypeOK, DiskPublished
<1>11. SeenIsCurrent'
    BY DEF SeenIsCurrent, TypeOK, RecordOwned
<1>12. RecordHasBody'
    BY DEF RecordHasBody, TypeOK, BodyPath, BodyStays, BodyOwned
<1>13. ServesPublishedOnly'
    BY DEF ServesPublishedOnly, TypeOK, SeenPublished
<1>14. CreatedIsOwn'
    BY DEF CreatedIsOwn, TypeOK, BodyPath, RecordStays, SeenIsCurrent, RecordHasBody, RecordOwned, BodyOwned
<1>15. IndexAgrees'
    BY DEF IndexAgrees, TypeOK, RecordOwned, RecordStays
<1>16. UnhandledNeedsDamage'
    BY DEF UnhandledNeedsDamage, TypeOK
<1>. QED BY <1>3, <1>4, <1>5, <1>6, <1>7, <1>8, <1>9, <1>10, <1>11, <1>12, <1>13, <1>14, <1>15, <1>16 DEF IInv

-------------------------------------------------------------------------------
LEMMA Inductive == IInv /\ [Next]_vars => IInv'
<1> SUFFICES ASSUME IInv, [Next]_vars PROVE IInv'
    OBVIOUS
<1>1. TypeOK'
    BY TypeStep DEF IInv
<1> USE <1>1
<1>2. ASSUME NEW w \in Workers, Request(w) PROVE IInv'
    BY <1>2, RequestStep
<1>3. ASSUME NEW w \in Workers, Render(w) PROVE IInv'
  <2>1. pc[w] = "render" /\ UNCHANGED <<files, row, history>>
      BY <1>3 DEF Render
  <2>2. ASSUME NEW s \in {"disabled", "noPdf"}, Answer(w, Refused(s)) PROVE IInv'
      BY <2>1, <2>2, RefusingStep DEF Status
  <2>. QED BY <1>3, <2>1, <2>2, RenderedStep DEF Render
<1>4. ASSUME NEW w \in Workers, OpenBody(w) PROVE IInv'
  <2>1. CASE UNCHANGED body /\ Answer(w, Refused("storage"))
      BY <1>4, <2>1, RefusingStep DEF OpenBody, Status, files
  <2>. QED BY <1>4, <2>1, BodyOpenedStep DEF OpenBody, CanCreate
<1>5. ASSUME NEW w \in Workers, WriteBody(w) PROVE IInv'
  <2>1. CASE UNCHANGED body /\ Answer(w, Refused("storage"))
      BY <1>5, <2>1, RefusingStep DEF WriteBody, Status, files
  <2>. QED BY <1>5, <2>1, BodyWrittenStep DEF WriteBody
<1>6. ASSUME NEW w \in Workers, OpenRecord(w) PROVE IInv'
  <2>1. CASE UNCHANGED record /\ Answer(w, Refused("storage"))
      BY <1>6, <2>1, RefusingStep DEF OpenRecord, Status, files
  <2>. QED BY <1>6, <2>1, RecordOpenedStep DEF OpenRecord, CanCreate
<1>7. ASSUME NEW w \in Workers, WriteRecord(w) PROVE IInv'
  <2>1. CASE UNCHANGED <<record, published>> /\ Answer(w, Refused("storage"))
      BY <1>7, <2>1, RefusingStep DEF WriteRecord, Status, files, history
  <2>. QED BY <1>7, <2>1, RecordWrittenStep DEF WriteRecord
<1>8. ASSUME NEW w \in Workers, IndexRow(w) PROVE IInv'
    BY <1>8, IndexedStep DEF IndexRow
<1>9. ASSUME NEW w \in Workers, ReadRecord(w) PROVE IInv'
  <2>1. /\ pc[w] = "readRecord" /\ job[w] \in CreateJob \cup ReadJob
        /\ job[w].id \in Ids /\ UNCHANGED <<files, row, history>>
      BY <1>9, JobFacts DEF ReadRecord, IInv, StepFitsJob
  <2>2. ASSUME NEW s \in {"disabled", "storage", "damaged", "notFound"},
               Answer(w, Refused(s))
        PROVE  IInv'
      BY <2>1, <2>2, RefusingStep DEF Status
  <2>3. ASSUME job[w].op # "read", record[job[w].id] = Missing,
               Answer(w, Refused("unhandled"))
        PROVE  IInv'
    <3>1. job[w].id \in damaged
        BY <2>1, <2>3, JobFacts, EntryFacts DEF IInv, RecordStays
    <3>. QED BY <2>1, <2>3, <3>1, RefusingStep DEF Status
  <2>4. CASE record[job[w].id] \in Entry /\ pc' = [pc EXCEPT ![w] = "readBody"]
             /\ seen' = [seen EXCEPT ![w] = record[job[w].id]]
             /\ UNCHANGED <<job, reply>>
      BY <2>1, <2>4, DecodedStep
  <2>. QED BY <1>9, <2>2, <2>3, <2>4 DEF ReadRecord
<1>10. ASSUME NEW w \in Workers, ReadBody(w) PROVE IInv'
  <2>1. pc[w] = "readBody" /\ UNCHANGED <<files, row, published, damaged>>
      BY <1>10 DEF ReadBody
  <2>2. ASSUME NEW s \in {"damaged", "storage"}, Answer(w, Refused(s)),
               UNCHANGED delivered
        PROVE  IInv'
      BY <2>1, <2>2, RefusingStep DEF Status, history
  <2>. QED BY <1>10, <2>1, <2>2, DeliveringStep DEF ReadBody
<1>11. CASE Environment
    BY <1>11, RestartStep, DamageBodyStep, DamageRecordStep DEF Environment
<1>12. CASE UNCHANGED vars
    BY <1>12
       DEF vars, files, history, threads, IInv, BodyOwned, RecordOwned, StepFitsJob,
           BodyStays, RecordStays, PublishedOnDisk, DiskPublished, SeenPublished,
           SeenIsCurrent, RecordHasBody, ServesPublishedOnly, CreatedIsOwn,
           IndexAgrees, UnhandledNeedsDamage
<1>. QED BY <1>2, <1>3, <1>4, <1>5, <1>6, <1>7, <1>8, <1>9, <1>10, <1>11, <1>12
         DEF Next, Step

\* The strengthened invariant holds in every reachable state.
THEOREM Invariant == Spec => []IInv
  BY InitIInv, Inductive, PTL DEF Spec

\* Every variable of the archive keeps its type.
THEOREM TypeCorrect == Spec => []TypeOK
  BY Invariant, PTL DEF IInv

\* A complete record always points at its complete body (report_archive.py
\* writes the body first), unless the disk was touched.
THEOREM RecordsHaveBodies == Spec => []RecordHasBody
  BY Invariant, PTL DEF IInv

\* A report number never stands for two documents, however requests interleave.
THEOREM OneDocument == Spec => []OneDocumentPerId
<1>1. IInv => OneDocumentPerId
    BY EntryFacts DEF IInv, OneDocumentPerId, PublishedOnDisk, TypeOK
<1>. QED BY <1>1, Invariant, PTL

\* Whatever the disk does, clients receive only published documents.
THEOREM OnlyPublishedServed == Spec => []ServesPublishedOnly
  BY Invariant, PTL DEF IInv

\* A successful POST answered with its own document, which stays retrievable.
THEOREM CreatedOwn == Spec => []CreatedIsOwn
  BY Invariant, PTL DEF IInv

\* The database index is never ahead of the records.
THEOREM IndexNeverAhead == Spec => []IndexAgrees
  BY Invariant, PTL DEF IInv

\* The exception the POST route does not catch needs a vanished record.
THEOREM UnhandledOnlyDamaged == Spec => []UnhandledNeedsDamage
  BY Invariant, PTL DEF IInv

-------------------------------------------------------------------------------
\* A complete file is only ever replaced by damage: every store_bytes creates
\* its file exclusively and fills only the file it created.
THEOREM FilesWrittenOnce == Spec => WriteOnce
<1> DEFINE Kept ==
      \A i \in Ids \ damaged' :
        /\ record[i] \in Entry => record'[i] = record[i]
        /\ \A m \in Months : body[<<i, m>>] \in Docs => body'[<<i, m>>] = body[<<i, m>>]
<1>1. IInv /\ [Next]_vars => Kept
  <2> SUFFICES ASSUME IInv, [Next]_vars PROVE Kept
      OBVIOUS
  <2> USE EntryFacts, JobFacts, FileAssumption DEF IInv, TypeOK, StepFitsJob
  <2>1. CASE UNCHANGED files
      BY <2>1 DEF files
  <2>2. ASSUME NEW w \in Workers, OpenBody(w) \/ WriteBody(w) PROVE Kept
    <3>1. \/ BodyPath(job[w]) \in Paths /\ body[BodyPath(job[w])] \in {Missing, Torn}
          \/ body' = body
        BY <2>2 DEF OpenBody, WriteBody, CanCreate, BodyOwned
    <3>2. record' = record /\ \A q \in Paths \ {BodyPath(job[w])} : body'[q] = body[q]
        BY <2>2 DEF OpenBody, WriteBody, Goto, Answer
    <3>3. \A i \in Ids, m \in Months : <<i, m>> \in Paths
        BY DEF Paths
    <3>. QED BY <3>1, <3>2, <3>3
  <2>3. ASSUME NEW w \in Workers, OpenRecord(w) \/ WriteRecord(w) PROVE Kept
    <3>1. record[job[w].id] \in {Missing, Torn} \/ record' = record
        BY <2>3 DEF OpenRecord, WriteRecord, CanCreate, RecordOwned
    <3>2. body' = body /\ \A i \in Ids \ {job[w].id} : record'[i] = record[i]
        BY <2>3 DEF OpenRecord, WriteRecord, Goto, Answer
    <3>. QED BY <3>1, <3>2
  <2>4. ASSUME NEW p \in Paths, DamageBody(p) PROVE Kept
    <3>1. \A i \in Ids \ {p[1]}, m \in Months : <<i, m>> \in Paths \ {p}
        BY DEF Paths
    <3>. QED BY <2>4, <3>1 DEF DamageBody
  <2>5. ASSUME NEW i \in Ids, DamageRecord(i) PROVE Kept
      BY <2>5 DEF DamageRecord
  <2>6. ASSUME NEW w \in Workers,
               Request(w) \/ Render(w) \/ IndexRow(w) \/ ReadRecord(w) \/ ReadBody(w)
        PROVE  UNCHANGED files
      BY <2>6 DEF Request, Post, Get, Begin, Render, IndexRow, ReadRecord, ReadBody
  <2>7. Restart \/ UNCHANGED vars => UNCHANGED files
      BY DEF Restart, vars, files
  <2>. QED BY <2>1, <2>2, <2>3, <2>4, <2>5, <2>6, <2>7 DEF Next, Step, Environment
<1>. QED BY <1>1, Invariant, PTL DEF Spec, WriteOnce

\* A document somebody received is never answered "not found" or "damaged"
\* afterwards, short of damage.
THEOREM ReceivedStays == Spec => NeverForgotten
<1>1. ASSUME IInv, [Next]_vars, NEW w \in Workers, Disowns(w)
      PROVE  job[w].id \in damaged'
  <2> USE <1>1, EntryFacts, JobFacts DEF IInv, Disowns
  <2>1. ReadRecord(w) \/ ReadBody(w)
    <3> USE DEF TypeOK, Refused
    <3>1. ASSUME NEW v \in Workers, Request(v) PROVE FALSE
        BY <3>1 DEF Request, Post, Get, Begin
    <3>2. ASSUME NEW v \in Workers, Render(v) PROVE FALSE
        BY <3>2 DEF Render, Answer, Goto
    <3>3. ASSUME NEW v \in Workers, OpenBody(v) \/ WriteBody(v) PROVE FALSE
        BY <3>3 DEF OpenBody, WriteBody, Answer, Goto
    <3>4. ASSUME NEW v \in Workers, OpenRecord(v) \/ WriteRecord(v) \/ IndexRow(v)
          PROVE  FALSE
        BY <3>4 DEF OpenRecord, WriteRecord, IndexRow, Answer, Goto
    <3>5. ASSUME NEW v \in Workers \ {w}, ReadRecord(v) \/ ReadBody(v) PROVE FALSE
        BY <3>5 DEF ReadRecord, ReadBody, Answer
    <3>6. ~Restart
        BY DEF Restart
    <3>7. ASSUME NEW p \in Paths, DamageBody(p) PROVE FALSE
        BY <3>7 DEF DamageBody, threads
    <3>8. ASSUME NEW i \in Ids, DamageRecord(i) PROVE FALSE
        BY <3>8 DEF DamageRecord, threads
    <3>9. ~UNCHANGED vars
        BY DEF vars, threads
    <3>. QED BY <3>1, <3>2, <3>3, <3>4, <3>5, <3>6, <3>7, <3>8, <3>9
             DEF Next, Step, Environment
  <2>2. job[w] \in ReadJob /\ job[w].id \in Ids
    <3>1. job[w] \in CreateJob \cup ReadJob
        BY <2>1 DEF ReadRecord, ReadBody, StepFitsJob
    <3>. QED BY <3>1
  <2>3. damaged' = damaged
      BY <2>1 DEF ReadRecord, ReadBody, history
  <2>4. SUFFICES ASSUME job[w].id \notin damaged PROVE FALSE
      BY <2>3
  <2>5. /\ record[job[w].id] \in Entry
        /\ Verified(body[<<job[w].id, record[job[w].id].month>>], record[job[w].id])
    <3>1. PICK d \in published[job[w].id] : TRUE
        BY <2>2 DEF ServesPublishedOnly
    <3>. QED BY <2>2, <2>4, <3>1 DEF PublishedOnDisk, RecordHasBody
  <2>6. CASE ReadRecord(w)
      BY <2>2, <2>5, <2>6 DEF ReadRecord, Answer, Refused, TypeOK
  <2>7. CASE ReadBody(w)
    <3>1. seen[w] = record[job[w].id]
        BY <2>4, <2>7 DEF ReadBody, SeenIsCurrent
    <3>. QED BY <2>5, <2>7, <3>1 DEF ReadBody, Answer, Refused, Served, TypeOK
  <2>. QED BY <2>1, <2>6, <2>7
<1>2. IInv /\ [Next]_vars => \A w \in Workers : Disowns(w) => job[w].id \in damaged'
    BY <1>1
<1>. QED BY <1>2, Invariant, PTL DEF Spec, NeverForgotten

-------------------------------------------------------------------------------
\* The archive of files, records and request threads implements the abstract
\* promise: one document per number, delivered only as published.
THEOREM Refinement == Spec => Implements
<1>1. Init => Promise!Init
    BY DEF Init, Promise!Init
<1>2. IInv /\ [Next]_vars => [Promise!Next]_Promise!vars
  <2> SUFFICES ASSUME IInv, [Next]_vars PROVE [Promise!Next]_Promise!vars
      OBVIOUS
  <2> USE EntryFacts, JobFacts DEF IInv
  <2>1. CASE UNCHANGED history
      BY <2>1 DEF history, Promise!vars
  <2>2. ASSUME NEW w \in Workers, WriteRecord(w), ~UNCHANGED history PROVE Promise!Next
    <3>1. job[w] \in CreateJob /\ record[job[w].id] = Torn
        BY <2>2 DEF WriteRecord, StepFitsJob, RecordOwned
    <3>2. published[job[w].id] = {} \/ job[w].id \in damaged
        BY <3>1 DEF PublishedOnDisk, TypeOK
    <3>3. Promise!Publish(job[w].id, job[w].doc)
        BY <2>2, <3>2 DEF WriteRecord, history, Promise!Publish
    <3>. QED BY <3>1, <3>3 DEF Promise!Next
  <2>3. ASSUME NEW w \in Workers, ReadBody(w), ~UNCHANGED history PROVE Promise!Next
    <3> DEFINE d == body[<<job[w].id, seen[w].month>>]
    <3>1. job[w].id \in Ids /\ seen[w] \in Entry
        BY <2>3 DEF ReadBody, StepFitsJob
    <3>2. /\ Verified(d, seen[w])
          /\ delivered' = [delivered EXCEPT ![job[w].id] = @ \cup {d}]
        BY <2>3 DEF ReadBody, history
    <3>3. d \in Docs
      <4>1. d \in Docs \cup {Missing, Torn}
          BY <3>1 DEF TypeOK, Paths
      <4>. QED BY <3>1, <3>2, <4>1
    <3>4. d \in published[job[w].id]
        BY <2>3, <3>1, <3>2, <3>3 DEF ReadBody, SeenPublished
    <3>5. Promise!Deliver(job[w].id, d)
        BY <2>3, <3>2, <3>4 DEF ReadBody, Promise!Deliver
    <3>. QED BY <3>1, <3>3, <3>5 DEF Promise!Next
  <2>4. ASSUME NEW p \in Paths, DamageBody(p) PROVE Promise!Next
    <3>1. p[1] \in Ids
        BY DEF Paths
    <3>2. Promise!Damage(p[1])
        BY <2>4 DEF DamageBody, Promise!Damage
    <3>. QED BY <3>1, <3>2 DEF Promise!Next
  <2>5. ASSUME NEW i \in Ids, DamageRecord(i) PROVE Promise!Next
    <3>1. Promise!Damage(i)
        BY <2>5 DEF DamageRecord, Promise!Damage
    <3>. QED BY <3>1 DEF Promise!Next
  <2>6. ASSUME NEW w \in Workers,
               \/ Request(w) \/ Render(w) \/ OpenBody(w) \/ WriteBody(w)
               \/ OpenRecord(w) \/ IndexRow(w) \/ ReadRecord(w)
        PROVE  UNCHANGED history
      BY <2>6 DEF Request, Post, Get, Begin, Render, OpenBody, WriteBody, OpenRecord,
                  IndexRow, ReadRecord
  <2>7. Restart \/ UNCHANGED vars => UNCHANGED history
      BY DEF Restart, vars
  <2>. QED BY <2>1, <2>2, <2>3, <2>4, <2>5, <2>6, <2>7 DEF Next, Step, Environment
<1>. QED BY <1>1, <1>2, Invariant, PTL DEF Spec, Implements, Promise!Spec
================================================================================
