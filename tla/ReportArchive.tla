----------------------------- MODULE ReportArchive -----------------------------
(***************************************************************************)
(* services/report_archive.py over reports/storage.py, as the request      *)
(* threads of api/routes/reports.py run it: a POST ...?format=pdf renders, *)
(* stores the body, stores the record, indexes it in the database and      *)
(* reads the document back; a GET /{id}.pdf reads record and body. Every   *)
(* file operation is one step, so requests interleave at each of them, the *)
(* process may die between any two, and any of them may fail.              *)
(*                                                                         *)
(* A file is created empty (open "xb") and filled afterwards; between the  *)
(* two, and forever if the second step never happens, it is Torn. SHA-256  *)
(* is taken to be injective.                                               *)
(***************************************************************************)
CONSTANTS Ids,              \* report numbers a request may carry
          Months,           \* year/month directories (from as_of)
          Docs,             \* rendered PDF byte strings, never empty
          Workers,          \* request threads of the server process
          Missing, Torn     \* a file that is absent, that is incomplete

ASSUME FileAssumption ==
    /\ Missing # Torn
    /\ Missing \notin Docs /\ Torn \notin Docs

Digest(content) == [sha256 |-> content]

\* The record of a document, as far as the archive itself reads it back.
Entry == [month : Months, digest : {Digest(d) : d \in Docs}, kind : {"record"}]

ASSUME RecordAssumption == Missing \notin Entry /\ Torn \notin Entry

CreateJob == [op : {"create"}, id : Ids, month : Months, doc : Docs]
ReadJob == [op : {"read"}, id : Ids]
NoJob == [op |-> "none"]
NoRow == [kind |-> "none"]

VARIABLES provider,     \* REPORT_ARCHIVE_PROVIDER of the running process
          body,         \* <<id, month>> -> the PDF file on disk
          record,       \* id -> records/xx/<id>.json
          row,          \* id -> row of the reports table
          pc, job,      \* where each request thread is, and its request
          seen,         \* the record a thread has decoded
          reply,        \* the last answer of a thread
          published, delivered, damaged   \* history, see DocumentArchive

threads == <<pc, job, seen, reply>>
files == <<body, record>>
history == <<published, delivered, damaged>>
vars == <<provider, body, record, row, threads, history>>

Paths == Ids \X Months

\* Fault: the body is filed under a fixed month, the record under the report's.
BodyPathOfToday(j) == <<j.id, CHOOSE m \in Months : TRUE>>

BodyPath(j) == <<j.id, j.month>>

EntryOf(j) == [month |-> j.month, digest |-> Digest(j.doc), kind |-> "record"]

Status == {"none", "disabled", "noPdf", "storage", "damaged", "notFound", "unhandled"}
Refused(s) == [status |-> s]
Served(d) == [status |-> "ok", content |-> d]

Init ==
    /\ provider \in {"none", "filesystem"}
    /\ body = [p \in Paths |-> Missing]
    /\ record = [i \in Ids |-> Missing]
    /\ row = [i \in Ids |-> NoRow]
    /\ pc = [w \in Workers |-> "idle"]
    /\ job = [w \in Workers |-> NoJob]
    /\ seen = [w \in Workers |-> NoRow]
    /\ reply = [w \in Workers |-> Refused("none")]
    /\ published = [i \in Ids |-> {}]
    /\ delivered = [i \in Ids |-> {}]
    /\ damaged = {}

Goto(w, step) ==
    /\ pc' = [pc EXCEPT ![w] = step]
    /\ UNCHANGED <<job, seen, reply>>

Answer(w, r) ==
    /\ pc' = [pc EXCEPT ![w] = "idle"]
    /\ reply' = [reply EXCEPT ![w] = r]
    /\ seen' = [seen EXCEPT ![w] = NoRow]
    /\ UNCHANGED job

-------------------------------------------------------------------------------
\* A request reaches an idle thread.
Begin(w, j, step) ==
    /\ pc[w] = "idle"
    /\ pc' = [pc EXCEPT ![w] = step]
    /\ job' = [job EXCEPT ![w] = j]
    /\ reply' = [reply EXCEPT ![w] = Refused("none")]
    /\ UNCHANGED <<seen, provider, files, row, history>>

Post(w) == \E j \in CreateJob : Begin(w, j, "render")
Get(w) == \E j \in ReadJob : Begin(w, j, "readRecord")

\* _archive_root, render_pdf and verify_korean_glyphs: nothing is stored yet.
Render(w) ==
    /\ pc[w] = "render"
    /\ \/ provider = "none" /\ Answer(w, Refused("disabled"))
       \/ provider = "filesystem" /\ Answer(w, Refused("noPdf"))
       \/ provider = "filesystem" /\ Goto(w, "openBody")
    /\ UNCHANGED <<provider, files, row, history>>

\* Fault: the file is opened "wb".
OpenForWriting(file) == TRUE

\* store_bytes: an existing file refuses the new one, whatever it holds.
CanCreate(file) == file = Missing

OpenBody(w) ==
    LET p == BodyPath(job[w]) IN
    /\ pc[w] = "openBody"
    /\ \/ /\ CanCreate(body[p])
          /\ body' = [body EXCEPT ![p] = Torn]
          /\ Goto(w, "writeBody")
       \/ UNCHANGED body /\ Answer(w, Refused("storage"))
    /\ UNCHANGED <<provider, record, row, history>>

WriteBody(w) ==
    LET p == BodyPath(job[w]) IN
    /\ pc[w] = "writeBody"
    /\ \/ /\ body' = [body EXCEPT ![p] = job[w].doc]
          /\ Goto(w, "openRecord")
       \/ UNCHANGED body /\ Answer(w, Refused("storage"))
    /\ UNCHANGED <<provider, record, row, history>>

\* Fault: a record that cannot be created is skipped like a failed index.
OpenRecordBestEffort(w) ==
    LET i == job[w].id IN
    /\ pc[w] = "openRecord"
    /\ \/ /\ CanCreate(record[i])
          /\ record' = [record EXCEPT ![i] = Torn]
          /\ Goto(w, "writeRecord")
       \/ UNCHANGED record /\ Goto(w, "index")
    /\ UNCHANGED <<provider, body, row, history>>

OpenRecord(w) ==
    LET i == job[w].id IN
    /\ pc[w] = "openRecord"
    /\ \/ /\ CanCreate(record[i])
          /\ record' = [record EXCEPT ![i] = Torn]
          /\ Goto(w, "writeRecord")
       \/ UNCHANGED record /\ Answer(w, Refused("storage"))
    /\ UNCHANGED <<provider, body, row, history>>

\* From here on the number resolves: the document is published.
WriteRecord(w) ==
    LET i == job[w].id IN
    /\ pc[w] = "writeRecord"
    /\ \/ /\ record' = [record EXCEPT ![i] = EntryOf(job[w])]
          /\ published' = [published EXCEPT ![i] = @ \cup {job[w].doc}]
          /\ Goto(w, "index")
       \/ UNCHANGED <<record, published>> /\ Answer(w, Refused("storage"))
    /\ UNCHANGED <<provider, body, row, delivered, damaged>>

\* _index_in_database: a failure (also a duplicate key) is logged and ignored.
IndexRow(w) ==
    LET i == job[w].id IN
    /\ pc[w] = "index"
    /\ \/ row[i] = NoRow /\ row' = [row EXCEPT ![i] = EntryOf(job[w])]
       \/ UNCHANGED row
    /\ Goto(w, "readRecord")
    /\ UNCHANGED <<provider, files, history>>

\* load_archived_pdf up to the decoded record. Only the GET route turns the
\* LookupError of an absent record into a 404; after a POST it is unhandled.
ReadRecord(w) ==
    LET i == job[w].id
        absent == IF job[w].op = "read" THEN "notFound" ELSE "unhandled" IN
    /\ pc[w] = "readRecord"
    /\ \/ provider = "none" /\ Answer(w, Refused("disabled"))
       \/ provider = "filesystem" /\ Answer(w, Refused("storage"))
       \/ /\ provider = "filesystem" /\ record[i] = Missing
          /\ Answer(w, Refused(absent))
       \/ /\ provider = "filesystem" /\ record[i] = Torn
          /\ Answer(w, Refused("damaged"))
       \/ /\ provider = "filesystem" /\ record[i] \in Entry
          /\ seen' = [seen EXCEPT ![w] = record[i]]
          /\ pc' = [pc EXCEPT ![w] = "readBody"]
          /\ UNCHANGED <<job, reply>>
    /\ UNCHANGED <<provider, files, row, history>>

\* Fault: the digest is not compared.
Unverified(content, entry) == content # Missing

\* load_bytes compares what it read with the recorded digest.
Verified(content, entry) == Digest(content) = entry.digest

ReadBody(w) ==
    LET i == job[w].id
        content == body[<<i, seen[w].month>>] IN
    /\ pc[w] = "readBody"
    /\ \/ /\ content # Missing /\ Verified(content, seen[w])
          /\ Answer(w, Served(content))
          /\ delivered' = [delivered EXCEPT ![i] = @ \cup {content}]
       \/ /\ content # Missing /\ ~Verified(content, seen[w])
          /\ Answer(w, Refused("damaged"))
          /\ UNCHANGED delivered
       \/ Answer(w, Refused("storage")) /\ UNCHANGED delivered
    /\ UNCHANGED <<provider, files, row, published, damaged>>

-------------------------------------------------------------------------------
\* The process dies with its requests; files and rows stay as they are. The
\* next process reads its settings afresh (get_settings is cached per process).
Restart ==
    /\ provider' \in {"none", "filesystem"}
    /\ pc' = [w \in Workers |-> "idle"]
    /\ job' = [w \in Workers |-> NoJob]
    /\ seen' = [w \in Workers |-> NoRow]
    /\ reply' = [w \in Workers |-> Refused("none")]
    /\ UNCHANGED <<files, row, history>>

\* A finished file is corrupted, lost, or replaced together with its disk.
DamageBody(p) ==
    /\ body[p] \in Docs
    /\ \E c \in Docs \cup {Missing, Torn} : body' = [body EXCEPT ![p] = c]
    /\ damaged' = damaged \cup {p[1]}
    /\ UNCHANGED <<provider, record, row, threads, published, delivered>>

DamageRecord(i) ==
    /\ record[i] \in Entry
    /\ \E c \in {Missing, Torn} : record' = [record EXCEPT ![i] = c]
    /\ damaged' = damaged \cup {i}
    /\ UNCHANGED <<provider, body, row, threads, published, delivered>>

Request(w) == Post(w) \/ Get(w)

Step(w) ==
    \/ Render(w)
    \/ OpenBody(w) \/ WriteBody(w)
    \/ OpenRecord(w) \/ WriteRecord(w)
    \/ IndexRow(w)
    \/ ReadRecord(w) \/ ReadBody(w)

Environment ==
    \/ Restart
    \/ \E p \in Paths : DamageBody(p)
    \/ \E i \in Ids : DamageRecord(i)

Next == (\E w \in Workers : Request(w) \/ Step(w)) \/ Environment

Spec == Init /\ [][Next]_vars

-------------------------------------------------------------------------------
Steps == {"idle", "render", "openBody", "writeBody", "openRecord",
          "writeRecord", "index", "readRecord", "readBody"}
Replies == [status : Status] \cup [status : {"ok"}, content : Docs]

\* Every variable has its type; files are absent, incomplete or whole.
TypeOK ==
    /\ provider \in {"none", "filesystem"}
    /\ body \in [Paths -> Docs \cup {Missing, Torn}]
    /\ record \in [Ids -> Entry \cup {Missing, Torn}]
    /\ row \in [Ids -> Entry \cup {NoRow}]
    /\ pc \in [Workers -> Steps]
    /\ job \in [Workers -> CreateJob \cup ReadJob \cup {NoJob}]
    /\ seen \in [Workers -> Entry \cup {NoRow}]
    /\ reply \in [Workers -> Replies]
    /\ published \in [Ids -> SUBSET Docs]
    /\ delivered \in [Ids -> SUBSET Docs]
    /\ damaged \in SUBSET Ids

\* A complete record points at its complete body: storing the body first is
\* what keeps a crash or a failed write from leaving a record without a file.
RecordHasBody ==
    \A i \in Ids \ damaged :
        record[i] \in Entry => Verified(body[<<i, record[i].month>>], record[i])

\* Storing under a number twice is an error and not an overwrite (store_bytes): in
\* whatever order the opens, writes and failures of two callers interleave, a number
\* never gets two documents. The routes draw a fresh number for every request; the
\* store does not rely on it.
OneDocumentPerId ==
    \A i \in Ids \ damaged : \A d, e \in published[i] : d = e

\* What a client receives as document i was published as document i, even
\* after the disk swapped, truncated or lost files under the archive.
ServesPublishedOnly == \A i \in Ids : delivered[i] \subseteq published[i]

\* A successful POST returns the bytes this very request rendered, and the
\* number it returns resolves to them from then on.
CreatedIsOwn ==
    \A w \in Workers :
        (reply[w].status = "ok" /\ job[w].op = "create" /\ job[w].id \notin damaged)
        => /\ reply[w].content = job[w].doc
           /\ record[job[w].id] = EntryOf(job[w])
           /\ body[BodyPath(job[w])] = job[w].doc

\* A database row is never ahead of the record it indexes (the converse does
\* not hold: the index may silently lag).
IndexAgrees ==
    \A i \in Ids \ damaged : row[i] # NoRow => record[i] = row[i]

\* The LookupError that _archive_or_raise does not catch needs a record that
\* vanishes between being written and being read back.
UnhandledNeedsDamage ==
    \A w \in Workers : reply[w].status = "unhandled" => job[w].id \in damaged

Disowns(w) ==
    /\ reply'[w] # reply[w] /\ reply'[w].status \in {"notFound", "damaged"}
    /\ delivered[job[w].id] # {} /\ job[w].op = "read"

\* Once somebody received document i, no answer about i says "not found" or
\* "damaged" unless the disk was touched.
NeverForgotten ==
    [][\A w \in Workers : Disowns(w) => job[w].id \in damaged']_vars

\* A complete file is never rewritten, truncated or removed by the service.
WriteOnce ==
    [][\A i \in Ids \ damaged' :
        /\ record[i] \in Entry => record'[i] = record[i]
        /\ \A m \in Months : body[<<i, m>>] \in Docs => body'[<<i, m>>] = body[<<i, m>>]]_vars

\* The module comment of report_archive.py: a failed record write leaves a
\* body without an owner, which is merely not found. So a number that never
\* was published is answered "not found", never "damaged".
UnpublishedIsNotFound ==
    \A w \in Workers :
        (job[w].op = "read" /\ reply[w].status = "damaged")
        => published[job[w].id] # {}

-------------------------------------------------------------------------------
(* The inductive strengthening behind the invariants above. *)

\* A file that is being filled is Torn, and one thread holds it.
BodyOwned ==
    /\ \A w \in Workers : pc[w] = "writeBody" => body[BodyPath(job[w])] = Torn
    /\ \A v, w \in Workers :
        (pc[v] = "writeBody" /\ pc[w] = "writeBody"
            /\ BodyPath(job[v]) = BodyPath(job[w])) => v = w

RecordOwned ==
    /\ \A w \in Workers : pc[w] = "writeRecord" => record[job[w].id] = Torn
    /\ \A v, w \in Workers :
        (pc[v] = "writeRecord" /\ pc[w] = "writeRecord" /\ job[v].id = job[w].id)
        => v = w

\* A thread works on the kind of request its step belongs to, and has decoded
\* a record exactly when it is about to read the body.
StepFitsJob ==
    \A w \in Workers :
        /\ pc[w] \in {"render", "openBody", "writeBody", "openRecord",
                       "writeRecord", "index"} => job[w] \in CreateJob
        /\ pc[w] \in {"readRecord", "readBody"} => job[w] \in CreateJob \cup ReadJob
        /\ pc[w] = "readBody" => seen[w] \in Entry
        /\ reply[w].status # "none" => pc[w] = "idle" /\ job[w] # NoJob

\* Past its own write a thread finds its file whole, short of damage.
BodyStays ==
    \A w \in Workers :
        (pc[w] \in {"openRecord", "writeRecord"} /\ job[w].id \notin damaged)
        => body[BodyPath(job[w])] = job[w].doc

RecordStays ==
    \A w \in Workers :
        (pc[w] \in {"index", "readRecord", "readBody"} /\ job[w].op = "create"
            /\ job[w].id \notin damaged)
        => record[job[w].id] = EntryOf(job[w])

\* What is on disk, what a thread has decoded and what was published agree.
PublishedOnDisk ==
    \A i \in Ids \ damaged : \A d \in published[i] :
        record[i] \in Entry /\ Verified(d, record[i])

DiskPublished ==
    \A i \in Ids, d \in Docs :
        (record[i] \in Entry /\ Verified(d, record[i])) => d \in published[i]

SeenPublished ==
    \A w \in Workers, d \in Docs :
        (pc[w] = "readBody" /\ Verified(d, seen[w])) => d \in published[job[w].id]

\* A decoded record is still the record on disk.
SeenIsCurrent ==
    \A w \in Workers :
        (pc[w] = "readBody" /\ job[w].id \notin damaged)
        => seen[w] = record[job[w].id]

IInv ==
    /\ TypeOK
    /\ BodyOwned /\ RecordOwned
    /\ StepFitsJob
    /\ BodyStays /\ RecordStays
    /\ PublishedOnDisk /\ DiskPublished /\ SeenPublished /\ SeenIsCurrent
    /\ RecordHasBody /\ ServesPublishedOnly /\ CreatedIsOwn
    /\ IndexAgrees /\ UnhandledNeedsDamage

-------------------------------------------------------------------------------
\* The archive keeps the promise of DocumentArchive.
Promise == INSTANCE DocumentArchive WITH
    published <- published, delivered <- delivered, damaged <- damaged
Implements == Promise!Spec
================================================================================
