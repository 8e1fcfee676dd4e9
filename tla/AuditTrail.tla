----------------------------- MODULE AuditTrail -----------------------------
(***************************************************************************)
(* The audit trail.  A run hands its audit rows to a sink that retries a   *)
(* fan-out over several sinks - a file that everybody appends to, objects  *)
(* in a bucket, a SIEM endpoint - and may leave a marker in a dead letter  *)
(* sink; or it inserts them into a table with its own commit.  Exports and *)
(* task details page through the files or the table meanwhile.             *)
(***************************************************************************)
EXTENDS Naturals, Sequences, FiniteSets, SequencesExt, FiniteSetsExt, Sorting

CONSTANTS
    Runs,
    Rows,           \* numbers of the audit rows of a run
    Owner,          \* [Runs -> tenants]; readers name a pipeline too, runs of others count as foreign
    Scenes,         \* deployments and their users, see below
    MaxRetries, Dlq,
    Readers,
    Tenant,         \* [Readers -> tenants]
    Limit,          \* rows of a page
    MaxScan,        \* MAX_JSONL_AUDIT_SCAN_ENVELOPES
    MaxTime,        \* bound: the clock stops here
    Ids,            \* bound: ids of table rows, numbers in their order
    None

\* The fan-out; settings.audit_store; the file of a run (its day and pipeline), in the order of
\* the names; the number N of a run's id run:N, which every engine counts from
\* one; the runs whose rows do not fit the buffer of a file object; what a reader
\* wants: a task detail the rows of one run, an export all.
Scene == [sinks : SeqOf({"file", "object", "siem"}, 3), readers : SUBSET Readers, store : {"jsonl", "db"}, file : [Runs -> Nat \ {0}],
          id : [Runs -> Nat \ {0}], bulky : SUBSET Runs, wanted : [Readers -> Runs \cup {None}]]

\* There is one directory, one bucket and one endpoint: a fan-out has at least one
\* sink, and no two of a kind.
ASSUME AuditTrailAssumption ==
    /\ IsFiniteSet(Rows) /\ Rows = 1 .. Cardinality(Rows) /\ Rows # {} /\ IsFiniteSet(Runs) /\ Runs # {}
    /\ \A c \in Scenes : c \in Scene /\ c.sinks # <<>> /\ IsInjective(c.sinks)
    /\ MaxRetries \in Nat \ {0} /\ Dlq \in BOOLEAN
    /\ Limit \in Nat \ {0} /\ MaxScan \in Nat \ {0} /\ MaxTime \in Nat
    /\ Ids \subseteq Nat /\ None \notin Nat \cup Runs /\ None \notin Runs \X Rows /\ None \notin Nat \X Nat

VARIABLES
    scene, now,
    file,       \* lines of a file: the pieces of text in it, and whether it has ended
    object,     \* content of the object with a key: the run that has put it, or None
    siem,       \* how often the endpoint has received a row
    dlq,        \* runs with a marker in the dead letter sink
    table,      \* committed audit_records
    pc,         \* "idle", "write", "acked", "marked", "raised", "dead"
    at,         \* where a write is: [attempt, sink, row, half]
    stamped,    \* ts of the rows of a run
    spoilt,     \* (history) how often text was appended to a line somebody else had not ended
    reader      \* [pc, cursor, shown, kept, scanned, due]

vars == <<scene, now, file, object, siem, dlq, table, pc, at, stamped, spoilt, reader>>
sinks == <<file, object, siem, spoilt>>

Sinks == scene.sinks
store == scene.store
FileOf(r) == scene.file[r]
RunId(r) == scene.id[r]
KeyOf(r) == <<FileOf(r), RunId(r)>>     \* day, pipeline and run id
Bulky == scene.bulky
Wanted(x) == scene.wanted[x]
Files == 1 .. Max({FileOf(r) : r \in Runs})

Begun == [attempt |-> 1, sink |-> 1, row |-> 1, half |-> 1]

Init ==
    /\ scene \in Scenes /\ now = 0
    /\ file = [f \in Files |-> <<>>] /\ object = [k \in {KeyOf(r) : r \in Runs} |-> None]
    /\ siem = [x \in Runs \X Rows |-> 0] /\ dlq = {} /\ table = {}
    /\ pc = [r \in Runs |-> "idle"] /\ at = [r \in Runs |-> Begun]
    /\ stamped = [r \in Runs |-> None] /\ spoilt = 0
    /\ reader = [x \in Readers |-> [pc |-> "idle", cursor |-> None, shown |-> <<>>, kept |-> {}, scanned |-> 0, due |-> {}]]

Tick ==
    /\ store = "db" /\ now < MaxTime /\ now' = now + 1
    /\ UNCHANGED <<scene, sinks, dlq, table, pc, at, stamped, reader>>

----------------------------------------------------------------------------
(* Writing *)

\* Engine.run hands over the rows that audit_reporter has put into the trace.
BeginWrite(r) ==
    /\ store = "jsonl" /\ pc[r] = "idle"
    /\ pc' = [pc EXCEPT ![r] = "write"]
    /\ UNCHANGED <<scene, now, sinks, dlq, table, at, stamped, reader>>

Writing(r, sink) == pc[r] = "write" /\ Sinks[at[r].sink] = sink

\* The attempt goes on.
GoOn(r, sink, row, half) ==
    at' = [at EXCEPT ![r] = [attempt |-> @.attempt, sink |-> sink, row |-> row, half |-> half]]

\* The next sink of MultiSink, or the return of ResilientSink.write.
NextSink(r) ==
    IF at[r].sink < Len(Sinks)
    THEN GoOn(r, at[r].sink + 1, 1, 1) /\ pc' = pc
    ELSE at' = at /\ pc' = [pc EXCEPT ![r] = "acked"]

Open(f) == file[f] # <<>> /\ ~Last(file[f]).ended

\* Text goes to the end of the file, whatever stands there.
Appended(f, part, ended) ==
    IF Open(f) THEN Front(file[f]) \o <<[parts |-> Append(Last(file[f]).parts, part), ended |-> ended]>>
    ELSE Append(file[f], [parts |-> <<part>>, ended |-> ended])

\* The unended line at the end of the file is of another write than r's row.
Intrudes(r) == LET f == FileOf(r) IN Open(f) /\ (at[r].half = 1 \/ Last(Last(file[f]).parts) # <<r, at[r].row, 1>>)

\* A batch that fits the buffer is written when the file is closed, in one piece.
AppendBatch(r) ==
    /\ Writing(r, "file") /\ r \notin Bulky
    /\ LET f == FileOf(r)
           Line(i) == [parts |-> <<<<r, i, 2>>>>, ended |-> TRUE]
       IN file' = [file EXCEPT ![f] = Appended(f, <<r, 1, 2>>, TRUE) \o [i \in 1 .. Cardinality(Rows) - 1 |-> Line(i + 1)]]
    /\ spoilt' = spoilt + (IF Intrudes(r) THEN 1 ELSE 0)
    /\ NextSink(r)
    /\ UNCHANGED <<scene, now, object, siem, dlq, table, stamped, reader>>

\* A longer one is written piece by piece: here the beginning and the rest of a row.
AppendPiece(r) ==
    /\ Writing(r, "file") /\ r \in Bulky
    /\ LET f == FileOf(r) IN file' = [file EXCEPT ![f] = Appended(f, <<r, at[r].row, at[r].half>>, at[r].half = 2)]
    /\ spoilt' = spoilt + (IF Intrudes(r) THEN 1 ELSE 0)
    /\ IF at[r].half = 1 THEN GoOn(r, at[r].sink, at[r].row, 2) /\ pc' = pc
       ELSE IF at[r].row + 1 \in Rows THEN GoOn(r, at[r].sink, at[r].row + 1, 1) /\ pc' = pc
       ELSE NextSink(r)
    /\ UNCHANGED <<scene, now, object, siem, dlq, table, stamped, reader>>

\* S3AuditSink, BlobAuditSink: the whole object, in place of the one with its key.
PutObject(r) ==
    /\ Writing(r, "object")
    /\ object' = [object EXCEPT ![KeyOf(r)] = r]
    /\ NextSink(r)
    /\ UNCHANGED <<scene, now, file, siem, spoilt, dlq, table, stamped, reader>>

\* Mutant: the rows are posted in one request that carries the first one.
PostFirstRow(r) ==
    /\ Writing(r, "siem")
    /\ siem' = [siem EXCEPT ![<<r, 1>>] = @ + 1]
    /\ NextSink(r)
    /\ UNCHANGED <<scene, now, file, object, spoilt, dlq, table, stamped, reader>>

\* SIEMWebhookAuditSink: one request per row.
PostRow(r) ==
    /\ Writing(r, "siem")
    /\ siem' = [siem EXCEPT ![<<r, at[r].row>>] = @ + 1]
    /\ IF at[r].row + 1 \in Rows THEN GoOn(r, at[r].sink, at[r].row + 1, 1) /\ pc' = pc
       ELSE NextSink(r)
    /\ UNCHANGED <<scene, now, file, object, spoilt, dlq, table, stamped, reader>>

\* A sink raises before its next write, or after one that was done all the same.
Raise(r) ==
    \/ UNCHANGED <<object, siem>>
    \/ Writing(r, "object") /\ object' = [object EXCEPT ![KeyOf(r)] = r] /\ UNCHANGED siem
    \/ Writing(r, "siem") /\ siem' = [siem EXCEPT ![<<r, at[r].row>>] = @ + 1] /\ UNCHANGED object

\* ResilientSink: the whole fan-out again.
Retry(r) ==
    /\ pc[r] = "write" /\ at[r].attempt < MaxRetries
    /\ Raise(r)
    /\ at' = [at EXCEPT ![r] = [Begun EXCEPT !.attempt = at[r].attempt + 1]]
    /\ UNCHANGED <<scene, now, file, spoilt, dlq, table, pc, stamped, reader>>

\* After the last attempt: a marker, or the exception reaches Engine.run.
GiveUp(r) ==
    /\ pc[r] = "write" /\ at[r].attempt = MaxRetries
    /\ Raise(r)
    /\ \/ Dlq /\ dlq' = dlq \cup {r} /\ pc' = [pc EXCEPT ![r] = "marked"]
       \/ dlq' = dlq /\ pc' = [pc EXCEPT ![r] = "raised"]     \* no dead letter sink, or it raises
    /\ UNCHANGED <<scene, now, file, spoilt, table, at, stamped, reader>>

Die(r) ==
    /\ pc[r] \in {"write", "stamped"}
    /\ pc' = [pc EXCEPT ![r] = "dead"]
    /\ UNCHANGED <<scene, now, sinks, dlq, table, at, stamped, reader>>

\* audit_reporter puts the time into the rows ...
Stamp(r) ==
    /\ store = "db" /\ pc[r] = "idle"
    /\ stamped' = [stamped EXCEPT ![r] = now]
    /\ pc' = [pc EXCEPT ![r] = "stamped"]
    /\ UNCHANGED <<scene, now, sinks, dlq, table, at, reader>>

\* ... persist_audit_rows_from_trace adds them to the session: committed together.
Persist(r) ==
    /\ pc[r] = "stamped"
    /\ \E ids \in [Rows -> Ids \ {x.id : x \in table}] :
        /\ IsInjective(ids)
        /\ table' = table \cup {[run |-> r, row |-> i, ts |-> stamped[r], id |-> ids[i]] : i \in Rows}
    /\ pc' = [pc EXCEPT ![r] = "acked"]
    /\ UNCHANGED <<scene, now, sinks, dlq, at, stamped, reader>>

----------------------------------------------------------------------------
(* Reading *)

\* A line that can be decoded holds one row and nothing else.
RowOf(line) ==
    IF line.parts \in {<<<<r, i, 2>>>> : r \in Runs \ Bulky, i \in Rows} \cup {<<<<r, i, 1>>, <<r, i, 2>>>> : r \in Bulky, i \in Rows}
    THEN <<Head(line.parts)[1], Head(line.parts)[2]>> ELSE None

Earlier(p, q) == p[1] < q[1] \/ (p[1] = q[1] /\ p[2] < q[2])
Positions == UNION {{<<f, l>> : l \in 1 .. Len(file[f])} : f \in Files}
RowAt(p) == RowOf(file[p[1]][p[2]])
Matching(x) == {p \in Positions : RowAt(p) # None /\ Owner[RowAt(p)[1]] = Tenant[x]}

\* Mutant: the line of the cursor counts in every file.
FromLine(p, cursor) == cursor = None \/ (p[1] >= cursor[1] /\ p[2] >= cursor[2])

From(p, cursor) == cursor = None \/ ~Earlier(p, cursor)

\* The next line of the same file, else the next file that exists.
CursorAfter(p) ==
    LET later == {f \in Files : f > p[1] /\ file[f] # <<>>}
    IN IF p[2] < Len(file[p[1]]) THEN <<p[1], p[2] + 1>>
       ELSE IF later # {} THEN <<Min(later), 1>>
       ELSE None

\* FileSystemAuditStore.query: [page, cursor]
QueryFiles(x, limit) ==
    LET rest == {p \in Matching(x) : From(p, reader[x].cursor)}
        sorted == InOrder(rest, {e \in rest \X rest : Earlier(e[1], e[2])})
        page == SubSeq(sorted, 1, IF Len(sorted) < limit THEN Len(sorted) ELSE limit)
    IN [page |-> page, cursor |-> IF Len(page) < limit THEN None ELSE CursorAfter(Last(page))]

Records(x) == {a \in table : Owner[a.run] = Tenant[x]}

\* ORDER BY ts, id after the row of the cursor.
Sorts(a, b) == a.ts < b.ts \/ (a.ts = b.ts /\ a.id < b.id)
Beyond(a, cursor) == cursor = None \/ Sorts(CHOOSE b \in table : b.id = cursor, a)

\* DBAuditStore.query
QueryTable(x, limit) ==
    LET rest == {a \in Records(x) : Beyond(a, reader[x].cursor)}
        sorted == InOrder(rest, {e \in rest \X rest : Sorts(e[1], e[2])})
        more == Len(sorted) > limit
        page == IF more THEN SubSeq(sorted, 1, limit) ELSE sorted
    IN [page |-> page, cursor |-> IF more THEN Last(page).id ELSE None]

Query(x, limit) == IF store = "jsonl" THEN QueryFiles(x, limit) ELSE QueryTable(x, limit)

\* (History) the rows that are there when the reader begins.
Due(x) == IF store = "jsonl" THEN Matching(x) ELSE Records(x)

StartReading(x) ==
    /\ reader[x].pc = "idle" /\ x \in scene.readers /\ (Wanted(x) # None => store = "jsonl")
    /\ reader' = [reader EXCEPT ![x] = [pc |-> "open", cursor |-> None, shown |-> <<>>, kept |-> {}, scanned |-> 0, due |-> Due(x)]]
    /\ UNCHANGED <<scene, now, sinks, dlq, table, pc, at, stamped>>

\* The reader has a page, and keeps some of it.
TurnPage(x, answer, then, keeps, scans) ==
    reader' = [reader EXCEPT ![x] = [pc |-> then, cursor |-> answer.cursor, shown |-> @.shown \o answer.page,
                                     kept |-> @.kept \cup keeps, scanned |-> @.scanned + scans, due |-> @.due]]

\* export_audit_rows: one page for a client that follows the cursors.
ExportPage(x) ==
    /\ reader[x].pc = "open" /\ Wanted(x) = None
    /\ LET answer == Query(x, Limit)
       IN TurnPage(x, answer, IF answer.cursor = None THEN "done" ELSE "open", {}, 0)
    /\ UNCHANGED <<scene, now, sinks, dlq, table, pc, at, stamped>>

\* A row is told by the id of its run, which runs of other engines may share.
BearsId(p, r) == RunId(RowAt(p)[1]) = RunId(r)

\* _audit_rows_for_task: one turn of its loop; 503 when there is too much to scan.
DetailPage(x) ==
    /\ reader[x].pc = "open" /\ Wanted(x) # None
    /\ LET left == IF MaxScan > reader[x].scanned THEN MaxScan - reader[x].scanned ELSE 1
           answer == Query(x, IF left < Limit THEN left ELSE Limit)
           scanned == reader[x].scanned + Len(answer.page)
       IN TurnPage(x, answer, IF answer.cursor = None THEN "done" ELSE IF scanned >= MaxScan THEN "refused" ELSE "open",
                   {p \in ToSet(answer.page) : BearsId(p, Wanted(x))}, Len(answer.page))
    /\ UNCHANGED <<scene, now, sinks, dlq, table, pc, at, stamped>>

----------------------------------------------------------------------------

Step(r) == AppendBatch(r) \/ AppendPiece(r) \/ PutObject(r) \/ PostRow(r) \/ Retry(r) \/ GiveUp(r) \/ Persist(r)

Next ==
    \/ Tick
    \/ \E r \in Runs : BeginWrite(r) \/ Stamp(r) \/ Step(r) \/ Die(r)
    \/ \E x \in Readers : StartReading(x) \/ ExportPage(x) \/ DetailPage(x)

Spec == Init /\ [][Next]_vars

----------------------------------------------------------------------------
(* Properties *)

Copies(r, i) == {p \in Positions : RowAt(p) = <<r, i>>}

\* Type invariant.
TypeOK ==
    /\ scene \in Scenes /\ now \in 0 .. MaxTime
    /\ \A f \in Files : \A l \in DOMAIN file[f] :
            file[f][l].parts # <<>> /\ (l < Len(file[f]) => file[f][l].ended)
    /\ object \in [{KeyOf(r) : r \in Runs} -> Runs \cup {None}]
    /\ siem \in [Runs \X Rows -> 0 .. MaxRetries] /\ dlq \subseteq Runs
    /\ pc \in [Runs -> {"idle", "write", "stamped", "acked", "marked", "raised", "dead"}]
    /\ at \in [Runs -> [attempt : 1 .. MaxRetries, sink : 1 .. Len(Sinks), row : Rows, half : 1 .. 2]]
    /\ stamped \in [Runs -> 0 .. MaxTime \cup {None}]

\* When write returns and no marker is left, every sink has every row of the run,
\* however many attempts it took: the endpoint at least once, the bucket under
\* the key - unless another run has the same key - and the files at least once
\* where nobody wrote into an unended line.  [ResilientSink, MultiSink]
AcknowledgedIsEverywhere ==
    \A r \in Runs : pc[r] = "acked" /\ store = "jsonl" =>
        /\ "siem" \in Range(Sinks) => \A i \in Rows : siem[r, i] > 0
        /\ "object" \in Range(Sinks) => \E z \in Runs : object[KeyOf(r)] = z /\ KeyOf(z) = KeyOf(r)
        /\ "file" \in Range(Sinks) /\ spoilt = 0 => \A i \in Rows : Copies(r, i) # {}

\* Retries copy rows, at most once per attempt, and a row that was acknowledged
\* can only be lost in the file where text was appended to an unended line:
\* at most two rows for each time.  [JsonlFileAuditSink.write]
LossAndCopiesAreBounded ==
    /\ \A r \in Runs, i \in Rows : Cardinality(Copies(r, i)) <= MaxRetries
    /\ store = "jsonl" /\ "file" \in Range(Sinks) => Cardinality({x \in Runs \X Rows : pc[x[1]] = "acked" /\ Copies(x[1], x[2]) = {}}) <= 2 * spoilt

\* No run that was given up looks like one that was recorded: there is a marker,
\* or the run fails.  [ResilientSink]
NothingIsGivenUpSilently ==
    \A r \in Runs :
        /\ r \in dlq <=> pc[r] = "marked"
        /\ pc[r] \in {"marked", "raised"} => at[r].attempt = MaxRetries

\* A client that follows the cursors, while rows are appended and committed,
\* gets no row twice and misses none that was there when it began.
\* [FileSystemAuditStore.query, DBAuditStore.query]
ExportsAreExact ==
    \A x \in Readers :
        /\ IsInjective(reader[x].shown)
        /\ reader[x].pc = "done" => reader[x].due \subseteq ToSet(reader[x].shown)

\* A task detail has every row of its run that was there at the beginning, or
\* it is refused; it has no row of another tenant, and none of another run but
\* those whose engine gave it the same id; and it reads at most MaxScan rows.
\* [_audit_rows_for_task, Engine.run: run:N]
DetailsAreWholeOrRefused ==
    \A x \in Readers : Wanted(x) # None =>
        /\ reader[x].scanned <= MaxScan
        /\ reader[x].pc = "done" =>
            {p \in reader[x].due : RowAt(p)[1] = Wanted(x)} \subseteq reader[x].kept
        /\ \A p \in reader[x].kept :
            LET r == RowAt(p)[1] IN Owner[r] = Tenant[x] /\ RunId(r) = RunId(Wanted(x))

\* Every row of a run is where the result of its write says.
RowsAreAccountedFor ==
    /\ TypeOK
    /\ AcknowledgedIsEverywhere
    /\ LossAndCopiesAreBounded
    /\ NothingIsGivenUpSilently

\* What is read page by page is whole, or the reader is told that it is not.
PagesAreExact == ExportsAreExact /\ DetailsAreWholeOrRefused
=============================================================================
