---------------------------- MODULE EsignDocument ----------------------------
(***************************************************************************)
(* The documents of a company and of one of its employees: the rows of       *)
(* dbo.FileMetadata and the objects of the file bucket they point to          *)
(* (integrations/esignature/src/esignature.service.ts). A browser uploads to  *)
(* a signed URL; the event of the bucket starts saveUploadedDocumentMetadata,  *)
(* which reads what to do from the metadata of the object.                    *)
(*                                                                         *)
(* url       the signed URLs: key, and the metadata the object will have     *)
(* used      those that were used                                            *)
(* stored    the objects: key and metadata                                   *)
(* rows      dbo.FileMetadata (ids: the last identity it gave)                 *)
(* metas     ids of company documents in dbo.EsignatureMetadata              *)
(* raised    events of the bucket that were not delivered yet                *)
(* uploads, removals  uploads and deletions that were started and not awaited *)
(* call      the functions that run: operation, next step, what they read     *)
(* names      the names that were given out                                    *)
(* latest    history: the last upload that replaces each row                 *)
(* happened  history: pairs of an event and the row, upload or key it concerns *)
(***************************************************************************)
EXTENDS EsignCalls

CONSTANTS
    Uploads,        \* signed URLs: 1 .. n, numbered as they are asked for
    MaxRows         \* bounds the rows

ASSUME UploadsAssumption == Uploads = 1 .. Cardinality(Uploads)
ASSUME RowsAssumption == MaxRows \in Nat \ {0, 1}

\* What is known of an upload, and the operations of functions.
FileKeys == Nat \X Nat \X Nat
Urls == [key : FileKeys, owner : {"employee", "company"}, row : 0 .. MaxRows]
DocOperations ==
    {"save", "edit", "replace", "deleteCompany", "deleteEmployee", "create", "onboarding"}

ASSUME DocNoneAssumption == None \notin Urls /\ None \notin DocOperations

VARIABLES url, used, rows, ids, metas, raised, removals, names, latest

browser == <<url, used, latest>>
unawaited == <<uploads, removals>>
fileRows == <<rows, ids>>
docVars == <<browser, stored, fileRows, metas, raised, unawaited, call, names, happened, trouble>>

\* What the metadata of an object says: whose document, the row it replaces (0: none), and
\* the upload. The service's own uploads say nothing of it.
Silent == [owner |-> "none", row |-> 0, by |-> 0]

\* A key has a name, and says how often the object was moved one folder down by an
\* onboarding and how often it was copied to another folder by a patch of the company.
FileKey(name) == <<name, 0, 0>>
MovedTo(key) == <<key[1], key[2] + 1, key[3]>>
PatchedTo(key) == <<key[1], key[2], key[3] + 1>>
NoKey == FileKey(0)

\* The one file name that the employee's uploads have, that of the first document of the
\* company, that of the first signed copy; the copy of the company's document in the
\* employee's folder has its file name, which stays when the file is replaced.
SameName == FileKey(1)
CompanyName == FileKey(2)
SignedName == FileKey(3)
EmployeeKey == MovedTo(NoKey)
CompanyRow == 1     \* a document of the company that needs no signature
SignedRow == 2      \* the copy of a simple request the employee signed

DocIdle == [op |-> None, pc |-> "idle", key |-> NoKey, row |-> 0, ptr |-> NoKey, by |-> 0,
            left |-> {}]
DocEnded == [DocIdle EXCEPT !.pc = "ended"]

DocInit ==
    /\ url = [u \in Uploads |-> None]
    /\ used = {}
    /\ rows = {[id |-> CompanyRow, owner |-> "company", ptr |-> CompanyName, by |-> 0],
               [id |-> SignedRow, owner |-> "employee", ptr |-> SignedName, by |-> 0]}
    /\ stored = {<<CompanyName, [owner |-> "company", row |-> 0, by |-> 0]>>, <<SignedName, Silent>>}
    /\ ids = 2
    /\ metas = {0}
    /\ names = 3
    /\ raised = {}
    /\ uploads = {}
    /\ removals = {}
    /\ call = [c \in Calls |-> DocIdle]
    /\ latest = [r \in 1 .. MaxRows |-> 0]
    /\ happened = {}
    /\ trouble = 0

-----------------------------------------------------------------------------

IsStored(key) == Object(key) # {}
Row(id) == {r \in rows : r.id = id}

\* checkForFileExistence: a suffix makes the key of a file that exists a new one.
FreshKey == FileKey(names + 1)
KeyFor(name) == IF IsStored(name) THEN FreshKey ELSE name
Given(key) == names' = IF key[1] > names THEN key[1] ELSE names

Insert(owner, ptr, by) ==
    /\ ids < MaxRows
    /\ ids' = ids + 1
    /\ rows' = rows \cup {[id |-> ids', owner |-> owner, ptr |-> ptr, by |-> by]}
Point(id, ptr) ==
    /\ rows' = {IF r.id = id THEN [r EXCEPT !.ptr = ptr] ELSE r : r \in rows}
    /\ UNCHANGED ids

DocEnd(c) == call' = [call EXCEPT ![c] = DocEnded]

\* Calls are numbered as they are started; starting beside another takes from the bound.
DocStart(c, begun) ==
    /\ First(c)
    /\ call' = [call EXCEPT ![c] = begun]

\* The rows that running calls work on, and those that an event will lead to.
Busy == {call[d].row : d \in {e \in Calls : Active(e)}}
            \cup (IF \E d \in Calls : call[d].op = "onboarding" THEN {CompanyRow, SignedRow} ELSE {})
RowsOf(key) == {o[2].row : o \in Object(key)}
Expected == (UNION {RowsOf(e.key) : e \in raised})
                \cup (UNION {RowsOf(call[d].key) : d \in {e \in Calls : call[e].op = "save"}})

\* A call that may write ids is started, maybe beside another, which is trouble then.
Running == \E d \in Calls : Active(d)
With(written) == IF Running THEN {"beside"} \X (written \cup Busy) ELSE {}
DocBeside(written) ==
    /\ happened' = happened \cup With(written)
    /\ IF Running THEN Trouble ELSE UNCHANGED trouble

-----------------------------------------------------------------------------
(* Uploads by the browser: generateDocumentUploadUrl *)

GenerateUrl ==
    /\ \E u \in Uploads, owner \in {"employee", "company"}, row \in {0} \cup {r.id : r \in rows} :
           LET key == IF owner = "employee" THEN KeyFor(SameName) ELSE FreshKey
           IN  /\ url[u] = None
               /\ \A v \in 1 .. u - 1 : url[v] # None
               /\ row # 0 => \E r \in Row(row) : (r.owner = "company") = (owner = "company")
               /\ url' = [url EXCEPT ![u] = [key |-> key, owner |-> owner, row |-> row]]
               /\ Given(key)
               /\ IF \E v \in Uploads : url[v] # None /\ url[v].key = key
                  THEN Note("sameKey", {key}) ELSE UNCHANGED happened
    /\ UNCHANGED <<used, latest, stored, fileRows, metas, raised, unawaited, call, trouble>>

\* The URL is used: the object replaces one of the same key.
PutObject ==
    /\ \E u \in Uploads \ used :
           LET to == url[u] IN
           /\ to # None
           /\ used' = used \cup {u}
           /\ Put(to.key, [owner |-> to.owner, row |-> to.row, by |-> u])
           /\ raised' = raised \cup {[key |-> to.key, by |-> u]}
           /\ IF to.row = 0 THEN UNCHANGED <<latest, happened>>
              ELSE /\ latest' = [latest EXCEPT ![to.row] = u]
                   /\ IF to.row \in Busy \cup Expected
                      THEN Note("reordered", {to.row}) ELSE UNCHANGED happened
    /\ UNCHANGED <<url, fileRows, metas, unawaited, call, names, trouble>>

-----------------------------------------------------------------------------
(* The events of the bucket: saveUploadedDocumentMetadata *)

\* An event is delivered, at least once; which row it is about is seen later.
Deliver(c) ==
    /\ \E e \in raised :
           /\ DocStart(c, [DocIdle EXCEPT !.op = "save", !.pc = "head", !.key = e.key])
           /\ \/ raised' = raised \ {e} /\ DocBeside({})
              \/ /\ Trouble
                 /\ happened' = happened \cup {<<"again", e.key>>} \cup With({})
                 /\ UNCHANGED raised
    /\ UNCHANGED <<browser, stored, fileRows, metas, unawaited, names>>

\* Mutant: an upload that replaces a file is taken for a new document.
HeadAsCreation(c) ==
    LET key == call[c].key IN
    /\ At(c, "save", "head")
    /\ IF \E o \in Object(key) : o[2].owner # "none"
       THEN \E o \in Object(key) :
                call' = [call EXCEPT ![c].by = o[2].by,
                    ![c].pc = IF o[2].owner = "company" THEN "meta" ELSE "file"]
       ELSE DocEnd(c)
    /\ UNCHANGED <<browser, stored, fileRows, metas, raised, unawaited, names, happened, trouble>>

\* Where the metadata of an object leads; a company's document that is replaced, and what
\* says nothing, is left alone.
Handled(meta) == meta.owner # "none" /\ ~ (meta.owner = "company" /\ meta.row # 0)
NextStep(meta) ==
    IF meta.owner = "company" THEN "meta" ELSE IF meta.row = 0 THEN "file" ELSE "current"

\* The metadata of the object that has the key now says what to do.
HeadObject(c) ==
    /\ At(c, "save", "head")
    /\ \/ \E o \in Object(call[c].key) :
              /\ Handled(o[2])
              /\ call' = [call EXCEPT ![c].pc = NextStep(o[2]), ![c].row = o[2].row,
                                     ![c].by = o[2].by]
              /\ happened' = happened
                    \cup (IF \E d \in Calls \ {c} : Active(d) THEN {<<"beside", o[2].row>>} ELSE {})
       \/ /\ \A o \in Object(call[c].key) : ~ Handled(o[2])
          /\ DocEnd(c)
          /\ UNCHANGED happened
    /\ UNCHANGED <<browser, stored, fileRows, metas, raised, unawaited, names, trouble>>

\* The id of a company's document is in the metadata of the object: a second row with it
\* is refused.
CreateEsignatureMetadata(c) ==
    LET by == call[c].by IN
    /\ At(c, "save", "meta")
    /\ IF by \in metas THEN DocEnd(c) /\ UNCHANGED metas
       ELSE Goto(c, "companyFile") /\ metas' = metas \cup {by}
    /\ UNCHANGED <<browser, stored, fileRows, raised, unawaited, names, happened, trouble>>

\* Mutant: a document of an employee is taken for one of the company, too.
CreateForBoth(c) ==
    /\ call[c].op = "save" /\ call[c].pc \in {"file", "companyFile"}
    /\ Insert(IF call[c].pc = "file" THEN "employee" ELSE "company", call[c].key, call[c].by)
    /\ IF call[c].pc = "file" THEN Goto(c, "meta") ELSE DocEnd(c)
    /\ UNCHANGED <<browser, stored, metas, raised, unawaited, names, happened, trouble>>

InsertUploaded(c) ==
    /\ call[c].op = "save" /\ call[c].pc \in {"file", "companyFile"}
    /\ Insert(IF call[c].pc = "file" THEN "employee" ELSE "company", call[c].key, call[c].by)
    /\ DocEnd(c)
    /\ UNCHANGED <<browser, stored, metas, raised, unawaited, names, happened, trouble>>

\* The current row is loaded, and the deletion of its object started.
LoadCurrent(c) ==
    /\ At(c, "save", "current")
    /\ IF Row(call[c].row) = {} THEN DocEnd(c) /\ UNCHANGED removals
       ELSE \E r \in Row(call[c].row) :
                /\ removals' = removals \cup {r.ptr}
                /\ Goto(c, "point")
    /\ UNCHANGED <<browser, stored, fileRows, metas, raised, uploads, names, happened, trouble>>

\* Mutant: the row keeps the pointer that was loaded.
PointerKept(c) ==
    /\ At(c, "save", "point")
    /\ DocEnd(c)
    /\ UNCHANGED <<browser, stored, fileRows, metas, raised, unawaited, names, happened, trouble>>

UpdatePointer(c) ==
    /\ At(c, "save", "point")
    /\ Point(call[c].row, call[c].key)
    /\ DocEnd(c)
    /\ UNCHANGED <<browser, stored, metas, raised, unawaited, names, happened, trouble>>

-----------------------------------------------------------------------------
(* Documents are edited and deleted *)

StartOn(c, op, id) ==
    /\ DocStart(c, [DocIdle EXCEPT !.op = op, !.pc = "read", !.row = id])
    /\ DocBeside({id})

\* What an onboarding copied for the employee cannot be edited or deleted by the employee's
\* operations; deleteCompanyDocument takes any row of the company.
Request(c) ==
    /\ \E r \in rows :
           \/ r.owner # "onboarding" /\ StartOn(c, "edit", r.id)
           \/ r.owner # "onboarding" /\ StartOn(c, "deleteEmployee", r.id)
           \/ StartOn(c, "deleteCompany", r.id)
           \/ r.owner = "company" /\ StartOn(c, "replace", r.id)
    /\ UNCHANGED <<browser, stored, fileRows, metas, raised, unawaited, names>>

\* updateEmployeeS3Document, and updateS3Document without a file: the title changes and
\* the pointer that was read is written back.
ReadForEdit(c) ==
    /\ At(c, "edit", "read")
    /\ IF Row(call[c].row) = {} THEN DocEnd(c)
       ELSE \E r \in Row(call[c].row) : call' = [call EXCEPT ![c].ptr = r.ptr, ![c].pc = "write"]
    /\ UNCHANGED <<browser, stored, fileRows, metas, raised, unawaited, names, happened, trouble>>

WriteBack(c) ==
    /\ call[c].op \in {"edit", "replace"} /\ call[c].pc = "write"
    /\ Point(call[c].row, call[c].ptr)
    /\ DocEnd(c)
    /\ UNCHANGED <<browser, stored, metas, raised, unawaited, names, happened, trouble>>

ReadForReplace(c) ==
    /\ At(c, "replace", "read")
    /\ IF Row(call[c].row) = {} THEN DocEnd(c)
       ELSE \E r \in Row(call[c].row) : call' = [call EXCEPT ![c].ptr = r.ptr, ![c].pc = "upload"]
    /\ UNCHANGED <<browser, stored, fileRows, metas, raised, unawaited, names, happened, trouble>>

\* A key that is free in the bucket, but not out of use.
InUse(key) == key \in uploads \cup removals \cup {r.ptr : r \in rows}
                        \cup {call[d].ptr : d \in Calls} \cup {call[d].key : d \in Calls}

\* updateS3Document with a file, whose name is the client's choice: the upload of the new
\* object and the deletion of the old one are started; the row is written after that.
ReplaceFile(c) ==
    /\ At(c, "replace", "upload")
    /\ \E key \in {KeyFor(CompanyName), FreshKey} :
           /\ uploads' = uploads \cup {key}
           /\ Given(key)
           /\ call' = [call EXCEPT ![c].ptr = key, ![c].pc = "write"]
           /\ IF InUse(key) THEN Note("sameKey", {key}) ELSE UNCHANGED happened
    /\ removals' = removals \cup {call[c].ptr}
    /\ UNCHANGED <<browser, stored, fileRows, metas, raised, trouble>>

\* The row is read; the deletion of its object is started, and nobody awaits it.
LoadForDelete(c) ==
    /\ IF Row(call[c].row) = {} THEN DocEnd(c) /\ UNCHANGED removals
       ELSE \E r \in Row(call[c].row) :
                /\ removals' = removals \cup {r.ptr}
                /\ Goto(c, "drop")
    /\ UNCHANGED <<browser, stored, fileRows, metas, raised, uploads, names, happened, trouble>>

DeleteCompanyDocument(c) == At(c, "deleteCompany", "read") /\ LoadForDelete(c)
DeleteEmployeeDocument(c) == At(c, "deleteEmployee", "read") /\ LoadForDelete(c)

DropRow(c, op) ==
    /\ At(c, op, "drop")
    /\ rows' = rows \ Row(call[c].row)
    /\ DocEnd(c)
    /\ UNCHANGED <<browser, stored, ids, metas, raised, unawaited, names, happened, trouble>>
DeleteCompanyDocumentRecord(c) == DropRow(c, "deleteCompany")
DeleteEmployeeDocumentRecord(c) == DropRow(c, "deleteEmployee")

-----------------------------------------------------------------------------
(* A document of the company in the body of a request: createCompanyDocument *)

CreateCompanyDocument(c) ==
    /\ DocStart(c, [DocIdle EXCEPT !.op = "create", !.pc = "read"])
    /\ DocBeside({})
    /\ UNCHANGED <<browser, stored, fileRows, metas, raised, unawaited, names>>

\* The key is chosen and the upload started, which nobody awaits.
ChooseKey(c) ==
    /\ At(c, "create", "read")
    /\ LET key == KeyFor(CompanyName) IN
       /\ call' = [call EXCEPT ![c].key = key, ![c].pc = "meta"]
       /\ uploads' = uploads \cup {key}
       /\ Given(key)
       /\ IF InUse(key) THEN Note("sameKey", {key}) ELSE UNCHANGED happened
    /\ UNCHANGED <<browser, stored, fileRows, metas, raised, removals, trouble>>

\* The id is new: no upload has a negative one.
InsertMetadata(c) ==
    /\ At(c, "create", "meta")
    /\ metas' = metas \cup {-c}
    /\ Goto(c, "insert")
    /\ UNCHANGED <<browser, stored, fileRows, raised, unawaited, names, happened, trouble>>

InsertCompanyFile(c) ==
    /\ At(c, "create", "insert")
    /\ Insert("company", call[c].key, 0)
    /\ DocEnd(c)
    /\ UNCHANGED <<browser, stored, metas, raised, unawaited, names, happened, trouble>>

-----------------------------------------------------------------------------
(* The documents of an onboarding: saveOnboardingDocuments *)

\* The documents are saved at once; the steps for each are taken in this order: its row is
\* created and then its object copied; its object is copied, deleted, and its row written.
CompanySteps == {"row", "copyCompany"}
SignedSteps == {"copySigned", "deleteSigned", "pointSigned"}
Before(step) ==
    IF step = "copyCompany" THEN {"row"}
    ELSE IF step = "deleteSigned" THEN {"copySigned"}
    ELSE IF step = "pointSigned" THEN {"copySigned", "deleteSigned"}
    ELSE {}
After(step) == {other \in CompanySteps \cup SignedSteps : step \in Before(other)}

SaveOnboarding(c) ==
    /\ DocStart(c, [DocIdle EXCEPT !.op = "onboarding", !.pc = "read"])
    /\ DocBeside({CompanyRow, SignedRow})
    /\ UNCHANGED <<browser, stored, fileRows, metas, raised, unawaited, names>>

\* The company's documents are listed, and begun, before the signed ones are listed.
ListTaskList(c) ==
    /\ At(c, "onboarding", "read")
    /\ IF Row(CompanyRow) = {} THEN Goto(c, "list")
       ELSE \E r \in Row(CompanyRow) :
                call' = [call EXCEPT ![c].key = r.ptr, ![c].left = CompanySteps,
                                     ![c].pc = "list"]
    /\ UNCHANGED <<browser, stored, fileRows, metas, raised, unawaited, names, happened, trouble>>

ListSigned(c) ==
    /\ At(c, "onboarding", "list")
    /\ IF Row(SignedRow) = {} THEN Goto(c, "run")
       ELSE \E r \in Row(SignedRow) :
                call' = [call EXCEPT ![c].ptr = r.ptr, ![c].pc = "run",
                           ![c].left = @ \cup SignedSteps]
    /\ UNCHANGED <<browser, stored, fileRows, metas, raised, unawaited, names, happened, trouble>>

Ready(c, step) ==
    /\ call[c].op = "onboarding"
    /\ step \in call[c].left /\ Before(step) \cap call[c].left = {}
Finish(c, steps) == call' = [call EXCEPT ![c].left = @ \ steps]

RowForEmployee(c) ==
    /\ Ready(c, "row")
    /\ Insert("onboarding", EmployeeKey, 0)
    /\ call' = [call EXCEPT ![c].left = @ \ {"row"}, ![c].row = ids']
    /\ IF EmployeeKey \in removals \cup {r.ptr : r \in rows} THEN Note("sameKey", {EmployeeKey}) ELSE UNCHANGED happened
    /\ UNCHANGED <<browser, stored, metas, raised, unawaited, names, trouble>>

\* A copy has the metadata of its source, and the bucket tells of it.
CopyTo(key, o) ==
    /\ Put(key, o[2])
    /\ raised' = raised \cup (IF o[2] = Silent THEN {} ELSE {[key |-> key, by |-> o[2].by]})

\* A copy of an older file than the last one that was uploaded to replace the row.
Older(o) == IF o[2].row # 0 /\ latest[o[2].row] # o[2].by THEN {<<"reordered", o[2].row>>} ELSE {}

\* What is copied may be an upload, whose event is raised once more then.
CopyStep(c, step, from, to) ==
    /\ Ready(c, step)
    /\ \/ \E o \in Object(from) :
              /\ CopyTo(to, o)
              /\ Finish(c, {step})
              /\ happened' = happened \cup Older(o)
                                \cup (IF o[2].by # 0 THEN {<<"again", to>>} ELSE {})
       \/ /\ ~ IsStored(from)
          /\ Finish(c, {step} \cup After(step))
          /\ Note("failed", {call[c].row})
          /\ UNCHANGED <<stored, raised>>
    /\ UNCHANGED <<browser, fileRows, metas, unawaited, names, trouble>>
CopyCompany(c) == CopyStep(c, "copyCompany", call[c].key, EmployeeKey)
CopySigned(c) == CopyStep(c, "copySigned", call[c].ptr, MovedTo(call[c].ptr))

DeleteSigned(c) ==
    /\ Ready(c, "deleteSigned")
    /\ stored' = stored \ Object(call[c].ptr)
    /\ Finish(c, {"deleteSigned"})
    /\ UNCHANGED <<browser, fileRows, metas, raised, unawaited, names, happened, trouble>>

PointSigned(c) ==
    /\ Ready(c, "pointSigned")
    /\ Point(SignedRow, MovedTo(call[c].ptr))
    /\ Finish(c, {"pointSigned"})
    /\ UNCHANGED <<browser, stored, metas, raised, unawaited, names, happened, trouble>>

\* One document fails; the others go on, and the answer is an error (pSettle).
OneFails(c) ==
    /\ \E step \in call[c].left :
           /\ Ready(c, step)
           /\ Finish(c, {step} \cup After(step))
    /\ Note("failed", {call[c].row, SignedRow})
    /\ Trouble
    /\ UNCHANGED <<browser, stored, fileRows, metas, raised, unawaited, names>>

Saved(c) ==
    /\ At(c, "onboarding", "run") /\ call[c].left = {}
    /\ DocEnd(c)
    /\ UNCHANGED <<browser, stored, fileRows, metas, raised, unawaited, names, happened, trouble>>

-----------------------------------------------------------------------------
(* What happens besides *)

ObjectLands ==
    /\ \E key \in uploads : Put(key, Silent) /\ uploads' = uploads \ {key}
    /\ UNCHANGED <<browser, fileRows, metas, raised, removals, call, names, happened, trouble>>

ObjectLost ==
    /\ \E key \in uploads : Note("uploadLost", {key}) /\ uploads' = uploads \ {key}
    /\ Trouble
    /\ UNCHANGED <<browser, stored, fileRows, metas, raised, removals, call, names>>

RemovalLands ==
    /\ \E key \in removals : stored' = stored \ Object(key) /\ removals' = removals \ {key}
    /\ UNCHANGED <<browser, fileRows, metas, raised, uploads, call, names, happened, trouble>>

\* The documents of the company are copied by a patch of the company, to another folder.
PatchCopies ==
    /\ \E o \in stored :
           LET to == PatchedTo(o[1]) IN
           /\ CopyTo(to, o)
           /\ happened' = happened \cup Older(o) \cup {<<"copied", o[2].by>>, <<"copiedTo", to>>}
                             \cup (IF <<"copiedTo", to>> \in happened THEN {<<"again", to>>} ELSE {})
    /\ Trouble
    /\ UNCHANGED <<browser, fileRows, metas, unawaited, call, names>>

\* A function fails or is killed: what it did stays.
DocFail(c) ==
    /\ Active(c)
    /\ happened' = happened \cup {<<"failed", call[c].row>>}
          \cup (IF call[c].op = "onboarding" THEN {<<"failed", SignedRow>>} ELSE {})
          \cup (IF call[c].op = "save" THEN {<<"unsaved", call[c].key>>} ELSE {})
    /\ DocEnd(c)
    /\ Trouble
    /\ UNCHANGED <<browser, stored, fileRows, metas, raised, unawaited, names>>

-----------------------------------------------------------------------------

DocCallStep(c) ==
    \/ Deliver(c) \/ HeadObject(c) \/ CreateEsignatureMetadata(c) \/ InsertUploaded(c)
    \/ LoadCurrent(c) \/ UpdatePointer(c)
    \/ Request(c) \/ ReadForEdit(c) \/ WriteBack(c) \/ ReadForReplace(c) \/ ReplaceFile(c)
    \/ DeleteCompanyDocument(c) \/ DeleteCompanyDocumentRecord(c)
    \/ DeleteEmployeeDocument(c) \/ DeleteEmployeeDocumentRecord(c)
    \/ CreateCompanyDocument(c) \/ ChooseKey(c) \/ InsertMetadata(c) \/ InsertCompanyFile(c)
    \/ SaveOnboarding(c) \/ ListTaskList(c) \/ ListSigned(c) \/ RowForEmployee(c)
    \/ CopyCompany(c) \/ CopySigned(c) \/ DeleteSigned(c) \/ PointSigned(c) \/ OneFails(c) \/ Saved(c)
    \/ DocFail(c)

DocNext ==
    \/ GenerateUrl \/ PutObject \/ ObjectLands \/ ObjectLost \/ RemovalLands \/ PatchCopies
    \/ \E c \in Calls : DocCallStep(c)

DocSpec == DocInit /\ [][DocNext]_docVars

-----------------------------------------------------------------------------
(* Properties *)

\* No function runs; and what was started and not awaited has landed.
AllEnded == \A c \in Calls : ~ Active(c)
Quiet == AllEnded /\ uploads = {} /\ removals = {}

Excused(key) == Had("again", key) \/ Had("sameKey", key) \/ Had("uploadLost", key)

\* When nothing is under way, a row points to an object that is in the bucket. The
\* exceptions: an event that came again, because it was delivered twice or because the
\* object was copied (the deletion is started before the row is compared with the upload),
\* two uploads that were given the same key, an upload that nobody awaited, a call that
\* failed between two steps, or two calls on the row.
PointsToObject ==
    Quiet =>
        \A r \in rows :
            IsStored(r.ptr) \/ Excused(r.ptr) \/ Had("failed", r.id) \/ Had("beside", r.id)

\* An upload becomes one row at most: unless its event was delivered again, another
\* upload replaced its object, or the object was copied with its metadata.
UploadedOnce ==
    \A u \in Uploads :
        \/ Cardinality({r \in rows : r.by = u}) <= 1
        \/ Had("copied", u) \/ Had("again", url[u].key) \/ Had("sameKey", url[u].key)

\* Once the functions have ended and no event is left that says otherwise, a row shows the
\* last file that was uploaded to replace it, maybe moved or copied: unless two uploads were
\* under way at a time, an older file was copied after it, its function failed, or another
\* call wrote the row.
ShowsLatest ==
    AllEnded =>
        \A r \in rows :
            LET u == latest[r.id] IN
            \/ u = 0 \/ url[u].owner = "company"
            \/ \E e \in raised : r.id \in RowsOf(e.key)
            \/ r.ptr[1] = url[u].key[1]
            \/ Had("reordered", r.id) \/ Had("beside", r.id)
            \/ Had("unsaved", url[u].key) \/ Had("sameKey", url[u].key)
=============================================================================
