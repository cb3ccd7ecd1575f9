-------------------------- MODULE SignatureRequest --------------------------
(***************************************************************************)
(* The life of the signature requests of a company                           *)
(* (integrations/esignature/src/esignature.service.ts and                    *)
(* internal-api/esignatures/esignatures.service.ts). A request is signed     *)
(* either at HelloSign, which calls back when the signed copy may be         *)
(* downloaded, or here (a "simple" request), by adding a signature page to   *)
(* the document. The hire is the employee the onboarding is for.             *)
(*                                                                         *)
(* about    the requests that were created: their kind, signer, and whether  *)
(*          the onboarding created them                                      *)
(* hs       the requests as HelloSign knows them                             *)
(* row      their rows in dbo.EsignatureMetadata                             *)
(* files    the rows of dbo.FileMetadata: the request they are the signed    *)
(*          copy of (0: the company's document) and their pointer            *)
(* stored   the objects of the file bucket and the signature pages they have *)
(* inserts  INSERTs of rows that were sent and not awaited                   *)
(* uploads  signed copies whose upload was started and not awaited           *)
(* cancels  cancellations sent to HelloSign and not awaited                  *)
(* events   callbacks that HelloSign has yet to deliver                      *)
(* call     the functions that run: operation, next step, and what they read *)
(* happened history, read by properties only: pairs of an event and the      *)
(*          request it concerns (0: none)                                    *)
(***************************************************************************)
EXTENDS EsignCalls

CONSTANTS
    Employees,      \* those requests are sent to
    Hire,           \* the one of them that is being onboarded
    TaskList,       \* the kinds of request the onboarding's task list calls for
    MaxRequests     \* bounds the requests

Kinds == {"helloSign", "simple"}

ASSUME HireAssumption == Hire \in Employees /\ TaskList \subseteq Kinds
ASSUME BoundAssumption == MaxRequests \in Nat

\* What is known of a request, and the operations whose functions have several steps.
About == [kind : Kinds, to : Employees, onboarding : BOOLEAN]
Operations == {"copy", "sign", "cancel", "onboard", "delete"}

ASSUME NoneAssumption == None \notin About /\ None \notin Operations

VARIABLES about, hs, row, files, inserts, cancels, events

tables == <<row, files>>
flying == <<inserts, uploads, cancels, events>>
vars == <<about, hs, tables, stored, flying, call, happened, trouble>>

Requests == 1 .. MaxRequests
Created == {r \in Requests : about[r] # None}
Statuses == {"signed", "pending", "notRequired", "canceled"}

\* The company's document: the first row of FileMetadata, its object without a signature.
Document == <<0, "company">>
\* The pointer of a signed copy: the employee is part of it when they are logged in, and
\* not when they sign with the key of their onboarding.
CopyKey(r, path) == <<r, path>>
Paths == {"company", "employee"}

NoRow == [there |-> FALSE, status |-> "pending", file |-> 0]
Idle == [op |-> None, pc |-> "idle", r |-> 0, path |-> None, key |-> Document, pages |-> 0,
         todo |-> {}, ids |-> {}]
Ended == [Idle EXCEPT !.pc = "ended"]

Init ==
    /\ about = [r \in Requests |-> None]
    /\ hs = [r \in Requests |-> "none"]
    /\ row = [r \in Requests |-> NoRow]
    /\ files = {[id |-> 1, of |-> 0, key |-> Document]}
    /\ stored = {<<Document, 0>>}
    /\ inserts = {}
    /\ uploads = {}
    /\ cancels = {}
    /\ events = {}
    /\ call = [c \in Calls |-> Idle]
    /\ happened = {}
    /\ trouble = 0

-----------------------------------------------------------------------------

End(c) == call' = [call EXCEPT ![c] = Ended]

\* Calls that make a signed copy of r.
Copying(r) == {c \in Calls : call[c].op \in {"sign", "copy"} /\ call[c].r = r}

\* Starting beside another call takes from the bound.
Beside == IF \E d \in Calls : Active(d) THEN Trouble ELSE UNCHANGED trouble

Start(c, begun) ==
    /\ First(c)
    /\ call' = [call EXCEPT ![c] = begun]

\* The id of the row of FileMetadata that c inserts: ids are not given twice.
FileOf(c) == c + 1

\* New requests for the employees, one each; those of `made` exist at HelloSign.
Create(kind, employees, made, onboarding) ==
    LET numberings == {n \in [employees -> Requests \ Created] :
                           \A e, d \in employees : n[e] = n[d] => e = d}
        number == CHOOSE n \in numberings : TRUE
        new == {number[e] : e \in employees}
        to(r) == CHOOSE e \in employees : number[e] = r
    IN  /\ numberings # {}
        /\ about' = [r \in Requests |->
              IF r \in new THEN [kind |-> kind, to |-> to(r), onboarding |-> onboarding]
              ELSE about[r]]
        /\ hs' = [r \in Requests |-> IF r \in new /\ made THEN "open" ELSE hs[r]]
        /\ inserts' = inserts \cup {new}

-----------------------------------------------------------------------------
(* Requests are sent: createBatchSignatureRequest *)

\* saveSimpleEsignatureMetadata: one row for each employee, sent in one INSERT.
SendSimple ==
    /\ \E employees \in (SUBSET Employees) \ {{}} : Create("simple", employees, FALSE, FALSE)
    /\ UNCHANGED <<tables, stored, uploads, cancels, events, call, happened, trouble>>

\* createBatchHSSignatureRequest: HelloSign is asked for each employee; the requests it
\* made are sent to the table in one INSERT, and the others reported.
SendHelloSign ==
    /\ \E employees \in (SUBSET Employees) \ {{}} :
           \E fulfilled \in (SUBSET employees) \ {{}} :
               /\ Create("helloSign", fulfilled, TRUE, FALSE)
               /\ IF fulfilled = employees THEN UNCHANGED trouble ELSE Trouble
    /\ UNCHANGED <<tables, stored, uploads, cancels, events, call, happened>>

\* Mutant: simple requests do not refer to their document.
SentBare(r) == [there |-> TRUE, status |-> "pending", file |-> 0]

\* The row of a new request; that of a simple one refers to its document.
Sent(r) == [there |-> TRUE, status |-> "pending",
            file |-> IF about[r].kind = "simple" THEN 1 ELSE 0]

InsertLands ==
    /\ \E batch \in inserts :
           /\ row' = [r \in Requests |-> IF r \in batch THEN Sent(r) ELSE row[r]]
           /\ inserts' = inserts \ {batch}
    /\ UNCHANGED <<about, hs, files, stored, uploads, cancels, events, call, happened, trouble>>

\* The answer is not awaited: nobody sees that an INSERT failed or was never sent.
InsertLost ==
    /\ \E batch \in inserts :
           /\ Note("insertLost", batch)
           /\ inserts' = inserts \ {batch}
    /\ Trouble
    /\ UNCHANGED <<about, hs, tables, stored, uploads, cancels, events, call>>

-----------------------------------------------------------------------------
(* HelloSign *)

SignAtHelloSign ==
    /\ \E r \in Requests :
           /\ hs[r] = "open"
           /\ hs' = [hs EXCEPT ![r] = "complete"]
           /\ events' = events \cup {r}
    /\ UNCHANGED <<about, tables, stored, inserts, uploads, cancels, call, happened, trouble>>

CancelLands ==
    /\ \E r \in cancels :
           /\ hs' = [hs EXCEPT ![r] = IF @ = "open" THEN "canceled" ELSE @]
           /\ cancels' = cancels \ {r}
    /\ UNCHANGED <<about, tables, stored, inserts, uploads, events, call, happened, trouble>>

-----------------------------------------------------------------------------
(* The callback: eventCallbackDelegate, uploadSignedDocument *)

Overlapped(r) == happened' = IF Copying(r) = {} THEN happened ELSE happened \cup {<<"raced", r>>}

\* The signed copy is fetched, and its upload started but not awaited.
Callback(c) ==
    /\ \E r \in events :
           /\ Start(c, [Idle EXCEPT !.op = "copy", !.r = r, !.pc = "check"])
           /\ uploads' = uploads \cup {r}
           /\ Overlapped(r)
           /\ events' = events \ {r}
           /\ Beside
    /\ UNCHANGED <<about, hs, tables, stored, inserts, cancels>>

\* Callbacks may be delivered again.
Redelivered ==
    /\ \E r \in Requests \ events :
           /\ hs[r] = "complete"
           /\ events' = events \cup {r}
    /\ Trouble
    /\ UNCHANGED <<about, hs, tables, stored, inserts, uploads, cancels, call, happened>>

CheckForDuplicate(c) ==
    LET r == call[c].r IN
    /\ At(c, "copy", "check")
    /\ IF \E f \in files : f.key = CopyKey(r, "company") THEN End(c) ELSE Goto(c, "insert")
    /\ UNCHANGED <<about, hs, tables, stored, flying, happened, trouble>>

\* A row that refers to a request which is not there is refused by a foreign key, if the
\* schema has one.
CreateFileMetadata(c) ==
    LET r == call[c].r
        key == IF call[c].op = "copy" THEN CopyKey(r, "company") ELSE CopyKey(r, call[c].path)
    IN  /\ call[c].op \in {"copy", "sign"} /\ call[c].pc = "insert"
        /\ \/ /\ files' = files \cup {[id |-> FileOf(c), of |-> r, key |-> key]}
              /\ Goto(c, "mark")
           \/ /\ ~ row[r].there
              /\ End(c)
              /\ UNCHANGED files
        /\ IF row[r].there THEN UNCHANGED happened ELSE Note("early", {r})
        /\ UNCHANGED <<about, hs, row, stored, flying, trouble>>

\* Mutant: only what is pending is marked.
MarkPending(c) ==
    LET r == call[c].r IN
    /\ At(c, "copy", "mark")
    /\ row' = [row EXCEPT ![r].status = IF @ = "pending" THEN "signed" ELSE @]
    /\ End(c)
    /\ UNCHANGED <<about, hs, files, stored, flying, happened, trouble>>

MarkCopied(c) ==
    LET r == call[c].r IN
    /\ At(c, "copy", "mark")
    /\ row' = [row EXCEPT ![r].status = IF row[r].there THEN "signed" ELSE @]
    /\ IF row[r].there THEN UNCHANGED happened ELSE Note("early", {r})
    /\ End(c)
    /\ UNCHANGED <<about, hs, files, stored, flying, trouble>>

UploadLands ==
    /\ \E r \in uploads :
           /\ Put(CopyKey(r, "company"), 0)
           /\ uploads' = uploads \ {r}
    /\ UNCHANGED <<about, hs, tables, inserts, cancels, events, call, happened, trouble>>

UploadLost ==
    /\ \E r \in uploads :
           /\ Note("uploadLost", {r})
           /\ uploads' = uploads \ {r}
    /\ Trouble
    /\ UNCHANGED <<about, hs, tables, stored, inserts, cancels, events, call>>

-----------------------------------------------------------------------------
(* A simple request is signed: createSimpleSignDocument *)

Sign(c) ==
    /\ \E r \in Created, path \in Paths :
           /\ path = "company" => about[r].to = Hire
           /\ Start(c, [Idle EXCEPT !.op = "sign", !.r = r, !.path = path, !.pc = "read"])
           /\ Overlapped(r)
    /\ Beside
    /\ UNCHANGED <<about, hs, tables, stored, flying>>

\* getFileMetadataByEsignatureMetadataId: the document of the request, or a copy of it.
FilesOf(r) == {f \in files : row[r].there /\ (f.id = row[r].file \/ f.of = r)}

\* Mutant: the document may be signed again.
ReadUnchecked(c) ==
    LET r == call[c].r IN
    /\ At(c, "sign", "read")
    /\ IF FilesOf(r) = {} THEN End(c)
       ELSE \E f \in FilesOf(r) : call' = [call EXCEPT ![c].key = f.key, ![c].pc = "get"]
    /\ UNCHANGED <<about, hs, tables, stored, flying, happened, trouble>>

ReadDocument(c) ==
    LET r == call[c].r IN
    /\ At(c, "sign", "read")
    /\ IF FilesOf(r) = {} \/ row[r].status = "signed" THEN End(c)
       ELSE \E f \in FilesOf(r) : call' = [call EXCEPT ![c].key = f.key, ![c].pc = "get"]
    /\ UNCHANGED <<about, hs, tables, stored, flying, happened, trouble>>

\* The object is read, and a signature page is added to what was read.
GetObject(c) ==
    /\ At(c, "sign", "get")
    /\ IF Object(call[c].key) = {} THEN End(c)
       ELSE \E o \in Object(call[c].key) :
                call' = [call EXCEPT ![c].pages = o[2] + 1, ![c].pc = "upload"]
    /\ UNCHANGED <<about, hs, tables, stored, flying, happened, trouble>>

\* Mutant: the upload is not awaited, and does not arrive.
UploadForgotten(c) ==
    /\ At(c, "sign", "upload")
    /\ Goto(c, "insert")
    /\ UNCHANGED <<about, hs, tables, stored, flying, happened, trouble>>

UploadSigned(c) ==
    /\ At(c, "sign", "upload")
    /\ Put(CopyKey(call[c].r, call[c].path), call[c].pages)
    /\ Goto(c, "insert")
    /\ UNCHANGED <<about, hs, tables, flying, happened, trouble>>

\* The row gets the copy as its file, whose id the INSERT answered with.
MarkSigned(c) ==
    LET r == call[c].r IN
    /\ At(c, "sign", "mark")
    /\ row' = [row EXCEPT ![r] =
          IF @.there THEN [@ EXCEPT !.status = "signed", !.file = FileOf(c)] ELSE @]
    /\ IF about[r].kind = "helloSign" THEN Note("signedHere", {r}) ELSE UNCHANGED happened
    /\ End(c)
    /\ UNCHANGED <<about, hs, files, stored, flying, trouble>>

-----------------------------------------------------------------------------
(* The status is changed: deleteSignatureRequest, updateSignatureRequestStatus *)

\* A request that is not there is not found; the status of one that is, is overwritten,
\* whatever it is, and whatever it has become since it was read.
Change(c) ==
    /\ \E r \in Created, op \in {"cancel"} \cup Statuses :
           LET status == IF op = "cancel" THEN "canceled" ELSE op IN
           /\ row[r].there
           /\ row' = [row EXCEPT ![r].status = status]
           /\ happened' = happened
                 \cup (IF \E f \in files : f.of = r THEN {<<"moved", r>>} ELSE {})
                 \cup (IF op # "cancel" THEN {<<status, r>>} ELSE {})
           /\ Start(c, IF op = "cancel" THEN [Idle EXCEPT !.op = op, !.r = r, !.pc = "tell"]
                       ELSE Ended)
    /\ Beside
    /\ UNCHANGED <<about, hs, files, stored, flying>>

\* The UPDATE of a cancellation misses its database: HelloSign is told all the same.
CancelMissed(c) ==
    /\ \E r \in Created :
           /\ row[r].there
           /\ Start(c, [Idle EXCEPT !.op = "cancel", !.r = r, !.pc = "tell"])
           /\ Note("missed", {r})
    /\ Trouble
    /\ UNCHANGED <<about, hs, tables, stored, flying>>

\* HelloSign is told, and the answer not awaited; it knows nothing of a simple request.
CancelAtHelloSign(c) ==
    /\ At(c, "cancel", "tell")
    /\ cancels' = cancels \cup ({call[c].r} \cap {r \in Requests : hs[r] # "none"})
    /\ End(c)
    /\ UNCHANGED <<about, hs, tables, stored, inserts, uploads, events, happened, trouble>>

-----------------------------------------------------------------------------
(* The onboarding: onboarding, deleteOnboardingDocuments *)

Onboarded == {r \in Created : about[r].onboarding}

\* Search at HelloSign by the key of the onboarding.
ListedByHelloSign == {r \in Onboarded : hs[r] # "none"}

\* getOnboardingSimpleSignDocuments: every simple request of the hire.
ListedSimple == {r \in Created : row[r].there /\ row[r].file # 0 /\ about[r].to = Hire
                                    /\ \E f \in files : f.id = row[r].file}

StartOnboarding(c) ==
    /\ Start(c, [Idle EXCEPT !.op = "onboard", !.pc = "list", !.todo = Kinds])
    /\ happened' = happened
          \cup (IF \E d \in Calls : call[d].op = "onboard" THEN {<<"onboardedTwice", 0>>} ELSE {})
          \cup (IF (UNION inserts) \cap Onboarded # {} THEN {<<"onboardedTwice", 0>>} ELSE {})
    /\ Beside
    /\ UNCHANGED <<about, hs, tables, stored, flying>>

\* Both lists are read, in any order; requests are created if both are empty.
ListExisting(c) ==
    /\ At(c, "onboard", "list")
    /\ \E k \in call[c].todo :
           LET ids == call[c].ids
                        \cup (IF k = "helloSign" THEN ListedByHelloSign ELSE ListedSimple)
               rest == call[c].todo \ {k}
           IN  IF rest # {} THEN call' = [call EXCEPT ![c].todo = rest, ![c].ids = ids]
               ELSE IF ids # {} \/ TaskList = {} THEN End(c)
               ELSE call' = [call EXCEPT ![c].pc = "create", ![c].todo = TaskList]
    /\ UNCHANGED <<about, hs, tables, stored, flying, happened, trouble>>

Done(c, k) ==
    IF call[c].todo = {k} THEN End(c)
    ELSE call' = [call EXCEPT ![c].todo = @ \ {k}]

CreateForOnboarding(c) ==
    /\ At(c, "onboard", "create")
    /\ \E k \in call[c].todo :
           /\ Create(k, {Hire}, k = "helloSign", TRUE)
           /\ Done(c, k)
    /\ UNCHANGED <<tables, stored, uploads, cancels, events, happened, trouble>>

\* One creation fails: the answer is an error, and the others go on.
CreationFails(c) ==
    /\ At(c, "onboard", "create")
    /\ \E k \in call[c].todo : Done(c, k)
    /\ Trouble
    /\ UNCHANGED <<about, hs, tables, stored, flying, happened>>

StartDeletion(c) ==
    /\ Start(c, [Idle EXCEPT !.op = "delete", !.pc = "listHelloSign"])
    /\ Beside
    /\ UNCHANGED <<about, hs, tables, stored, flying, happened>>

ListHelloSign(c) ==
    /\ At(c, "delete", "listHelloSign")
    /\ call' = [call EXCEPT ![c].ids = ListedByHelloSign, ![c].pc = "listSimple"]
    /\ UNCHANGED <<about, hs, tables, stored, flying, happened, trouble>>

\* What is signed has its object deleted, by the pointer of the row's file.
ListSimple(c) ==
    LET ids == call[c].ids \cup ListedSimple
        signed == {r \in ListedSimple : row[r].status = "signed"}
    IN  /\ At(c, "delete", "listSimple")
        /\ IF ids = {} THEN End(c)
           ELSE call' = [call EXCEPT ![c].ids = ids, ![c].pc = "delete",
                            ![c].todo = {f.key : f \in {g \in files :
                                             \E r \in signed : row[r].file = g.id}}]
        /\ UNCHANGED <<about, hs, tables, stored, flying, happened, trouble>>

\* deleteEsignatureMetadataByIdList, one transaction.
DeleteRows(c) ==
    LET ids == call[c].ids IN
    /\ At(c, "delete", "delete")
    /\ row' = [r \in Requests |-> IF r \in ids THEN NoRow ELSE row[r]]
    /\ files' = {f \in files : f.of \notin ids}
    /\ Note("removed", ids)
    /\ IF call[c].todo = {} THEN End(c) ELSE Goto(c, "objects")
    /\ UNCHANGED <<about, hs, stored, flying, trouble>>

DeleteObject(c) ==
    /\ At(c, "delete", "objects")
    /\ \E key \in call[c].todo :
           /\ stored' = stored \ Object(key)
           /\ Done(c, key)
    /\ UNCHANGED <<about, hs, tables, flying, happened, trouble>>

\* A statement misses its database: nothing is changed, the answer is an error that is not
\* thrown, and the function goes on as if it had been a result. This holds where nothing of
\* the answer is read: the INSERT of HelloSign's copy, the UPDATEs that mark a request, and
\* the deletion of the rows. Elsewhere a field of the answer is read, which throws (Fail).
Missed(c) ==
    /\ \/ /\ At(c, "copy", "insert")
          /\ Goto(c, "mark")
          /\ Note("missed", {call[c].r})
       \/ /\ call[c].op \in {"copy", "sign"} /\ call[c].pc = "mark"
          /\ End(c)
          /\ Note("missed", {call[c].r})
       \/ /\ At(c, "delete", "delete")
          /\ IF call[c].todo = {} THEN End(c) ELSE Goto(c, "objects")
          /\ Note("missed", call[c].ids)
    /\ Trouble
    /\ UNCHANGED <<about, hs, tables, stored, flying>>

\* A function fails or is killed: what it did stays.
Fail(c) ==
    /\ Active(c)
    /\ IF call[c].r = 0 THEN UNCHANGED happened ELSE Note("failed", {call[c].r})
    /\ End(c)
    /\ Trouble
    /\ UNCHANGED <<about, hs, tables, stored, flying>>

-----------------------------------------------------------------------------

CallStep(c) ==
    \/ Callback(c) \/ CheckForDuplicate(c) \/ CreateFileMetadata(c) \/ MarkCopied(c)
    \/ Sign(c) \/ ReadDocument(c) \/ GetObject(c) \/ UploadSigned(c) \/ MarkSigned(c)
    \/ Change(c) \/ CancelMissed(c) \/ CancelAtHelloSign(c)
    \/ StartOnboarding(c) \/ ListExisting(c) \/ CreateForOnboarding(c) \/ CreationFails(c)
    \/ StartDeletion(c) \/ ListHelloSign(c) \/ ListSimple(c) \/ DeleteRows(c) \/ DeleteObject(c)
    \/ Missed(c) \/ Fail(c)

Next ==
    \/ SendSimple \/ SendHelloSign \/ InsertLands \/ InsertLost
    \/ SignAtHelloSign \/ Redelivered \/ CancelLands \/ UploadLands \/ UploadLost
    \/ \E c \in Calls : CallStep(c)

Spec == Init /\ [][Next]_vars

-----------------------------------------------------------------------------
(* Properties *)

\* Nothing is under way.
AtRest ==
    /\ inserts = {} /\ uploads = {} /\ cancels = {} /\ events = {}
    /\ \A c \in Calls : ~ Active(c)

Copies(r) == {f \in files : f.of = r}

\* What a request that is signed can show for it: a row of its own in FileMetadata whose
\* object is in the bucket. The exceptions are a status set by hand
\* (updateSignatureRequestStatus), HelloSign's copy, whose upload nobody awaits, a row
\* whose INSERT lands after the onboarding's deletion removed what it refers to, and a
\* statement that missed its database: the INSERT of the copy's row, after which the request
\* is marked all the same, or the deletion of the rows, after which their objects go.
SignedHasCopy ==
    \A r \in Requests :
        row[r].there /\ row[r].status = "signed" =>
            \/ \E f \in Copies(r) : Object(f.key) # {}
            \/ Had("signed", r) \/ Had("uploadLost", r) \/ Had("removed", r)
            \/ Had("missed", r) \/ r \in uploads

\* A document gets one signature page and one row: createSimpleSignDocument refuses what
\* is signed and uploadSignedDocument what has its row, so a second one takes two calls
\* at a time, a call that failed before it marked the request or whose mark missed its
\* database, or a status that was overwritten after the signature.
SignedOnce ==
    \A r \in Requests :
        Had("raced", r) \/ Had("failed", r) \/ Had("missed", r) \/ Had("moved", r)
            \/ Had("early", r)
            \/ /\ Cardinality(Copies(r)) <= 1
               /\ \A o \in stored : o[1][1] = r => o[2] <= 1

\* The billing report (getBillableSignRequests) counts the rows of signature requests
\* that have no file and need a signature. When nothing is under way these are the
\* requests made at HelloSign and no other, except those whose INSERT was lost, that the
\* onboarding's deletion removed, whose status was set to not required, or that were
\* also signed here.
BilledIfAtHelloSign ==
    AtRest =>
        \A r \in Created :
            \/ (row[r].there /\ row[r].status # "notRequired" /\ row[r].file = 0)
                   <=> (hs[r] # "none")
            \/ Had("insertLost", r) \/ Had("removed", r) \/ Had("notRequired", r)
            \/ Had("signedHere", r)

\* A request that was completed at HelloSign is signed here, with its copy, when nothing
\* is under way: unless the callback came before the INSERT that nobody awaits, or after it
\* was lost, or the function failed (callbacks are not retried) or one of its statements
\* missed its database, or the onboarding's deletion removed the row, or the status was
\* overwritten.
CompletedIsRecorded ==
    AtRest =>
        \A r \in Created :
            hs[r] = "complete" =>
                \/ row[r].there /\ row[r].status = "signed" /\ Copies(r) # {}
                \/ Had("early", r) \/ Had("failed", r) \/ Had("missed", r)
                \/ Had("removed", r) \/ Had("moved", r)

\* The deletion of an onboarding's documents deletes the objects of the signed copies, by
\* the pointer of the row's file; the company's own document, which other requests are
\* made of, stays unless a request was set to signed by hand.
DocumentKept == Object(Document) # {} \/ \E r \in Requests : Had("signed", r)

\* What was signed and what is signed from are still there.
ObjectsKept == SignedHasCopy /\ DocumentKept

\* The onboarding creates one request for each document of its task list: a second one
\* takes two calls at a time, one before the INSERT of the first has landed, one that was
\* lost (nobody awaits it), or a deletion.
OnboardedOnce ==
    \A k \in Kinds :
        \/ Cardinality({r \in Onboarded : about[r].kind = k}) <= 1
        \/ Had("onboardedTwice", 0)
        \/ \E r \in Onboarded : Had("removed", r) \/ Had("insertLost", r)

\* Neither a signature nor an onboarding is done twice.
NothingTwice == SignedOnce /\ OnboardedOnce

\* The deletion of an onboarding's documents removes what the onboarding created.
DeletesItsOwn == \A r \in Created : Had("removed", r) => about[r].onboarding
=============================================================================
