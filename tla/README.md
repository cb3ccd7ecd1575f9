# Verification of the HR backend

TLA+ models of the backend in this repository ("asure.hr.services": AWS Lambda
functions in TypeScript over SQL Server, DynamoDB, S3, HelloSign and the Evolution
payroll API), the TLC configurations that check them on small instances, and
theorems about them that TLAPS checks for every instance.

What the parts of this system share is that one operation writes several stores that
share no transaction: the tenant's SQL database and payroll, S3 and SQL, HelloSign and
a configuration service. There is no lock and no distributed transaction. What keeps
the stores together is the ORDER of the calls, and, in places, a rollback. Almost every
question asked here is of that kind: which state do the stores have when a call is
refused, or its answer is lost, or another request comes in between; does the rollback
restore what it promises; is a record checked and written in one step or in two.

Contents: 1 inventory, 2 how the code is modelled, 3 the modules, 4 the runs,
5 liveness and fairness, 6 proofs, 7 disagreements between the code and what it says,
8 what is not modelled, 9 the plan.

Paths are relative to `src/services/`.

## 1. Inventory

### Direct deposits (`api/direct-deposits`)

- State: table `dbo.EmployeeDirectDeposit` of the tenant (row per deposit: employee,
  bank account in clear or as a token, amount code, amount, status, end date); the
  earnings and deductions (EDs) of the employee in Evolution; the tenant's NACHA beta
  flag.
- Operations: create (duplicate check, tokenization, insert), update (duplicate check,
  read, payroll, write), delete (a pending row is deleted; an approved one is ended,
  payroll first), list.
- Interactions: the HR application approves rows and copies them to Evolution; the
  `queryExecutor` lambda runs each query; Evolution is read with GET and written with PUT.
- Hard: check and insert in separate transactions; state read before calls and used
  after them; an approval that overtakes a request; a PUT whose error is swallowed.
- Correct when: an employee has no two deposits to the same account and one balance
  remainder; HR never shows as ended, or as changed, what payroll does not have;
  payroll never pays into a deposit that HR has lost; amounts of whole cents are kept.

### Group term life (`api/group-term-life`)

- State: table `dbo.GroupTermLife`; the `groupTermLife` section of the employee in
  Evolution; whether the employee is salaried.
- Operations: create, update, delete, each in the same steps: read and validate, look
  for a record, write payroll, write HR.
- Hard: failure between the two writes; columns that round what was validated; two
  creates at once.
- Correct when: one record per employee; flat amount and multiple of earnings exclude
  each other as stored; HR only takes over what payroll holds.

### Company patch (`api/tenants/src/company.service.ts`)

A JSON-patch document that finishes the migration of a company between tenants. It is a
list of instructions, run in order; each returns a rollback, and if one fails the
rollbacks of those before it are run, last first (`companyUpdate`).

- Documents (`handleEsignatureDocs`): the company's files are copied to new S3 keys and
  `dbo.FileMetadata` is pointed at the copies. All files at once, one shared stack of
  undo actions. Correct when a document is always at the key its metadata names, and
  when the instruction is atomic.
- HelloSign configuration (`updateHelloSignConfigurations`): the recipient takes over
  the donor's HelloSign application, in five calls to two services, with a queue of
  undo actions. Correct when the application that carries the signature requests is
  kept, and when a company can sign at every moment.
- SSO accounts (`handleSsoPatch`): copies, disables or looks up the accounts of all
  users at once. Correct when a user is moved only to an account with all of its roles,
  and when a patch that succeeded has served everybody.
- Hard in all three: several calls in flight when one fails; a compensation that fails
  itself; the order of compensations; the same patch sent again.

### Employee import (`api/employee-import`, `queries/employee-import`)

- State: `DataImportEvent` and `DataImportEventDetail` (status of the import and of each
  row), `EmployeeCompensation`, `EmployeeAlternateRate` and `Employee` in HR, wages and
  employees in Evolution.
- Operations: import a file; start the Step Functions machine; set the event to
  Processing; per row update an employee, a compensation or an alternate rate; set the
  event to its final status or to Error. Templates, upload URLs, listings and downloads
  only read.
- Hard: a row is written to HR and then to payroll, with a compensation that deletes it;
  promises nobody awaits; a function that is stopped between two steps; a status that
  is derived from others; rows served at once that read each other's entries.
- Correct when: the final status tells the truth and is eventually written; an entry
  with a key of payroll is in payroll; a failed row leaves nothing behind; the entries of
  an employee follow each other.

### E-signature requests (`integrations/esignature`, `internal-api/esignatures`)

- State: `dbo.EsignatureMetadata` (a row per request: status, file), the signed copies in
  `dbo.FileMetadata` and in S3, the requests in HelloSign, billing counted from the rows.
- Operations: send a request to one or several employees, HelloSign's callbacks (the
  signed copy is stored, the status is set), simple signatures, status changes, cancel,
  create and delete the requests of an onboarding.
- Hard: inserts and uploads nobody awaits against callbacks that come first; callbacks
  delivered again after a half-done first time; a status read many calls before it is
  written; a deletion by pointers that were read before.
- Correct when: what is signed has its copy, once; what HelloSign completed is recorded;
  what was made there is billed; the company's own document survives; an onboarding
  makes its requests once.

### E-signature documents (`integrations/esignature`)

- State: `dbo.FileMetadata` and `dbo.EsignatureMetadata` (company documents), the objects
  of the bucket with their metadata, the events of the bucket.
- Operations: hand out a signed upload URL, record an upload when the bucket reports it,
  create, edit, replace and delete a document, save an onboarding's documents.
- Hard: what an upload means is carried by the metadata of the object, copies included;
  events come late and twice; objects are deleted before, after or beside the row's
  update.
- Correct when: a row points to an object; an upload becomes one row; a row shows the
  last upload that replaces it.

### Tenant databases (`api/tenants`, `internal-api/database`)

- State: the databases of the RDS instances, connection strings in DynamoDB (with an
  expiry for a scheduled deletion), executions of the state machine that creates.
- Operations: create (check, placement, schema, connection string, administrator),
  schedule the deletion, undo it, back up and drop.
- Hard: counting and creating in two steps; errors swallowed in the middle; an update of
  an item that has expired creates one; records of the stream looked at once; the search
  for a database when instances are down.
- Correct when: a connection string names a complete database; no tenant has two; the
  limit of an instance holds; nothing is dropped that was kept, or before its backup.

### Company migration (`api/tenants`, `queries/companyMigrationScripts`)

- State: records in DynamoDB, linked servers, procedures, the rows that a script of 126
  statements copies, the users of both sides, the recipient's audit trigger and the job
  that enables it again.
- Operations: start a migration; in the function: link, install the scripts, disable the
  trigger and schedule the job, run the script, write the result, unlink.
- Hard: the script is not idempotent; the session outlives the function; two migrations
  share procedures, recipient and job; errors taken for results.
- Correct when: 'Success' means that everything was copied, once; each statement finds
  the rows it looks for; users can log in somewhere; the trigger comes back; a migration
  gets its final status.

### Applicant tracking (`api/applicant-tracking`, `integrations/applicant-tracking`)

- State: thirteen tables of the tenant, the audit trail, JazzHR's exports.
- Operations: 36 functions that create, update and delete a row; the export of a
  candidate (version, posting, application, attachments).
- Hard: the old values of an audit entry are read in a query of their own, and the entry
  is sent by a call nobody awaits; the company is looked at after the insert in two
  services; a find without locks.
- Correct when: every change is in the trail and the trail links up; an error changed
  nothing; an opening has one posting.

### Listings (`api/*`, `integrations/esignature`, `pagination`)

- State: none kept between two requests. A page number travels in the links of an answer,
  beside the parameters that the endpoint knows.
- Operations: a caller asks for the first page and follows `next`. A request checks the
  caller and the parameters, runs one batch of two statements (a count, and a select with
  an offset), may ask HelloSign about the rows, and makes the links from the count.
- Hard: rows come and go between two requests and between the two statements; each of
  some 50 listings has its own query, order, count, checks and way to answer nothing.
- Correct when: a walk passes every row that was there all the time, none twice, and a
  link leads to rows.

### Infrastructure

- Query execution (`util.service.ts`, `internal-api/database`): `invokeInternalService`
  calls the `queryExecutor` lambda, which finds the tenant's connection string and runs
  one query in one transaction, or a procedure in a session. When it does not find the
  database it ANSWERS an error, and the caller takes the answer for a result.
- Payroll client (`remote-services/payroll.service.ts`): GET, PUT, PATCH, POST of
  Evolution; some of them swallow errors.
- Notification: fire and forget. Audit: likewise, but its trail is a store of its own.
- WebSocket notification (`api/ws-notification`): connections and tokens in DynamoDB,
  broadcast. Security resources, authentication, errors, encryption: pure or remote.

`PROJECT.json` lists every component with its status, and the hazards of the code at
their lines with the properties that would catch them.

## 2. How the code is modelled

- A request, or the function that serves one row, file or user, is a process. Its
  handler is cut at every remote call: a query, an API call or an S3 call is ONE step,
  and between two steps any other process may step. What the code does between two
  calls belongs to the step of the call before. `pc`, `step`, `call` or `phase` name the
  next call; the locals that are used after a call are variables, those that are not are
  left out.
- `Promise.all` and `Promise.allSettled` over a list are a step function per member,
  interleaved; a promise that nobody awaits is a set of pending effects of its own.
- A call goes wrong in one of these ways, each bounded by `MaxFailures` and counted in
  `failures`:
  - `refused`: it has no effect and the caller gets an error;
  - `lost`: it has its effect and the caller gets an error all the same (a timeout, a
    broken connection);
  - `missed`: `queryExecutor` does not find the database, answers `ErrorMessage` in its
    body, and `util.service.ts:574` does not recognise it, so that the caller takes an
    error for a result;
  - `died` (import only): the function is stopped.
- In DirectDeposit and GroupTermLife a failed call ends the request, so `Fail(r)`
  (`GtlFail(r)`) stands for a refusal or a lost answer at any step: the effect is, or is
  not, in the state already. It also stands for `missed`: the handlers of deposits read
  records out of every answer, so that a miss throws, and a record of group term life that
  was missed is not written, though it is answered as a success (the properties do not look
  at the answer). There is no bound on these failures. A PUT to Evolution that is
  refused does NOT end a request (`payroll.service.ts:44`): `EvoPut` has that outcome.
- Data are members of small sets. What a property can tell apart is kept: the form in
  which an account is stored, the rounding of a column (`StoredNumber`, `StoredHours`),
  the truncation of an amount (`TruncatedAmount`), a status. Names, addresses and
  messages are not.
- What is outside `src/` is modelled from its use and marked external in `PROJECT.json`:
  the HR application's approvals, Evolution, HelloSign's rules on names, the state
  machine of the import.
- The modules of this sort that follow a store through many operations
  (SignatureRequest, EsignDocument, ApplicantTracking) have calls numbered as they arrive.
  A call that starts beside another uses up one of `MaxTrouble`, like a call that fails
  or an event that is delivered again. A history variable (`happened`, `had`) remembers
  what went wrong and where, and a property names the exceptions that the code leaves:
  what it says is that NOTHING ELSE breaks it. Each exception is a behaviour of the code,
  described in section 7.
- A definition whose comment starts with "Mutant:" stands before the definition it is a
  faulty version of. It is not used by the specification; it is there to show that the
  properties can fail.

## 3. The modules

| Module | Code | State and actions |
|---|---|---|
| `ServiceRequests` | | What the next module and `GroupTermLife` share: `req`, the locals of each invocation, and its next step; `met`, a history of what came between an invocation and what it works on. |
| `DirectDeposit` | `direct-deposit.service.ts`, `payroll.service.ts`, `queries/direct-deposits` | `live`, `dd`, `nextId`: the table. `nacha`: the flag. `synced`, `ed`: Evolution. `req`: the locals of each invocation. History: `met`, `unseen` (rows that the duplicate check of a request has not seen), `astray` (what the handlers cannot prevent, with the rows it befell). Actions: `Start`, the steps of create, update and remove, `Evolution` (keys, GET, PUT, shared by the last two), `ClearCache`, `Fail`; external: `Decide`, `SyncToEvolution`, `SwitchNacha`. |
| `DepositAmount` | `direct-deposit.service.ts` (the truncation in create and update) | What `parseInt('' + amount * 100, 10) / 100` stores in double precision, computed in integers from the two roundings. |
| `PayrollFirst` | none: an abstract specification | `hr` and `payroll` of each key, `told` of each writer: what it has told payroll and HR has not taken over. `PayrollLearns(w, k, v)`; `HrFollows(w)`: HR takes over what its writer told payroll; `GivesUp(w)`. |
| `GroupTermLife` | `gtl.service.ts`, `queries/gtl` | `rows`, `evo`, `salaried`, `req`. History: `met`, `extra` (records inserted although another create's came after the check). Actions: `GtlStart`, `ReadEmployee`, `ReadExisting`, `UpdateEvolution`, `WriteRecord`, `GtlFail`, `Reclassify` (external). |
| `CompanyPatch` | `companyUpdate`, `util.service.ts` | What the instructions of a patch share, extended by the next three modules: `undo` (the actions that undo an instruction), `phase`, `failures`; how a call goes wrong; a later instruction fails; the rollback ends. |
| `DocumentMove` | `handleEsignatureDocs` | `keys`: the key each file is listed with and the one it gets. `bucket`, `pointer`: S3 and `dbo.FileMetadata`. `step` of each file. Actions: copy and point of each file and their failures, `SettleFiles`, `DocumentLater`, the undo actions. |
| `HelloSignMove` | `updateHelloSignConfigurations`, `hellosign.service.ts`, `integrations.service.ts` | `apps`, `config`: the two services. `call`, `local`: the instruction. Actions: one per call, one per undo action, `HelloSignLater`, `Retry`. |
| `SsoPatch` | `handleSsoPatch`, `sso.service.ts` | `donor`, `created`, `key`: accounts and `dbo.HRnextUser`. `stage`, `todo` of each user. Actions: one per call of copy, remove and test, `SettleUsers`, `Enable`, `Patch` (a new one). |
| `CompanyUpdate` | `companyUpdate` | `path`: the instruction of the patch that is followed. Actions: a step of that instruction. Extends the three modules above; the stores of the other two stand still. |
| `EmployeeImport` | `EmployeeImport.Service.ts`, `handler.ts`, `queries/employee-import` | `event`, `status`: the import and its rows. `machine`, `ending`: the state machine and the work it does not await. `step` and the locals of each row; `skipped`: rows for which payroll was passed over though nothing failed. `hr`, `updated`, `wages`, `evo`: the stores. Actions: one per call of the machine and of a row. |
| `EsignCalls` | | What the two modules below share: numbered calls, the bucket, `uploads` not awaited, the history `happened`. |
| `SignatureRequest` | `esignature.service.ts`, `esignatures.service.ts`, `queries/esignatures` | `about`, `hs`, `row`, `files`, `stored`: the requests, HelloSign and the tables. `inserts`, `uploads`, `cancels`, `events`: what was sent and not awaited. `call`: the functions that run. Actions: one per remote step of sending, callback, signing, cancelling, onboarding and its deletion; what lands or is lost later; `SignAtHelloSign` (external). |
| `EsignDocument` | `esignature.service.ts`, `util.service.ts`, `queries/esignatures` | `url`, `used`: signed URLs. `stored`, `rows`, `metas`: bucket and tables. `raised`, `uploads`, `removals`: not delivered or not awaited. `names`, `latest`: names given out, the last upload for each row. Actions: `GenerateUrl`, `PutObject`, the steps of `saveUploadedDocumentMetadata`, of create, edit, replace, the two deletions and the saving of an onboarding; `PatchCopies` (the copies of DocumentMove). |
| `TenantDatabase` | `tenants.service.ts`, `handler.ts`, `serverless.yml`, `database.service.ts` | `db`, `conn`, `down`, `admin`: the stores; `load`: the databases of other tenants on each instance. `creation`, `patch`, `stream`, `deletion`: executions, requests, the stream and its function. Actions: one per state of the machine and per step of the functions; `Expire`, `GoDown`, `ComeUp` (external). |
| `MigrationStatements` | `queries/companyMigrationScripts` | The 126 statements of the procedures as data: what each inserts, updates or deletes, which tables it looks into, in the order of the script. |
| `CompanyMigration` | `company.service.ts`, `createCompanyMigration.sql`, `util.service.ts` | `item`, `run`, `to`: record and function of each migration. `links`, `procs`, `session`, `erred`: linked servers, procedures, the executor's session. `keyed`, `donorActive`, `activeAt`, `trigger`, `job`: what the script and the job leave. Actions: one per call of the function, one per statement, one per way to go wrong. |
| `ApplicantTracking` | `api/applicant-tracking`, `createApplicantData`, `audit.service.ts`, `queries/applicant-tracking` | `rows`, `audit`: tables and trail. `call`, `sent`: functions and entries on their way. Each of the 36 functions is an operator that names its checks, over shared steps (`InsertRow`, `ReadBack`, `ReadOld`, `WriteRow`, `DropRow`, `LogChange`); `createApplicantData` is the export. |
| `Pagination` | `util.service.ts`, `pagination`, `query.ts`, `Role.ts` | No state. A caller is a record of what the checks look at, the parameters are a function. A listing is its *plan*: refused, or the order of its rows, what its total counts, whether its rows are kept aside, the size of a page, whether rows are dropped after the query, what an empty answer is. |
| `TenantLists`, `EsignLists`, `ImportLists`, `ApplicantLists` | the handlers, services and queries of 53 listings | Per listing three operators, of the query, the service and the handler, that make the plan of a caller and his parameters. |
| `Listings` | `pagination.service.ts`, `paginatedResult.ts` | `table`: the rows. `walk`: the plans of the first request and of those made from a link. `stage`, `page`, `counted`, `total`: the request. `read`, `stayed`, `marks`: history. Actions: `Ask`, `Follow`, `Refuse`, `CountRows`, `SelectPage`, `QueryFails`; `Enter`, `Leave` (rows of other requests). `MCListings` computes the walks from the four modules of lists. |

`MC*` modules give the functions among the constants their values. `*Proofs` modules
hold the theorems. `GroupTermLife` is shown to implement `PayrollFirst` under the mapping
`hr` = the figures of the table's row, `payroll` = the figures of Evolution as the
table's columns would store them, `told` = for a request that is past its PUT, the employee
and the figures that it is about to write.

History variables: `met`, `unseen`, `astray` of `DirectDeposit`, `met` and `extra` of
`GroupTermLife`, `skipped` of `EmployeeImport`, `before` of `SsoPatch`, `happened` and `had`
of the modules with numbered calls, `marks` of `Listings`, `failures` everywhere; no action
reads them except for the bounds.

The names of the three patch modules are disjoint (`DocumentSpec`, `SsoSpec`,
`HelloSignSpec`, ...), so that one module, `CompanyPatchProofs`, can extend them all.
`DirectDeposit` and `GroupTermLife` are disjoint in the same way, for `PayrollProofs`.
The patch modules share the variables of `CompanyPatch`: each has a specification of its
own (`DocumentSpec`, ...), and `CompanyUpdate` is their composition, a patch of which any
one instruction is followed. `LaterInstructions` is the rest of the patch: it succeeds, or
one of it fails and the rollbacks are run, or the rollback of one of it throws and
this instruction is never undone (phase "abandoned").

Where a choice was not obvious:

- DirectDeposit has no assumption on what may happen at once: requests overlap, the HR
  application approves and synchronises a row while a request works on it, the flag is
  switched between any two steps, and a PUT to Evolution may be refused, which
  `payroll.service.ts:44` swallows. None of this is prevented by the code, so the properties
  hold only up to it, and the history variables say up to what exactly: `unseen[r]` are
  the rows that the check of request r could not see, because they were inserted or changed
  after it or because it compared the account in another form (a token, or none);
  `met[r]` says whether r's PUT was refused, its deposit was approved since r fetched it, or
  another request changed the ED since r's PUT. `astray` keeps, for the rows concerned, what
  came of it. Each property says that NOTHING ELSE breaks it.
- GroupTermLife's `OmittedKept` says that Evolution keeps the fields that a PUT leaves
  out. Evolution is outside the repository, so both are modelled; the run and the
  refinement take the one (a PUT replaces) under which the code works. With the other a
  create may leave an old figure in payroll that HR does not have.
- DocumentMove takes any layout of keys. The code forms keys from recipient, employee
  and file name: two files of one employee with one name get the same key, and the second copy
  replaces the first; `DocumentsFound` excepts a file with a key that the move of another one
  writes to (`Apart`), and `Atomic` excepts nothing. A patch that is sent again finds the
  files at their new keys: S3 refuses a copy onto itself, so the patch is refused
  (`OntoItself`).
- HelloSignMove gives the applications names, since HelloSign refuses duplicate names
  (the comment in the code says so) and the code works around it with ' donor'.
- SsoPatch models a user's accounts as a sequence: `key` n points at the nth account
  that was created in the recipient's tenant, 0 at the donor's account.
- EmployeeImport: a row may end as processed although payroll was not written: when the
  keys of the client or the company are missing, when Evolution's answer has no `results`,
  and when it has no rates for the employee. These outcomes are the branches of `ReadWages`
  and `ReadRates` that put the row among the `skipped`.
- EmployeeImport leaves out the Active column of events and the clearing of the cache.
  `Concurrencies` says how many rows the machine may serve at once; since the machine is
  not in the repository both serial and parallel machines are checked. Neither is the
  machine of an import in bulk: it is assumed to call the same status functions, and the
  rows' companies to be integrated with payroll all or none. With a company code the
  scripts for bulk are used, which check the code of the company as well. A failure of
  the report of a failed row is reported again by the outer catch.
  `EntriesFollow` is stated for the serial one.
- CompanyMigration: the session stops at any error of a statement, except that a missing
  procedure is passed over (error 2812 ends the statement, not the batch), and a missing
  linked server either way. The donor is assumed to have rows in every table. Function
  and executor have the same 900 s, so a function may be killed while its session goes
  on (`Kill`); a batched query is answered after both of its calls.
- TenantDatabase: an expired item is delivered by the stream in batches, of which the
  handler reads the first record. An update of a missing item that only removes an
  attribute may or may not create the item: DynamoDB's choice.
- EsignDocument: `Init` has one company document and one copy that an employee signed.
  `MaxRows` bounds the rows. The metadata of an object travel with its copies
  (CopyObject) and each copy raises the event of the bucket again (external). A replacement
  gets the client's file name as its key, with a suffix if an object has that key: the name
  may be one that others have used (`KeyFor`) or a new one (`FreshKey`). A key that is free in
  the bucket but in use by a call or a row is noted as `sameKey`. A key is a
  name with the number of times it was moved down a folder and to another folder, so that
  copies and originals are disjoint for any number of names. The attempt to prove
  `PointsToObject` and `ShowsLatest` showed that they were false beyond two calls: an
  onboarding moves a signed document that the employee had uploaded anew, and the event of
  the copy, whose metadata still say that it replaces the row's file, deletes the copy
  once the row points to it. Both properties name copies of uploads as an exception now,
  and were checked with 3 calls and 1 trouble for one upload (3.6 million states), and 3
  calls without trouble for two (3.9 million).
- SignatureRequest: the rows of FileMetadata get their ids from the calls that insert them
  (`FileOf`), since an identity column gives no id twice: a row that a deletion removed is
  not mistaken for one inserted later. `NoneAssumption` says that the value that stands for
  nothing is not a request's and not an operation's. `OnboardedOnce` makes an exception for
  an INSERT that was lost: nobody awaits it, and an onboarding that is started again then
  finds no row of the request and creates another. With a task list of both kinds the
  request at HelloSign hides this; the attempt to prove the property without the exception
  showed it, and TLC confirms it for a task list of simple documents only.
- SignatureRequest and ApplicantTracking: a statement that misses its database ends in a
  success (`Missed`, `CancelMissed`). The INSERT of a copy's row (`esignatures.service.ts:90`)
  is then followed by the mark 'Signed' (`:104`), the deletion of rows
  (`esignature.service.ts:1400`) by that of their objects (`:1412`), and an update or a
  delete of applicant tracking (`QuestionBank.Service.ts:294`, `:375`) is answered true and
  audited. The properties except the request or the row it befell.
- ApplicantTracking: the foreign keys of the tenant's schema are an assumption (the schema
  is not in the repository). Audit entries pair old and new fields by position
  (`audit.service.ts:129`), which is abstracted to a pair of row versions. `Init` may hold
  the version and posting of an earlier export. `OpeningHasOnePosting` makes its exception
  for overlaps of EVERY export, not only of those whose applications it compares: with
  three exports, the first two overlapping leave two postings of one opening, and the
  later ones, each on its own, find whichever the query returns. The attempt to prove the
  narrower exception showed this; the two calls of the run are too few to reach it.
- Listings: a page size of 0, or one that is not a number, is taken as it comes
  (`company.service.ts:112`): the query falls back to the default, the links do not, so the
  first page is the only one. The plan's size is then `"void"`.
- Listings: the order of equal sort keys is the server's choice at every query
  (`FirstRows`), so only a listing that is sorted by a unique key promises anything. The
  plans are data of `Listings`, so that its theorems hold for any listing; that the plans
  of THIS code are those of the lists' modules is what the operators say and the run uses.
  A link is answered by the same handler with the parameters that `RetrievePaginationData`
  keeps. The links `previous`, `first` and `last` are made but not walked. The page of a
  link is one more than the last one, since `encodeKey` and its reading undo each other.
  Company code, onboarding and search only choose rows: they are not told apart further.

## 4. The runs

`tlc -config X.cfg M`, as `PROJECT.json` lists them. Every run has to pass, but for the
last, whose property TLC has to refute.

| Run | Module | What it asks | Bounds |
|---|---|---|---|
| `directDepositUnique` | `MCDirectDeposit` | Two creates or updates at once, and a flag that is switched: is an account, or a remainder set by an update, doubled only behind the back of a check? | 2 requests (symmetric), 1 employee, 2 accounts, remainders only, 2 rows; 861 thousand states |
| `directDepositEvolution` | `MCDirectDeposit` | Any two handlers on one deposit, with approvals, refused PUTs and failures: is what HR shows as ended or changed so in payroll, and does payroll pay into no lost deposit, but for the reasons named? | 2 requests (symmetric), 1 account, 1 amount, 1 row; 1.63 million states |
| `groupTermLife` | `MCGroupTermLife` | Two requests at once: one record, an exclusive coverage, and the refinement of `PayrollFirst`. | 2 requests (symmetric), 6 bodies, numbers 0, 4 (rounds to 0) and 1000; 153 thousand states |
| `companyUpdate` | `MCCompanyUpdate` | Is a document always at the key its metadata names, and its move atomic; does the first HelloSign patch keep the donor's application, leave the company able to sign and, undone, restore both; does a moved company stay moved; do users keep their roles, and is the answer true? | 3 files with 7 layouts of keys; the HelloSign patch sent 3 times; 2 users, 2 roles, 2 SSO patches; 3 faults of all kinds; 214 thousand states |
| `employeeImportFaults` | `EmployeeImport` | Truth of the final status, links, failed rows, order of entries, and that the final status is written. | 3 kinds, 1 employee, 2 rows, 2 dates, 1 and 2 rows at once, single and in bulk, 1 fault; 2.94 million states |
| `tenantDatabases` | `TenantDatabase` | Complete databases, no second one, limits, drops that are due, and that expired databases are dropped. | 2 tenants, 2 instances that take 1 database and are empty or full at first, 2 creations at once, 1 patch at a time (2 in all), 1 fault; 1.85 million states |
| `companyMigration` | `CompanyMigration` | Meaning of 'Success', references, users, trigger, no second copy, and that a migration settles. | 2 migrations into 1 or 2 recipients, 126 statements, 1 fault or 2 beside each other; 823 thousand states |
| `signatureRequests` | `SignatureRequest` | Copies of what is signed, nothing twice, billing, completion. | 2 requests, 2 employees, 3 calls, 1 trouble; 3.52 million states |
| `esignDocuments` | `EsignDocument` | Rows and objects, one row per upload, the latest upload. | 2 uploads, 2 calls, 4 rows, 1 trouble; 2.93 million states |
| `applicantTracking` | `ApplicantTracking` | The audit trail, errors, one posting per opening. | 2 calls of the 36 or exports, 2 companies, 1 trouble; 498 thousand states |
| `listings` | `MCListings` | Does a walk through each listing miss no row, repeat none, and end where the rows do, but for the reasons named? | 53 listings, callers of all roles, parameters present, missing, empty and wrong, page sizes that are void; 4 rows, pages of 2 and 1, 2 rows that come or go, 4 pages; 381 thousand states |
| `listingLinks` | `MCListings` | Is the link of a page of an employee's licenses, certificates, reviews or classes, or of the resources of a security group, one that the endpoint answers? It is not (section 7). | the same, without parameters |

Six more configurations each check one property that TLC REFUTES; they are not part of
the list because nothing has to pass there. They reproduce the counterexamples of section 7:
`DirectDepositRemainder` (`MCDirectDeposit`), `DirectDepositAmount` (`MCDirectDeposit`),
`HelloSignMoveRetry` (`HelloSignMove`), `SsoPatchTest` (`MCSsoPatch`),
`EmployeeImportEmpty` (`EmployeeImport`), `SignatureDeletes` (`SignatureRequest`).

Why the bounds are enough to be worth something:

- Two requests, rows, users or import lines are needed for an interleaving of two, and
  the checks of these handlers are between a request and ONE other. Three files are
  needed for a stack of undo actions in which one file's actions are apart and another's
  lie between them; the proofs then cover every number.
- Two rows of deposits, of which one has the same account as the other, are enough for a
  duplicate. Ids are never used again, so a longer life of the table only adds rows that
  were deleted. `DepositsUnique` speaks of pairs; amounts play no part in it, and an update
  to a remainder stands for every update. The other properties of DirectDeposit speak of one
  deposit, so one row suffices for the two requests that meet there.
- Failures: one fault makes a handler take an error path, the second makes the
  compensation fail, the third is one more than any path needs. In the import one fault
  at a time is checked with liveness; its safety properties were checked with two as well
  (8 million states, before imports in bulk were added).
- Amounts are counted in tenths of a cent. What the truncation does is DepositAmount's
  subject (`DirectDepositAmount`). In group term life, 4 thousandths is a number that the
  client may send, the validation accepts, and the column stores as 0.
- Two tenants, migrations, requests, uploads or calls are what an exception or an
  interference needs; a third call of SignatureRequest lets a callback come between the
  two calls of an onboarding. One trouble at a time keeps the exceptions apart: with two,
  a property could hold only because its exceptions had become too many.
- An instance takes one database (the code's limit is 100), and each may hold one of
  another tenant from the start: both full, one full, or none, so that a creation is
  refused, finds one place, or races for it with another. The code refuses when the smallest
  count EQUALS the limit (`tenants.service.ts:170`); a race that overshoots it lets later
  creations pass.
- Four rows are two full pages of two, so that one row that leaves shifts a page and a
  second one empties it; the theorems cover every number.
- Dates 1 and 2 allow equal, earlier and later; an open end is a third.

Deadlock is checked where the system never stops (DirectDeposit, GroupTermLife, Listings:
a request can always be started). Everywhere else the numbered functions, files or users
end, and the configurations say `CHECK_DEADLOCK FALSE`.

Every property has a mutant in `PROJECT.json`: a definition with a plausible bug (a
dropped guard, a wrong order, an error that is only logged) under which the same run
finds the property violated.

### The properties

- `DepositsUnique` (DirectDeposit): the uniqueness of accounts, and of remainders set by
  an update, which the service checks before it inserts or updates. A pair is excepted only
  if the check of the one could not see the other: it came, or changed, after that check was
  over, or it is stored in the other form than the one that was looked for.
- `EndDateInEvoFirst`, `UpdateInEvoFirst`, `NoOrphanEd` (DirectDeposit): HR against
  payroll, across failures and overlapping requests. The exceptions: the PUT was refused; the
  row was approved between the fetch and the write; another request wrote the ED in between.
- `OneRecord`, `CoverageExclusive`, `PayrollIsFirst` (GroupTermLife): the record (one, and
  one more for each create that had looked before another one inserted), what the columns
  made of it, and the refinement.
- `DocumentsSafe` (CompanyUpdate; `FoundThroughout` and `AtomicUnlessMisled` of
  DocumentMove): "misled" means that a caller was told something else than what its call
  did (lost, missed). Refused calls, in any number and also of the rollback itself, never
  hide a document, but for one whose key the move of another file writes to; nor does any
  failure before the undo begins.
- `ApplicationSafe` (CompanyUpdate; `FirstPatchIsSafe` of HelloSignMove) and
  `MovedStaysMoved` (HelloSignMove). The last is a temporal safety formula: a patch sent
  again to a company that was moved changes nothing.
- `AccountsSafe` (CompanyUpdate; `MigratedWithRoles` and `AnswerIsTrue` of SsoPatch).
- `StatusTellsTruth`, `LinkedMeansInEvo`, `FailedLeavesNothing`, `EntriesFollow`,
  `FinalStatusWritten` (EmployeeImport). A processed row is in HR, and in payroll unless
  payroll was `skipped` for it.
- `ServedIsComplete`, `DoubledOnlyIfBlind`, `WithinLimit`, `DropIsDue`, `ExpiredIsDropped`
  (TenantDatabase). The last two are an action property and a liveness property.
- `SuccessIsComplete`, `ReferencesFound`, `UsersKept`, `TriggerRestored`, `CopiedOnce`,
  `MigrationSettles` (CompanyMigration), likewise the last two.
- `ObjectsKept`, `NothingTwice`, `BilledIfAtHelloSign`, `CompletedIsRecorded`
  (SignatureRequest), with `TrailLinks` below, except what a statement that missed its
  database was about.
- `PointsToObject`, `UploadedOnce`, `ShowsLatest` (EsignDocument).
- `TrailComplete`, `TrailLinks`, `ErrorMeansNoChange`, `OpeningHasOnePosting`
  (ApplicantTracking).
- `WalkExact` (Listings; `NothingMissed`, `NothingRepeated` and `LinkLeadsOn`): what
  offsets can promise at best, with each reason for which they fail named: a row left, rows
  changed within one request, nothing of a page was kept, the page size is void, a row came.
  Taken away one by
  one, each of these exceptions is refuted by the run.

## 5. Liveness and fairness

Three systems have work that must end without a client asking again: the import, the
deletion of an expired database and the migration. The other operations are requests
that end by returning an answer or an error.

`EmployeeImport`:

- weak fairness of the machine's steps: Step Functions calls the next function while an
  execution runs;
- weak fairness of each row's function: it makes its next call, or a timeout of the
  Lambda service ends it (`died` is one of the faults);
- weak fairness of the work that `setCompletedStatusGlobal` and `setFailedStatusGlobal`
  leave behind when they answer: it is either done or the process is frozen with it;
- none for a POST of a wage that nobody awaits: it may never arrive.

`FinalStatusWritten` says that an import with rows that was started gets its final
status unless a call went wrong or that work was frozen. The exception is as the code
has it: a promise that a Lambda function does not await may stop with the function.

`TenantDatabase`: weak fairness of the delivery of the stream (Lambda polls it), of the
steps of the function that deletes, and of the return of an instance (maintenance ends).
None for creations, requests or expiry. `ExpiredIsDropped` says that an expired database
is dropped unless a call went wrong, its record came behind another one in its batch, or
the tenant had two databases.

`CompanyMigration`: weak fairness of each function and of each session: both run on, or
are killed. `MigrationSettles` says that a pending migration gets its status unless its
function is killed or the status cannot be written.

## 6. Proofs

`tlapm` checks these modules from nothing; no step is left unproved.

| Module | Theorem | Assumptions | Invariant |
|---|---|---|---|
| `PayrollProofs`, direct deposits | `TypeCorrect`: `TypeOK` | none | `TypeOK` is inductive: a request has exactly the locals that its handler assigned at its step (three record types, one per handler). |
| | `EdsHaveDeposits`: `NoOrphanEd` | none | `OrphanInv`: a request that is about to delete a row found it pending; either it still has no ED, or its approval was met (`DeletesPending`), and then the step that deletes it puts it among the `astray`. |
| | `EndDatesReachEvoFirst`: `EndDateInEvoFirst` | none | `EndDateInv`: a request that has passed the PUT of its delete has a deposit with an ended ED, or its PUT was refused (`met`), or an update took the end back and the deposit is `astray` (`EdLocals`); no other step takes it back (`EndsKept`). |
| | `DuplicatesRefused`: `DepositsUnique` | none | `UniqueInv`: an account or remainder that a check found free (`FreshAccount`, `FreshRemainder`) is free until the request's own write, many steps later, up to the rows in `unseen`; and what is written over one of these is `astray`. |
| | `UpdatesReachEvoFirst`: `UpdateInEvoFirst` | none | `MirrorInv`, with `UniqueInv`: when an update is about to write an approved row, Evolution holds what the body asks for (`Told`), or the update has met a refusal, an approval or a change. |
| `PayrollProofs`, group term life | `GtlTypeCorrect`: `GtlTypeOK` | none | `GtlTypeOK` |
| | `RecordUnique`: `OneRecord` | none | `RecordInv`: a create that is past its look has an employee without a record, or has met one that was inserted since (`Knows`). |
| | `OneKindOfCoverage`: `CoverageExclusive` | none, any number of requests at once | `CoverageInv`: a body that passed the validation gives a row with one kind of coverage, and the rounding of a column makes no figure NULL (`ColumnKeeps`). |
| | `ImplementsPayrollFirst`: `PayrollIsFirst` | `~OmittedKept` | `TellInv`, with the types: a request that is about to write holds figures that its PUT put into payroll. Each step maps to `PayrollLearns`, `HrFollows`, `GivesUp` or a stutter. |
| `CompanyPatchProofs` | `DocumentsInReach`: `FoundThroughout` | none | `ReachInv` for what happens while no caller is misled; for the rest, that no file is deleted before the undo begins (`CopiedFirst`). `ReachInv`: the order of the stack. A file's "delete" lies below its "repoint", so that a copy is deleted only when the pointer is back; a pointer at a new key has its copy, unless another file's move writes there. |
| | `MoveIsAtomic`: `AtomicUnlessMisled` | none | `UndoInv`: a pointer at a new key has a "repoint" on the stack, until the instruction is done. |
| | `FirstPatchSafe`: `FirstPatchIsSafe` | none | `HelloSignInv`: while the patch is sent the first time, what the calls before its step have done (`HelloSignForward`), and, as long as no answer was lost, what is not on the stack to be undone is as it was before (`HelloSignRestorable`). |
| | `MovedForGood`: `MovedStaysMoved` | none | `MovedInv`: a move that has succeeded has taken the donor's configuration away. From then on the companies are `MovedOver`: an attempt that reads no configuration of the donor writes nothing and has nothing to undo. |
| | `RolesFollowUsers`: `MigratedWithRoles` | none | `SsoInv`: for each user, at "addRoles" the new account has the roles that are no longer to be added, at "point" all; the account that the key names is never the one in the making. |
| | `SsoTypeCorrect`: `SsoTypeOK` | none | `SsoInv` and `AnswerInv` |
| | `AnswerTrue`: `AnswerIsTrue` | none | `AnswerInv`: who counts as updated was served (`Served`); while no answer is lost, an account that was enabled and is not any more is on the stack until the rollback has emptied it (`SsoRestorable`). |
| | `DocumentsAreSafe`: `DocumentsSafe`; `ApplicationIsSafe`: `ApplicationSafe`; `AccountsAreSafe`: `AccountsSafe`; `PatchedStaysMoved`: `MovedStaysMoved` | none | The same for `UpdateSpec`: the invariants of the instruction that `path` names, and that the others stand still. A step of the patch is a step of its instruction, so each theorem takes the lemmas on that instruction's steps over (`FollowsDocuments`, `FollowsApplication`, `FollowsAccounts`). |
| `EmployeeImportProofs` | `KeysAreOfPayroll`: `LinkedMeansInEvo` | none | `IInv`: per row, what its function has done by each of its steps (`RowInv`): after the insert its entry is there, and stays whatever other rows do; its own number is among the rows it patches; at "link" payroll has it. |
| | `FinalStatusIsTrue`: `StatusTellsTruth` | none | the same `IInv`: unless a write missed its database, a row was answered as failed, or as processed and is in both stores, or in HR alone when payroll was skipped; the final status is derived only when every row was answered, and no row changes after that (`MachineInv`). |
| | `NothingIsLeft`: `FailedLeavesNothing` | none | `SettledInv`: at its rollback a row has already used up a refusal, or was bound to fail; after it its entry is gone, is known to payroll, or the rollback was refused as well. |
| | `EntriesInOrder`: `EntriesFollow` | none; the property itself is about rows served one at a time | `OrderInv`: the entry of the row that runs is the last of its employee (`Newest`), so that it may be deleted without parting others; what the script found of the dates holds until the insert. Where an entry has others after it, there is a next one (the least of their ids). |
| `DatabaseProofs`, tenants | `TypeCorrect`: `TypeOK` | finite sets of tenants and instances | `TypeOK`, with what each function has found by its steps (`Locals`). |
| | `PublishedLast`: `ServedIsComplete` | the same | `Course`, for a tenant that never had two databases and whose deletion was not delivered twice: its database is in creation, or published, or to be deleted, and its level is that of its creation's step. |
| | `SecondNeedsBlindCheck`: `DoubledOnlyIfBlind` | the same | `Checked`: of two creations that passed the check for one tenant, or one for a tenant with a database, the later check was blind. |
| | `LimitKept`: `WithinLimit` | the same | `Placement`: unless two were placed at once only one creation has counted, and what it counted is not exceeded when it creates. |
| | `NothingElseIsDropped`: `DropIsDue` | the same | `One`: the function that drops has a backup of the only database there is; and `Course`. |
| `DatabaseProofs`, listings | `WalksAreTyped`: `ListingTypeOK` | finite rows, positive page limits (a plan of void size uses none), sort keys, and that a link is answered as the first request was or refused | `ListingTypeOK`, with that a selected set of rows is finite. |
| | `WalksAreExact`: `WalkExact` | the same | `WalkInv`: as long as no row left, the rows read are those with the smallest keys (`ReadBefore`) and every other row lies behind them (`UnreadBehind`), as many as `page * limit`; the total is that of the rows counted (`TotalKept`), and a walk that ended passed all of them (`EndedWhole`, `MoreBehind`). The lemmas count: of two prefixes in one order the smaller is within the larger (`RanksGrow`, `FirstRowsByRank`), and a page is what lies between two of them (`PageRowsByRank`, `PagesAreFull`). |
| `CompanyMigrationProofs` | `TypeCorrect`: `TypeOK` | none | `TypeOK`, with what a function and a session know by each of their steps. |
| | `SuccessMeansCopied`: `SuccessIsComplete` | none | `IInv`, its part `Course`: what a migration did by each step; a session whose answer is awaited ran the statements up to its place. |
| | `NobodyLockedOut`: `UsersKept` | none | `Copied` and `CopiedActive`: the users were copied, as active ones, when the session stands behind the copy; `ScriptGuarded`, a lemma on the script itself: in the concatenation of its procedures the lock-out comes after the copy. |
| | `ReferencesAreFound`: `ReferencesFound` | none | of the script: the statements are taken in groups (what is copied, filled in, deleted), and each table is shown to have been copied by an earlier place of the concatenation than the one that looks into it (`AllFindRows`); and of the function: the session stands where the statements before it ran (`Course`). |
| | `TriggerComesBack`: `TriggerRestored` | none | the same `IInv`: the trigger and the job that enables it. |
| | `ScriptSentOnce`: `CopiedOnce` | none | an action property: only the step before the call has no session yet, and no step leads back to it. |
| `ApplicantTrackingProofs` | `ErrorsChangeNothing`: `ErrorMeansNoChange` | none | `ErrorInv`: rows refer to rows, and a choice to one question, whose company is its own (`RowInv`); per call, what it knows by its steps (`Knows`), and that before its statement it has written nothing (`NotYet`). |
| | `ChangesAreTold`: `TrailComplete` | none | `TrailInv`, with `ErrorInv`: a call that has changed a row is on its way to `LogChange` with that row, or its entry was sent or is in the trail (`Trailed`); a row that is read back is as it was inserted, unless a call ran beside (`Fresh`); calls that are under way at a time are known to be (`Overlap`). |
| | `TrailIsLinked`: `TrailLinks` | none | `LinkInv`, with the two: unless calls overlapped, what a call has read as old is what the row holds until its statement, and nobody has told of it yet (`LogInv`); a row has left the values that an entry starts from, and never has them again, since a call writes its own (`Linked`). |
| | `OnePostingEach`: `OpeningHasOnePosting` | none | `PostInv`, with the three: as long as no export overlapped and the API left postings alone, an opening has one version and one posting, or neither, and exported applications are for that posting (`OnePosting`); what an export found, or did not find, is still so when it writes (`Found`). |
| `SignatureRequestProofs` | `CopiesAreKept`: `ObjectsKept` | none | `ObjectInv`: a copy is uploaded before, or while, its row is written (`CallBacked`), and a deletion takes the objects only of requests whose rows it has removed (`Takes`). It needs `FileInv` (which call wrote which row of FileMetadata, and that a row of one request never refers to another's) and `RowKept`. |
| | `SignedAndOnboardedOnce`: `NothingTwice` | none | `OnceInv`: of a request that nothing raced for, one call at most is making a copy, and it found none (`OnceFor`). `OnboardInv`: an onboarding that found no request of a kind is the only one that runs, and every request it made before has left its list of kinds. |
| | `BillsWhatWasMade`: `BilledIfAtHelloSign` | none | `BillInv`: a request is in the table, or its INSERT is on its way, was lost or undone; a row without a file is one of HelloSign's. |
| | `CompletedRecorded`: `CompletedIsRecorded` | none | `RecordInv`: a completed request has its event, or a call that copies it, or is signed with its copy; a copy is followed by its mark (`Followed`). |
| `EsignDocumentProofs` | `RecordedOnce`: `UploadedOnce` | none | `UploadInv`: an upload that has its row is announced by no event and brought by no call (`OnceOk`). It needs `OriginInv` (what a key, an event, a row and the locals of a call say of the upload they come from) and `KeyInv`: of a key that was not repeated there is one event, or one call that brings it, or it is taken by one row. |
| | `RowsPointToObjects`: `PointsToObject` | none | `PointInv`: the object of a row is in the bucket or on its way, and is not being deleted, while no call has begun to replace, move or drop it (`Removing`, `Moving`, `CopyingCompany`). With it: the calls on a row are known to be two (`BesideInv`); what a call read of a row is true as long as it is alone (`ReadInv`); a call brings a key whose object is there (`BroughtInv`); the signed copy is deleted only after it was moved (`SignedInv`). |
| | `LatestIsShown`: `ShowsLatest` | none | `LatestInv`: as long as uploads to a row came in order, its events, objects and calls are of the last one (`InOrder`), which the row shows or which is announced (`LatestOf`). |

The constants are arbitrary: any number of requests, employees, accounts, rows, files,
users, roles and failures, any rounding and any truncation that keep to the assumptions
of the modules. Each of these properties was checked by a run before it was proved.

No theorem assumes that requests come one at a time, that a caller is alone, or that a call
succeeds: they hold for every interleaving, and what the code cannot prevent is an exception
named in the property. (`EntriesFollow` has its condition, one row at a time, in the
property.) The one hypothesis is `~OmittedKept` of `ImplementsPayrollFirst`: with an Evolution
that keeps what a PUT leaves out, payroll may hold an old figure that HR does not have, and the
handlers do not implement `PayrollFirst`. Which of the two Evolution does is not in the
repository.

Out of the prover's reach, and left to TLC: liveness under fairness and `ENABLED`
(`FinalStatusWritten`, `ExpiredIsDropped`, `MigrationSettles`), and induction over data,
that is what a recursive definition computes for every input. Every safety property of a
run that has to pass is proved.

`DocInv`, the invariant of `EsignDocumentProofs`, is the conjunction of the types
(`DocTypes`) and the nine parts of the table; the parts need one another, so they are proved inductive together
(`DocInductive`): who owns a key is known only while the rows are known to point where
the calls read, and a row keeps its object only because no second key leads to it.
`DocNoneAssumption` says that the value that stands for nothing is no signed URL and no
operation.

## 7. Disagreements between the code and what it says

`PROJECT.json` quotes the sentence that each contradicts. The first five, the eighth and
the twelfth have a configuration of their own (section 4); the others are named exceptions of
properties, which TLC refutes as soon as the exception is taken away.

1. `RemainderUnique`: create stores the code 'Balance', the duplicate query looks for
   'Balance Remainder', so two created remainders are accepted.
2. `WholeCentsKept`: `0.29 * 100` is 28.999999999999996 in double precision, and its
   integer part is 28. The amount was to be truncated to two decimals, and had two.
3. `DonorAppKept`: if the first update of the recipient's configuration takes effect and
   its answer is lost, nothing is undone. The patch that is sent again reads the donor's
   client id as the recipient's, and deletes that application.
4. `TestSucceeds`: the operation 'test' counts nobody as updated, and the check that
   follows takes this for a failure.
5. `EveryImportEnds`: a file with a header and empty lines becomes an event without rows,
   which stays 'Processing'.
6. `deleteOnboardingDocuments` deletes rows of requests that billing counts.
7. A canceled request, whose status is terminal, can be signed by `createSimpleSignDocument`.
8. `DeletesItsOwn`: the deletion of an onboarding's documents takes every signed document
   of the employee.
9. An event of the bucket that is delivered again deletes the object that it first
   recorded (`esignature.service.ts:3972`), and so does the event of the copy that an
   onboarding makes of an uploaded file, once the row points to the copy.
10. An `ErrorMessage` in a body is not recognised (`util.service.ts:573`): a migration may
    become 'Success' with nothing copied.
11. The size of every attachment is NaN (`applicant-tracking.service.ts:22`): an export
    fails after its application was created, and sent again creates it again.
12. `NextReturnsResults`: the licenses, certificates, reviews and classes of an employee,
    and the resources of a security group, read a parameter that has to be there as soon
    as there are any (`employee.service.ts:304`). The link of a page that was asked for without parameters
    has only a token: it is refused.

Seen with other constants or as exceptions of properties; each is a trace of a few steps:

- Rows of an import end as processed although payroll was skipped: the keys of client or
  company are missing (`EmployeeImport.Service.ts:2210`), Evolution's answer has no
  `results` (`:2214`, `:2327`), or it has no rates (`:2780`, `:2816`, `:2918`).
- A statement that missed its database is taken for done: a request is marked as signed
  without the row of its copy (`esignatures.service.ts:90`, `:104`), the objects of rows that
  were not deleted are (`esignature.service.ts:1400`, `:1412`), and an update or a delete that
  did not happen is answered true and audited (`QuestionBank.Service.ts:294`, `:375`).
- Two files of one employee with one name share a key after a company patch, and one of the
  documents is lost (`company.service.ts:688`). A patch of documents that is sent again is
  refused, since S3 does not copy an object onto itself.
- A page size of 0, or one that is no number, makes the first page the only one
  (`company.service.ts:112`, `pagination.service.ts:23`, `:92`).
- Two group term life creates at once insert two records (`gtl.service.ts:193`, `:215`),
  against the message at `:196`.
- With two requests, or a flag that is switched between its two reads, an employee gets
  two deposits to one account (`direct-deposit.service.ts:257`, `:275`).
- With a payroll API that refuses a PUT, HR ends a deposit that payroll goes on paying
  (`payroll.service.ts:44`, `direct-deposit.service.ts:734`); so does an update that
  overlaps the delete.
- The move of documents is not atomic when an update misses its database
  (`util.service.ts:574`, `company.service.ts:815`) or an answer is lost.
- The undo of the HelloSign patch leaves a ' donor' suffix when its deletion was refused
  (`company.service.ts:341`, `:364`, `:405`): the action that renames the application
  back runs before the one that frees its name, and its exception is eaten.
- The undo of an SSO removal enables an account that was disabled before (`:574`), and a
  copy that is sent again fails for every user that was moved (`:497`, `:589`).
- A patch whose instruction fails with a 404 is rolled back and answered as an empty
  success: `companyUpdate` returns undefined, which the gateway sends as 204
  (`company.service.ts:855`, `util.service.ts`, `gatewayEventHandlerV2`).
- The import of alternate rates ends the previous rate, and its rollback does not restore
  that; the previous rate may be ended before it starts
  (`queries/employee-import/insertAlternateRate.sql:99`). When the write of 'Failed'
  misses its database, a row stays processed and nothing was imported. Rows that are
  served at once do not keep the order of an employee's compensations.
- A check for a tenant that fails is an answer that it does not exist
  (`tenants.service.ts:128`): its database is created a second time. Two creations that
  are placed at once exceed the limit of an instance, and then `===` (`:170`) refuses none.
- A second record in a batch of expired connection strings is never looked at
  (`handler.ts:881`): the database stays.
- A second migration into the same recipient fails at the keys of `EsignatureMetadata`,
  after it copied everything that comes before; a later migration from the same donor
  copies users that are inactive by then. After a lost answer the linked server is
  dropped under the running session.
- A callback that comes before the insert nobody awaits (`esignature.service.ts:1008`)
  updates no row and is not sent again: the request stays pending here.
- The company patch copies an object with the metadata of its upload, and the copy raises
  the event of the bucket again: the donor's row is moved to the copy and the original
  deleted. An edit
  beside a replacement writes the old pointer back. A replacement of a company document
  through a signed URL is ignored, and its object stays unused.
- An answer or a status of an application of another company is inserted, then refused
  (`ApplicationStatusHistory.Service.ts:179`). The update of an unknown application
  answers true. Two exports for one opening beside each other make two postings.
- Listings: signature requests do not know the parameter `pageToken`
  (`esignature.service.ts:2011`), so their links are refused; without `consolidated` and for
  who is no manager their query keeps an unset `@search`, and fails. Data imports by type
  have two conditions without a word between (`listDataImportByType.sql`), and fail. A
  text with an ampersand is put into a link as it is, and cut there. An empty listing has
  no pages, so its first page gets a link to a second (`pagination.service.ts:24`). The
  total of the companies of a user who is no administrator counts all companies
  (`company.service.ts:107`). Most listings are sorted by a column that is not unique, or
  by none, and may skip or repeat rows although nothing changes.
- Not modelled, read in passing: `createJobPosting` takes `organizationType5Id` from
  `organizationType4Id` (`JobPosting.Service.ts:191`).

## 8. What is not modelled, and why

- Handlers that read one row, previews and downloads, validation of bodies against
  schemas, and security checks other than those of listings: no state changes, or pure
  decisions before a handler. Of the listings, `listAll` of the companies (all tenants at
  once) and the list of company migrations (DynamoDB) are left out.
- Companies and employees API: reads of one row; the few updates are single statements.
- Notifications and cache clearing, except for the place of `ClearCache` in the direct
  deposit handlers: nobody waits for them and no modelled state depends on them.
- The text of queries: a module models what a statement does to the columns that its
  properties speak of. Foreign tables, formats and wording are left out.
- The rest of an employee's record in Evolution: a GET followed by a PUT of the whole
  employee may overwrite what others changed; only the modelled section is followed.
- Failures of connections other than as refused, lost or missed calls.
- E-signature: HelloSign templates and configuration, the product tier and its billing
  events, legacy documents in the database.
- Two instructions of one patch in progress: they have no store in common, so each is
  followed by itself, with the rest of the patch as `LaterInstructions`.
- WebSocket connections: small and on their own. Remote and cryptographic functions
  (tokenization, encryption): opaque.
- Codes of employees: the validation of a row is one of its outcomes, so two rows that
  take one new code are not told apart.

## 9. Plan

Done: the modules of section 3 with the runs of section 4 and the proofs of section 6.

Left, in this order:

1. `ProductTier`: the tier and its billing event, with retries (`esignature.service.ts:5720`).
2. `Connections` (WebSocket): connections, tokens, expiry, broadcast.
