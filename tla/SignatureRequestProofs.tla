----------------------- MODULE SignatureRequestProofs -----------------------
(* For any number of requests, employees, functions and failures: what is      *)
(* signed has its copy, no signature and no onboarding is done twice, billing  *)
(* counts the requests made at HelloSign, and what was completed there is      *)
(* recorded here, each with the exceptions that its property names.            *)
EXTENDS SignatureRequest, FiniteSetTheorems, TLAPS

Keys == (0 .. MaxRequests) \X Paths

Rows == [there : BOOLEAN, status : Statuses, file : Nat]

Files == [id : Nat, of : 0 .. MaxRequests, key : Keys]

PlaceNames ==
  {"check", "insert", "mark", "read", "get", "upload", "tell", "list", "create",
   "listHelloSign", "listSimple", "delete", "objects", "idle", "ended"}

Locals ==
  [op : Operations \cup {None}, pc : PlaceNames, r : 0 .. MaxRequests, path : Paths \cup {None},
   key : Keys, pages : Nat, todo : SUBSET (Kinds \cup Keys), ids : SUBSET Requests]

\* The places of each operation.
Places(op) ==
  IF op = "copy" THEN {"check", "insert", "mark"}
  ELSE IF op = "sign" THEN {"read", "get", "upload", "insert", "mark"}
  ELSE IF op = "cancel" THEN {"tell"}
  ELSE IF op = "onboard" THEN {"list", "create"}
  ELSE IF op = "delete" THEN {"listHelloSign", "listSimple", "delete", "objects"}
  ELSE {"idle", "ended"}

CallType(l) ==
  /\ l \in Locals
  /\ l.pc \in Places(l.op)
  /\ l.op \in {"copy", "sign"} => l.r \in Requests
  /\ l.op = "copy" => hs[l.r] = "complete"
  /\ l.op = "sign" => l.path \in Paths /\ about[l.r] # None
  /\ l.op = "onboard" => l.todo \subseteq Kinds

InFlight(r) == \E batch \in inserts : r \in batch

Kind(r) == about[r].kind

\* A request that was not created is nowhere; HelloSign knows those that were made there.
RequestType(r) ==
  /\ about[r] \in About \cup {None}
  /\ about[r] = None => hs[r] = "none" /\ ~ row[r].there /\ ~ InFlight(r)
  /\ about[r] # None => (hs[r] # "none" <=> Kind(r) = "helloSign")
  /\ r \in events \cup uploads => hs[r] = "complete"
  /\ InFlight(r) => ~ row[r].there

StoreType ==
  /\ DOMAIN about = Requests
  /\ hs \in [Requests -> {"none", "open", "complete", "canceled"}]
  /\ row \in [Requests -> Rows]
  /\ inserts \subseteq SUBSET Requests
  /\ \A a, b \in inserts : a = b \/ a \cap b = {}
  /\ uploads \subseteq Requests
  /\ events \subseteq Requests
  /\ stored \subseteq Keys \X Nat
  /\ \A o \in stored : o[1][1] # 0 => about[o[1][1]] # None

Types ==
  /\ StoreType
  /\ DOMAIN call = Calls
  /\ \A c \in Calls : CallType(call[c])
  /\ \A r \in Requests : RequestType(r)

-----------------------------------------------------------------------------
(* The rows of FileMetadata.                                               *)

\* c has inserted no row yet.
NotInserted(c) == call[c].pc \notin {"mark", "ended"}

Marks(c, r) == call[c].op \in {"copy", "sign"} /\ call[c].r = r /\ call[c].pc = "mark"

FileRows ==
  /\ files \subseteq Files
  /\ \E f \in files : f.id = 1 /\ f.of = 0
  /\ \A f \in files :
        /\ f.of = 0 => f.id = 1 /\ f.key = Document
        /\ f.of # 0 => /\ about[f.of] # None
                       /\ \E c \in Calls : f.id = FileOf(c)
                       /\ \E p \in Paths : f.key = CopyKey(f.of, p)
  /\ \A f, g \in files : f.id = g.id => f = g

FileFresh ==
  /\ \A c \in Calls : NotInserted(c) =>
        (\A f \in files : f.id # FileOf(c)) /\ (\A r \in Requests : row[r].file # FileOf(c))
  /\ \A c \in Calls : \A r \in Requests : Marks(c, r) =>
        \A f \in files : f.id = FileOf(c) => f.of = r

FileRefers ==
  /\ \A r \in Requests : \A f \in files : row[r].file = f.id => f.of \in {0, r}
  /\ \A r \in Requests : row[r].there => (Kind(r) = "helloSign" => row[r].file # 1)
                                      /\ (Kind(r) = "simple" => row[r].file # 0)

FileInv == FileRows /\ FileFresh /\ FileRefers

\* A row that was inserted is there until a deletion takes it.
RowKept ==
  /\ \A r \in Requests : row[r].there /\ row[r].file # 0 =>
        (\E f \in files : f.id = row[r].file) \/ Had("removed", r)
  /\ \A c \in Calls : \A r \in Requests : Marks(c, r) =>
        \/ \E f \in files : /\ f.id = FileOf(c) /\ f.of = r
                            /\ call[c].op = "copy" => f.key = CopyKey(r, "company")
                            /\ call[c].op = "sign" => f.key = CopyKey(r, call[c].path)
        \/ Had("removed", r)
        \/ call[c].op = "copy" /\ Had("missed", r)

-----------------------------------------------------------------------------
(* Billing.                                                                *)

Landed(r) == row[r].there \/ InFlight(r) \/ Had("insertLost", r) \/ Had("removed", r)

BillInv ==
  \A r \in Created :
    /\ Landed(r)
    /\ row[r].there /\ row[r].status = "notRequired" => Had("notRequired", r)
    /\ row[r].there => (row[r].file = 0 <=> Kind(r) = "helloSign") \/ Had("signedHere", r)

-----------------------------------------------------------------------------
(* Objects.                                                                *)

\* What r refers to may be gone: its rows were removed, or a statement on them missed.
Gone(r) == Had("removed", r) \/ Had("missed", r)

HasObject(r, p) == Object(CopyKey(r, p)) # {}

\* Keys that a deletion takes: of requests it has removed, and the document's only when a
\* request was set to signed by hand.
Takes(c) ==
  \A key \in call[c].todo :
    \/ key = Document /\ \E r \in Requests : Had("signed", r)
    \/ \E r \in Requests, p \in Paths :
          key = CopyKey(r, p) /\ ((call[c].pc = "delete" /\ r \in call[c].ids) \/ Gone(r))

Uploaded(r) == r \in uploads \/ Had("uploadLost", r) \/ HasObject(r, "company")

\* The object of a copy is in the bucket, or on its way.
Backed(f) ==
  \/ Object(f.key) # {}
  \/ f.key = CopyKey(f.of, "company") /\ f.of \in uploads

RowBacked(r) ==
  row[r].there /\ row[r].status = "signed" =>
    /\ (\E f \in Copies(r) : Backed(f))
       \/ Had("signed", r) \/ Had("uploadLost", r) \/ Gone(r)
    /\ row[r].file # 1 \/ Had("signed", r)

\* A copy is uploaded before, or while, its row is written.
CallBacked(c) ==
  /\ call[c].op = "delete" /\ call[c].pc \in {"delete", "objects"} => Takes(c)
  /\ call[c].op = "copy" => Uploaded(call[c].r) \/ Gone(call[c].r)
  /\ call[c].op = "sign" /\ call[c].pc \in {"insert", "mark"} =>
        HasObject(call[c].r, call[c].path) \/ Gone(call[c].r)

ObjectInv ==
  /\ DocumentKept
  /\ \A r \in Requests : RowBacked(r)
  /\ \A c \in Calls : CallBacked(c)

-----------------------------------------------------------------------------
(* What was completed is recorded.                                         *)

Marking(r) == \E c \in Calls : Marks(c, r)

Signed(r) == row[r].there /\ row[r].status = "signed"

\* A function on r stopped before its end, or went on after a statement that missed.
Slipped(r) == Had("failed", r) \/ Had("missed", r)

\* A copy in the table is that of a request that is signed, or about to be.
Followed(r) ==
  \/ Copies(r) # {} => row[r].there /\ (row[r].status = "signed" \/ Marking(r))
  \/ Had("early", r) \/ Slipped(r) \/ Had("moved", r)

MarkedRow(r) == Marking(r) => row[r].there \/ Had("early", r) \/ Gone(r)

Awaited(r) == r \in events \/ Marking(r) \/ \E c \in Calls : call[c].op = "copy" /\ call[c].r = r

RecordInv ==
  \A r \in Requests :
    /\ Followed(r) /\ MarkedRow(r)
    /\ hs[r] = "complete" =>
          \/ Awaited(r)
          \/ Signed(r) /\ Copies(r) # {}
          \/ Had("early", r) \/ Slipped(r) \/ Had("removed", r) \/ Had("moved", r)

-----------------------------------------------------------------------------
(* One signature.                                                          *)

Clean(r) == ~ (Had("raced", r) \/ Slipped(r) \/ Had("moved", r) \/ Had("early", r))

OnceFor(r) ==
  /\ \A c, d \in Copying(r) : c = d
  /\ \A f, g \in Copies(r) : f = g
  /\ \A o \in stored : o[1][1] = r => o[2] <= 1
  /\ \A c \in Copying(r) :
        /\ call[c].op = "sign" /\ call[c].pc # "read" => Kind(r) = "simple"
        /\ call[c].pc \in {"get", "upload", "insert"} => Copies(r) = {}
        /\ call[c].pc = "get" => call[c].key = Document
        /\ call[c].pc = "upload" => call[c].pages <= 1
  /\ Kind(r) = "helloSign" => \A f \in Copies(r) : f.key = CopyKey(r, "company")

OnceInv ==
  /\ \A o \in stored : o[1] = Document => o[2] = 0
  /\ \A r \in Created : Clean(r) => OnceFor(r)

-----------------------------------------------------------------------------
(* One onboarding.                                                         *)

Disturbed ==
  \/ Had("onboardedTwice", 0)
  \/ \E r \in Onboarded : Had("removed", r) \/ Had("insertLost", r)

OnboardInv ==
  /\ \A r \in Onboarded : about[r].to = Hire
  /\ Disturbed \/
      /\ \A r, s \in Onboarded : Kind(r) = Kind(s) => r = s
      /\ \A c, d \in Calls : call[c].op = "onboard" /\ call[d].op = "onboard" => c = d
      /\ \A c \in Calls : call[c].op = "onboard" =>
            \A r \in Onboarded :
               /\ call[c].pc = "create" => Kind(r) \notin call[c].todo
               /\ call[c].pc = "list" => /\ ~ InFlight(r)
                                         /\ Kind(r) \in call[c].todo \/ call[c].ids # {}


-----------------------------------------------------------------------------
(* What the steps do to the calls.                                         *)

LEMMA CallsNat == Calls \subseteq Nat \ {0}
<1>1. \A n : 1 .. n \subseteq Nat \ {0}
  OBVIOUS
<1> QED BY <1>1, CallsAssumption, Zenon

LEMMA RequestsNat == Requests \subseteq Nat \ {0} /\ Requests = (0 .. MaxRequests) \ {0}
BY BoundAssumption DEF Requests

LEMMA Operates ==
  /\ "copy" # None /\ "sign" # None /\ "cancel" # None /\ "onboard" # None /\ "delete" # None
BY NoneAssumption DEF Operations

\* c takes a step, and the other calls none.
Steps(c) == DOMAIN call' = Calls /\ \A d \in Calls \ {c} : call'[d] = call[d]

\* c starts an operation on r.
Began(c, op, pc, r) ==
  /\ Steps(c)
  /\ call[c].op = None /\ call[c].pc = "idle"
  /\ call'[c] \in Locals /\ call'[c].op = op /\ call'[c].pc = pc /\ call'[c].r = r

\* Apart from its place, c is as it was.
Place(c, pc) ==
  /\ Steps(c)
  /\ call'[c] \in Locals /\ call'[c].pc = pc
  /\ call'[c].op = call[c].op /\ call'[c].r = call[c].r /\ call'[c].path = call[c].path
  /\ call'[c].key = call[c].key /\ call'[c].pages = call[c].pages
  /\ call'[c].todo = call[c].todo /\ call'[c].ids = call[c].ids

Over(c) ==
  /\ Steps(c)
  /\ call'[c] \in Locals /\ call'[c].op = None /\ call'[c].pc = "ended" /\ call'[c].r = 0

LEMMA DocumentKey == Document \in Keys /\ Document[1] = 0
BY BoundAssumption DEF Document, Keys, Paths

LEMMA IdleType ==
  /\ Idle \in Locals /\ Idle.op = None /\ Idle.pc = "idle" /\ Idle.r = 0
  /\ Idle.ids = {} /\ Idle.todo = {} /\ Idle.path = None
BY DocumentKey, BoundAssumption DEF Idle, Locals, PlaceNames

LEMMA EndedType ==
  Ended \in Locals /\ Ended.op = None /\ Ended.pc = "ended" /\ Ended.r = 0
BY IdleType DEF Ended, Locals, PlaceNames

LEMMA LocalType ==
  ASSUME Types, NEW c \in Calls
  PROVE  call[c] \in Locals /\ CallType(call[c]) /\ DOMAIN call = Calls
BY DEF Types, CallType

LEMMA GotoPlace ==
  ASSUME Types, NEW c \in Calls, NEW pc \in PlaceNames, Goto(c, pc)
  PROVE  Place(c, pc)
<1> DEFINE l == call[c]
<1>1. l \in Locals /\ DOMAIN call = Calls
  BY LocalType
<1>2. call' = [call EXCEPT ![c] = [l EXCEPT !.pc = pc]]
  BY DEF Goto
<1> HIDE DEF l
<1> DEFINE k == [l EXCEPT !.pc = pc]
<1>3. /\ k \in Locals /\ k.pc = pc /\ k.op = l.op /\ k.r = l.r /\ k.path = l.path /\ k.key = l.key
      /\ k.pages = l.pages /\ k.todo = l.todo /\ k.ids = l.ids
  BY <1>1 DEF Locals, PlaceNames
<1>4. call'[c] = k /\ Steps(c)
  BY <1>1, <1>2 DEF Steps
<1> HIDE DEF k
<1> QED BY <1>3, <1>4 DEF Place, l

LEMMA EndOver ==
  ASSUME Types, NEW c \in Calls, End(c)
  PROVE  Over(c)
BY EndedType, LocalType DEF End, Over, Steps

LEMMA StartBegan ==
  ASSUME Types, NEW c \in Calls, NEW l \in Locals, Start(c, l)
  PROVE  Began(c, l.op, l.pc, l.r) /\ call'[c] = l
<1>1. call[c].pc = "idle" /\ call[c].pc \in Places(call[c].op) /\ call[c].op \in Operations \cup {None}
  BY LocalType DEF Start, First, CallType, Locals
<1>2. call[c].op = None
  BY <1>1 DEF Places, Operations
<1>3. call'[c] = l /\ Steps(c)
  BY LocalType DEF Start, Steps
<1> QED BY <1>1, <1>2, <1>3 DEF Began

-----------------------------------------------------------------------------
(* What each operation does.                                               *)

LEMMA CallbackDoes ==
  ASSUME Types, NEW c \in Calls, Callback(c)
  PROVE  \E r \in events :
            /\ Began(c, "copy", "check", r)
            /\ uploads' = uploads \cup {r} /\ events' = events \ {r}
            /\ Overlapped(r)
<1> PICK r \in events : /\ Start(c, [Idle EXCEPT !.op = "copy", !.r = r, !.pc = "check"])
                        /\ uploads' = uploads \cup {r} /\ events' = events \ {r}
                        /\ Overlapped(r)
  BY DEF Callback
<1> DEFINE l == [Idle EXCEPT !.op = "copy", !.r = r, !.pc = "check"]
<1>0. r \in 0 .. MaxRequests
  BY RequestsNat DEF Types, StoreType
<1>1. l \in Locals /\ l.op = "copy" /\ l.pc = "check" /\ l.r = r
  BY <1>0, IdleType DEF Locals, Operations, PlaceNames
<1> HIDE DEF l
<1>2. Began(c, l.op, l.pc, l.r)
  BY <1>1, StartBegan DEF l
<1> QED BY <1>1, <1>2

LEMMA CheckDoes ==
  ASSUME Types, NEW c \in Calls, CheckForDuplicate(c)
  PROVE  \/ (\E f \in files : f.key = CopyKey(call[c].r, "company")) /\ Over(c)
         \/ (~ \E f \in files : f.key = CopyKey(call[c].r, "company")) /\ Place(c, "insert")
BY EndOver, GotoPlace DEF CheckForDuplicate, PlaceNames

LEMMA CreateFileDoes ==
  ASSUME Types, NEW c \in Calls, CreateFileMetadata(c)
  PROVE  \/ /\ Place(c, "mark")
            /\ \E key \in Keys :
                  /\ files' = files \cup {[id |-> FileOf(c), of |-> call[c].r, key |-> key]}
                  /\ call[c].op = "copy" => key = CopyKey(call[c].r, "company")
                  /\ call[c].op = "sign" => key = CopyKey(call[c].r, call[c].path)
         \/ ~ row[call[c].r].there /\ Over(c) /\ UNCHANGED files
<1>1. CASE End(c) /\ ~ row[call[c].r].there /\ UNCHANGED files
  BY <1>1, EndOver
<1>2. CASE Goto(c, "mark")
  <2>1. Place(c, "mark")
    BY <1>2, GotoPlace DEF PlaceNames
  <2>2. call[c].op \in {"copy", "sign"} /\ call[c].r \in 0 .. MaxRequests
        /\ (call[c].op = "sign" => call[c].path \in Paths)
    BY LocalType, RequestsNat DEF CreateFileMetadata, CallType
  <2>3. CopyKey(call[c].r, "company") \in Keys
        /\ (call[c].op = "sign" => CopyKey(call[c].r, call[c].path) \in Keys)
    BY <2>2 DEF CopyKey, Keys, Paths
  <2>4. \/ files' = files \cup {[id |-> FileOf(c), of |-> call[c].r, key |->
              IF call[c].op = "copy" THEN CopyKey(call[c].r, "company")
              ELSE CopyKey(call[c].r, call[c].path)]}
        \/ End(c) /\ ~ row[call[c].r].there /\ UNCHANGED files
    BY DEF CreateFileMetadata
  <2> QED BY <2>1, <2>2, <2>3, <2>4, EndOver
<1> QED BY <1>1, <1>2 DEF CreateFileMetadata

LEMMA MarkCopiedDoes ==
  ASSUME Types, NEW c \in Calls, MarkCopied(c)
  PROVE  Over(c)
BY EndOver DEF MarkCopied

LEMMA SignDoes ==
  ASSUME Types, NEW c \in Calls, Sign(c)
  PROVE  \E r \in Created, path \in Paths :
            /\ Began(c, "sign", "read", r) /\ call'[c].path = path
            /\ Overlapped(r)
<1> PICK r \in Created, path \in Paths :
            /\ Start(c, [Idle EXCEPT !.op = "sign", !.r = r, !.path = path, !.pc = "read"])
            /\ Overlapped(r)
  BY DEF Sign
<1> DEFINE l == [Idle EXCEPT !.op = "sign", !.r = r, !.path = path, !.pc = "read"]
<1>0. r \in 0 .. MaxRequests
  BY RequestsNat DEF Created
<1>1. l \in Locals /\ l.op = "sign" /\ l.pc = "read" /\ l.r = r /\ l.path = path
  BY <1>0, IdleType DEF Locals, Operations, PlaceNames
<1> HIDE DEF l
<1>2. Began(c, l.op, l.pc, l.r) /\ call'[c] = l
  BY <1>1, StartBegan DEF l
<1> QED BY <1>1, <1>2

LEMMA ReadDoes ==
  ASSUME Types, FileInv, NEW c \in Calls, ReadDocument(c)
  PROVE  \/ Over(c)
         \/ /\ row[call[c].r].status # "signed"
            /\ \E f \in FilesOf(call[c].r) :
                /\ Steps(c)
                /\ call'[c] \in Locals /\ call'[c].pc = "get" /\ call'[c].key = f.key
                /\ call'[c].op = "sign" /\ call'[c].r = call[c].r /\ call'[c].path = call[c].path
<1>1. CASE End(c)
  BY <1>1, EndOver
<1>2. CASE /\ row[call[c].r].status # "signed"
           /\ \E f \in FilesOf(call[c].r) : call' = [call EXCEPT ![c].key = f.key, ![c].pc = "get"]
  <2> PICK f \in FilesOf(call[c].r) : call' = [call EXCEPT ![c].key = f.key, ![c].pc = "get"]
    BY <1>2
  <2>1. f.key \in Keys /\ f \in files
    BY DEF FileInv, FileRows, FileFresh, FileRefers, Files, FilesOf
  <2> DEFINE l == call[c]
  <2>2. l \in Locals /\ DOMAIN call = Calls /\ l.op = "sign"
    BY LocalType DEF ReadDocument, At
  <2>3. call' = [call EXCEPT ![c] = [l EXCEPT !.key = f.key, !.pc = "get"]]
    OBVIOUS
  <2> HIDE DEF l
  <2> DEFINE k == [l EXCEPT !.key = f.key, !.pc = "get"]
  <2>4. /\ k \in Locals /\ k.pc = "get" /\ k.op = "sign" /\ k.r = l.r /\ k.path = l.path
        /\ k.key = f.key
    BY <2>1, <2>2 DEF Locals, PlaceNames
  <2>5. call'[c] = k /\ Steps(c)
    BY <2>2, <2>3 DEF Steps
  <2> HIDE DEF k
  <2> QED BY <1>2, <2>4, <2>5 DEF l
<1> QED BY <1>1, <1>2 DEF ReadDocument

LEMMA GetDoes ==
  ASSUME Types, NEW c \in Calls, GetObject(c)
  PROVE  \/ Over(c)
         \/ \E o \in Object(call[c].key) :
                /\ Steps(c)
                /\ call'[c] \in Locals /\ call'[c].pc = "upload" /\ call'[c].pages = o[2] + 1
                /\ call'[c].op = "sign" /\ call'[c].r = call[c].r /\ call'[c].path = call[c].path
<1>1. CASE End(c)
  BY <1>1, EndOver
<1>2. CASE \E o \in Object(call[c].key) :
                call' = [call EXCEPT ![c].pages = o[2] + 1, ![c].pc = "upload"]
  <2> PICK o \in Object(call[c].key) :
                call' = [call EXCEPT ![c].pages = o[2] + 1, ![c].pc = "upload"]
    BY <1>2
  <2>1. o \in stored /\ o[2] + 1 \in Nat
    BY DEF Types, StoreType, Object
  <2> DEFINE l == call[c]
  <2>2. l \in Locals /\ DOMAIN call = Calls /\ l.op = "sign"
    BY LocalType DEF GetObject, At
  <2>3. call' = [call EXCEPT ![c] = [l EXCEPT !.pages = o[2] + 1, !.pc = "upload"]]
    OBVIOUS
  <2> HIDE DEF l
  <2> DEFINE k == [l EXCEPT !.pages = o[2] + 1, !.pc = "upload"]
  <2>4. /\ k \in Locals /\ k.pc = "upload" /\ k.op = "sign" /\ k.r = l.r /\ k.path = l.path
        /\ k.pages = o[2] + 1
    BY <2>1, <2>2 DEF Locals, PlaceNames
  <2>5. call'[c] = k /\ Steps(c)
    BY <2>2, <2>3 DEF Steps
  <2> HIDE DEF k
  <2> QED BY <2>4, <2>5 DEF l
<1> QED BY <1>1, <1>2 DEF GetObject

LEMMA UploadSignedDoes ==
  ASSUME Types, NEW c \in Calls, UploadSigned(c)
  PROVE  Place(c, "insert")
BY GotoPlace DEF UploadSigned, PlaceNames

LEMMA MarkSignedDoes ==
  ASSUME Types, NEW c \in Calls, MarkSigned(c)
  PROVE  Over(c)
BY EndOver DEF MarkSigned

LEMMA ChangeDoes ==
  ASSUME Types, NEW c \in Calls, Change(c)
  PROVE  \E r \in Created, op \in {"cancel"} \cup Statuses :
           LET status == IF op = "cancel" THEN "canceled" ELSE op IN
           /\ row[r].there
           /\ row' = [row EXCEPT ![r].status = status]
           /\ happened' = happened
                 \cup (IF \E f \in files : f.of = r THEN {<<"moved", r>>} ELSE {})
                 \cup (IF op # "cancel" THEN {<<status, r>>} ELSE {})
           /\ Steps(c) /\ call[c].op = None /\ call[c].pc = "idle"
           /\ \/ Began(c, "cancel", "tell", r)
              \/ Over(c)
<1> PICK r \in Created, op \in {"cancel"} \cup Statuses :
           LET status == IF op = "cancel" THEN "canceled" ELSE op IN
           /\ row[r].there
           /\ row' = [row EXCEPT ![r].status = status]
           /\ happened' = happened
                 \cup (IF \E f \in files : f.of = r THEN {<<"moved", r>>} ELSE {})
                 \cup (IF op # "cancel" THEN {<<status, r>>} ELSE {})
           /\ Start(c, IF op = "cancel" THEN [Idle EXCEPT !.op = op, !.r = r, !.pc = "tell"]
                       ELSE Ended)
  BY DEF Change
<1>0. r \in 0 .. MaxRequests
  BY RequestsNat DEF Created
<1>1. CASE op = "cancel"
  <2> DEFINE l == [Idle EXCEPT !.op = "cancel", !.r = r, !.pc = "tell"]
  <2>1. l \in Locals /\ l.op = "cancel" /\ l.pc = "tell" /\ l.r = r
    BY <1>0, IdleType DEF Locals, Operations, PlaceNames
  <2>2. Start(c, l)
    BY <1>1
  <2> HIDE DEF l
  <2>3. Began(c, l.op, l.pc, l.r)
    BY <2>1, <2>2, StartBegan
  <2>4. Began(c, "cancel", "tell", r)
    BY <2>1, <2>3
  <2>5. Steps(c) /\ call[c].op = None /\ call[c].pc = "idle"
    BY <2>4 DEF Began
  <2> QED BY <2>4, <2>5
<1>2. CASE op # "cancel"
  <2>1. Began(c, Ended.op, Ended.pc, Ended.r)
    BY <1>2, EndedType, StartBegan
  <2>2. Over(c) /\ Steps(c) /\ call[c].op = None /\ call[c].pc = "idle"
    BY <2>1, EndedType DEF Began, Over
  <2> QED BY <2>2
<1> QED BY <1>1, <1>2

LEMMA CancelDoes ==
  ASSUME Types, NEW c \in Calls, CancelAtHelloSign(c)
  PROVE  Over(c)
BY EndOver DEF CancelAtHelloSign

LEMMA OnboardingDoes ==
  ASSUME Types, NEW c \in Calls, StartOnboarding(c)
  PROVE  Began(c, "onboard", "list", 0) /\ call'[c].todo = Kinds
<1> DEFINE l == [Idle EXCEPT !.op = "onboard", !.pc = "list", !.todo = Kinds]
<1>1. l \in Locals /\ l.op = "onboard" /\ l.pc = "list" /\ l.r = 0 /\ l.todo = Kinds
  BY IdleType DEF Locals, Operations, PlaceNames
<1>2. Start(c, l)
  BY DEF StartOnboarding
<1> HIDE DEF l
<1>3. Began(c, l.op, l.pc, l.r) /\ call'[c] = l
  BY <1>1, <1>2, StartBegan
<1> QED BY <1>1, <1>3

LEMMA ListDoes ==
  ASSUME Types, NEW c \in Calls, ListExisting(c)
  PROVE  \/ Over(c)
         \/ \E k \in call[c].todo :
              LET ids == call[c].ids \cup (IF k = "helloSign" THEN ListedByHelloSign ELSE ListedSimple)
              IN  /\ Steps(c)
                  /\ call'[c] \in Locals /\ call'[c].op = "onboard" /\ call'[c].r = call[c].r
                  /\ \/ call'[c].pc = "list" /\ call'[c].todo = call[c].todo \ {k} /\ call'[c].ids = ids
                     \/ /\ call'[c].pc = "create" /\ call'[c].todo = TaskList
                        /\ call[c].todo = {k} /\ ids = {}
<1> PICK k \in call[c].todo :
           LET ids == call[c].ids
                        \cup (IF k = "helloSign" THEN ListedByHelloSign ELSE ListedSimple)
               rest == call[c].todo \ {k}
           IN  IF rest # {} THEN call' = [call EXCEPT ![c].todo = rest, ![c].ids = ids]
               ELSE IF ids # {} \/ TaskList = {} THEN End(c)
               ELSE call' = [call EXCEPT ![c].pc = "create", ![c].todo = TaskList]
  BY DEF ListExisting
<1> DEFINE l == call[c]
           ids == l.ids \cup (IF k = "helloSign" THEN ListedByHelloSign ELSE ListedSimple)
           rest == l.todo \ {k}
<1>1. l \in Locals /\ DOMAIN call = Calls /\ l.op = "onboard" /\ l.pc = "list"
  BY LocalType DEF ListExisting, At
<1>2. ids \subseteq Requests /\ rest \subseteq Kinds \cup Keys
  BY <1>1 DEF Locals, ListedByHelloSign, ListedSimple, Onboarded, Created
<1>3. CASE rest # {} /\ call' = [call EXCEPT ![c].todo = rest, ![c].ids = ids]
  <2>1. call' = [call EXCEPT ![c] = [l EXCEPT !.todo = rest, !.ids = ids]]
    BY <1>3
  <2>2. rest = call[c].todo \ {k}
        /\ ids = call[c].ids \cup (IF k = "helloSign" THEN ListedByHelloSign ELSE ListedSimple)
        /\ l.r = call[c].r
    OBVIOUS
  <2> HIDE DEF l, ids, rest
  <2> DEFINE m == [l EXCEPT !.todo = rest, !.ids = ids]
  <2>3. m \in Locals /\ m.op = "onboard" /\ m.r = l.r /\ m.pc = "list" /\ m.todo = rest /\ m.ids = ids
    BY <1>1, <1>2 DEF Locals, PlaceNames
  <2>4. call'[c] = m /\ Steps(c)
    BY <1>1, <2>1 DEF Steps
  <2> HIDE DEF m
  <2> QED BY <2>2, <2>3, <2>4
<1>4. CASE rest = {} /\ ids = {} /\ call' = [call EXCEPT ![c].pc = "create", ![c].todo = TaskList]
  <2>1. call' = [call EXCEPT ![c] = [l EXCEPT !.pc = "create", !.todo = TaskList]]
    BY <1>4
  <2>2. call[c].todo = {k}
        /\ call[c].ids \cup (IF k = "helloSign" THEN ListedByHelloSign ELSE ListedSimple) = {}
        /\ l.r = call[c].r
    BY <1>4
  <2> HIDE DEF l, ids, rest
  <2> DEFINE m == [l EXCEPT !.pc = "create", !.todo = TaskList]
  <2>3. m \in Locals /\ m.op = "onboard" /\ m.r = l.r /\ m.pc = "create" /\ m.todo = TaskList
    BY <1>1, HireAssumption DEF Locals, PlaceNames
  <2>4. call'[c] = m /\ Steps(c)
    BY <1>1, <2>1 DEF Steps
  <2> HIDE DEF m
  <2> QED BY <2>2, <2>3, <2>4
<1>5. CASE End(c)
  BY <1>5, EndOver
<1> QED BY <1>3, <1>4, <1>5

\* c has done k, of what it has to do.
Less(c, k) ==
  \/ call[c].todo = {k} /\ Over(c)
  \/ /\ Steps(c)
     /\ call'[c] \in Locals /\ call'[c].op = call[c].op /\ call'[c].pc = call[c].pc
     /\ call'[c].r = call[c].r /\ call'[c].ids = call[c].ids /\ call'[c].todo = call[c].todo \ {k}

LEMMA DoneLess ==
  ASSUME Types, NEW c \in Calls, NEW k, Done(c, k)
  PROVE  Less(c, k)
<1> DEFINE l == call[c]
<1>1. l \in Locals /\ DOMAIN call = Calls
  BY LocalType
<1>2. CASE call[c].todo = {k}
  BY <1>2, EndOver DEF Done, Less
<1>3. CASE call[c].todo # {k}
  <2>1. call' = [call EXCEPT ![c] = [l EXCEPT !.todo = @ \ {k}]]
    BY <1>3 DEF Done
  <2> DEFINE m == [l EXCEPT !.todo = @ \ {k}]
  <2>2. l = call[c]
    OBVIOUS
  <2> HIDE DEF l
  <2>3. /\ m \in Locals /\ m.op = l.op /\ m.pc = l.pc /\ m.r = l.r /\ m.ids = l.ids
        /\ m.todo = l.todo \ {k}
    BY <1>1 DEF Locals, PlaceNames
  <2>4. call'[c] = m /\ Steps(c)
    BY <1>1, <2>1 DEF Steps
  <2> HIDE DEF m
  <2> QED BY <2>2, <2>3, <2>4 DEF Less
<1> QED BY <1>2, <1>3

LEMMA DeletionDoes ==
  ASSUME Types, NEW c \in Calls, StartDeletion(c)
  PROVE  Began(c, "delete", "listHelloSign", 0)
<1> DEFINE l == [Idle EXCEPT !.op = "delete", !.pc = "listHelloSign"]
<1>1. l \in Locals /\ l.op = "delete" /\ l.pc = "listHelloSign" /\ l.r = 0
  BY IdleType DEF Locals, Operations, PlaceNames
<1>2. Start(c, l)
  BY DEF StartDeletion
<1> HIDE DEF l
<1>3. Began(c, l.op, l.pc, l.r)
  BY <1>1, <1>2, StartBegan
<1> QED BY <1>1, <1>3

LEMMA ListHelloSignDoes ==
  ASSUME Types, NEW c \in Calls, ListHelloSign(c)
  PROVE  /\ Steps(c)
         /\ call'[c] \in Locals /\ call'[c].op = "delete" /\ call'[c].pc = "listSimple"
         /\ call'[c].r = call[c].r
<1> DEFINE l == call[c]
           m == [l EXCEPT !.ids = ListedByHelloSign, !.pc = "listSimple"]
<1>1. l \in Locals /\ DOMAIN call = Calls /\ l.op = "delete"
  BY LocalType DEF ListHelloSign, At
<1>2. ListedByHelloSign \subseteq Requests
  BY DEF ListedByHelloSign, Onboarded, Created
<1>3. call' = [call EXCEPT ![c] = m]
  BY DEF ListHelloSign
<1>4. l = call[c]
  OBVIOUS
<1> HIDE DEF l
<1>5. m \in Locals /\ m.op = "delete" /\ m.pc = "listSimple" /\ m.r = l.r
  BY <1>1, <1>2 DEF Locals, PlaceNames
<1>6. call'[c] = m /\ Steps(c)
  BY <1>1, <1>3 DEF Steps
<1> HIDE DEF m
<1> QED BY <1>4, <1>5, <1>6

\* The requests that the deletion finds signed, and the pointers of their files.
SignedSimple == {r \in ListedSimple : row[r].status = "signed"}
SignedKeys == {f.key : f \in {g \in files : \E r \in SignedSimple : row[r].file = g.id}}

LEMMA ListSimpleDoes ==
  ASSUME Types, FileInv, NEW c \in Calls, ListSimple(c)
  PROVE  \/ Over(c)
         \/ /\ Steps(c)
            /\ call'[c] \in Locals /\ call'[c].op = "delete" /\ call'[c].pc = "delete"
            /\ call'[c].r = call[c].r
            /\ call'[c].ids = call[c].ids \cup ListedSimple /\ call'[c].todo = SignedKeys
<1> DEFINE l == call[c]
           ids == l.ids \cup ListedSimple
           m == [l EXCEPT !.ids = ids, !.pc = "delete", !.todo = SignedKeys]
<1>1. l \in Locals /\ DOMAIN call = Calls /\ l.op = "delete"
  BY LocalType DEF ListSimple, At
<1>2. ids \subseteq Requests
  BY <1>1 DEF ListedSimple, Created, Locals
<1>3. SignedKeys \subseteq Keys
  BY DEF SignedKeys, FileInv, FileRows, FileFresh, FileRefers, Files
<1>4. CASE End(c)
  BY <1>4, EndOver
<1>5. CASE ~ End(c)
  <2>1. call' = [call EXCEPT ![c] = m]
    BY <1>5 DEF ListSimple, SignedKeys, SignedSimple
  <2>2. l = call[c] /\ ids = call[c].ids \cup ListedSimple
    OBVIOUS
  <2> HIDE DEF l, ids
  <2>3. m \in Locals /\ m.op = "delete" /\ m.pc = "delete" /\ m.r = l.r /\ m.ids = ids
        /\ m.todo = SignedKeys
    BY <1>1, <1>2, <1>3 DEF Locals, PlaceNames
  <2>4. call'[c] = m /\ Steps(c)
    BY <1>1, <2>1 DEF Steps
  <2> HIDE DEF m
  <2> QED BY <2>2, <2>3, <2>4
<1> QED BY <1>4, <1>5

LEMMA DeleteRowsDoes ==
  ASSUME Types, NEW c \in Calls, DeleteRows(c)
  PROVE  Over(c) \/ Place(c, "objects")
BY EndOver, GotoPlace DEF DeleteRows, PlaceNames

LEMMA FailDoes ==
  ASSUME Types, NEW c \in Calls, Fail(c)
  PROVE  Over(c)
BY EndOver DEF Fail

LEMMA MissedDoes ==
  ASSUME Types, NEW c \in Calls, Missed(c)
  PROVE  /\ UNCHANGED <<about, hs, row, files, stored, inserts, uploads, cancels, events>>
         /\ happened \subseteq happened'
         /\ \/ /\ call[c].op = "copy" /\ call[c].pc = "insert" /\ Place(c, "mark")
               /\ <<"missed", call[c].r>> \in happened'
            \/ /\ call[c].op \in {"copy", "sign"} /\ call[c].pc = "mark" /\ Over(c)
               /\ <<"missed", call[c].r>> \in happened'
            \/ /\ call[c].op = "delete" /\ call[c].pc = "delete"
               /\ Over(c) \/ Place(c, "objects")
               /\ \A r \in call[c].ids : Had("missed", r)'
<1>1. UNCHANGED <<about, hs, row, files, stored, inserts, uploads, cancels, events>>
      /\ happened \subseteq happened'
  BY DEF Missed, tables, flying, Note
<1>2. CASE At(c, "copy", "insert") /\ Goto(c, "mark") /\ Note("missed", {call[c].r})
  <2>1. Place(c, "mark")
    BY <1>2, GotoPlace DEF PlaceNames
  <2> QED BY <1>1, <1>2, <2>1 DEF At, Note, Had
<1>3. CASE /\ call[c].op \in {"copy", "sign"} /\ call[c].pc = "mark"
           /\ End(c) /\ Note("missed", {call[c].r})
  <2>1. Over(c)
    BY <1>3, EndOver
  <2> QED BY <1>1, <1>3, <2>1 DEF Note, Had
<1>4. CASE /\ At(c, "delete", "delete") /\ (End(c) \/ Goto(c, "objects"))
           /\ Note("missed", call[c].ids)
  <2>1. Over(c) \/ Place(c, "objects")
    BY <1>4, EndOver, GotoPlace DEF PlaceNames
  <2>2. \A r \in call[c].ids : Had("missed", r)'
    BY <1>4 DEF Note, Had
  <2> QED BY <1>1, <1>4, <2>1, <2>2 DEF At
<1> QED BY <1>2, <1>3, <1>4 DEF Missed

LEMMA CancelMissedDoes ==
  ASSUME Types, NEW c \in Calls, CancelMissed(c)
  PROVE  /\ UNCHANGED <<about, hs, row, files, stored, inserts, uploads, cancels, events>>
         /\ happened \subseteq happened'
         /\ \E r \in Requests : Began(c, "cancel", "tell", r)
<1>1. UNCHANGED <<about, hs, row, files, stored, inserts, uploads, cancels, events>>
      /\ happened \subseteq happened'
  BY DEF CancelMissed, tables, flying, Note
<1> PICK r \in Created : Start(c, [Idle EXCEPT !.op = "cancel", !.r = r, !.pc = "tell"])
  BY DEF CancelMissed
<1> DEFINE l == [Idle EXCEPT !.op = "cancel", !.r = r, !.pc = "tell"]
<1>0. r \in Requests /\ r \in 0 .. MaxRequests
  BY RequestsNat DEF Created
<1>2. l \in Locals /\ l.op = "cancel" /\ l.pc = "tell" /\ l.r = r
  BY <1>0, IdleType DEF Locals, Operations, PlaceNames
<1> HIDE DEF l
<1>3. Began(c, l.op, l.pc, l.r)
  BY <1>2, StartBegan DEF l
<1> QED BY <1>0, <1>1, <1>2, <1>3

\* Requests are created: they were nowhere before.
Adds(new, kind, onboarding) ==
  /\ new \subseteq Requests /\ new # {}
  /\ \A r \in new : about[r] = None
  /\ inserts' = inserts \cup {new}
  /\ DOMAIN about' = Requests
  /\ \A r \in new : about'[r] \in About /\ about'[r].kind = kind /\ about'[r].onboarding = onboarding
  /\ \A r \in Requests \ new : about'[r] = about[r]
  /\ hs' \in [Requests -> {"none", "open", "complete", "canceled"}]
  /\ \A r \in new : hs'[r] = IF kind = "helloSign" THEN "open" ELSE "none"
  /\ \A r \in Requests \ new : hs'[r] = hs[r]

LEMMA CreateDoes ==
  ASSUME Types, NEW kind \in Kinds, NEW employees \in SUBSET Employees, NEW onboarding \in BOOLEAN,
         NEW made \in BOOLEAN, made <=> kind = "helloSign", employees # {},
         Create(kind, employees, made, onboarding)
  PROVE  \E new \in SUBSET Requests :
            /\ Adds(new, kind, onboarding)
            /\ employees = {Hire} => \E r \in Requests : new = {r} /\ about'[r].to = Hire
<1> DEFINE numberings == {n \in [employees -> Requests \ Created] :
                           \A e, d \in employees : n[e] = n[d] => e = d}
           number == CHOOSE n \in numberings : TRUE
           new == {number[e] : e \in employees}
           to(r) == CHOOSE e \in employees : number[e] = r
<1>1. /\ numberings # {}
      /\ about' = [r \in Requests |->
              IF r \in new THEN [kind |-> kind, to |-> to(r), onboarding |-> onboarding]
              ELSE about[r]]
      /\ hs' = [r \in Requests |-> IF r \in new /\ made THEN "open" ELSE hs[r]]
      /\ inserts' = inserts \cup {new}
  BY DEF Create
<1>2. number \in numberings
  <2> HIDE DEF numberings
  <2> QED BY <1>1
<1>3. number \in [employees -> Requests \ Created]
  BY <1>2
<1> HIDE DEF number
<1>4. new \subseteq Requests /\ new # {} /\ \A r \in new : r \notin Created
  BY <1>3
<1>5. \A r \in new : to(r) \in employees
  OBVIOUS
<1>6. \A r \in new : about[r] = None /\ hs[r] = "none"
  BY <1>4 DEF Created, Types, RequestType
<1> HIDE DEF to
<1>7. employees = {Hire} => \E r \in Requests : new = {r} /\ to(r) = Hire
  BY <1>4, <1>5
<1> HIDE DEF new
<1>8. \A r \in new : [kind |-> kind, to |-> to(r), onboarding |-> onboarding] \in About
  BY <1>5 DEF About
<1>9. Adds(new, kind, onboarding)
  <2>1. hs' \in [Requests -> {"none", "open", "complete", "canceled"}]
    BY <1>1 DEF Types, StoreType
  <2>2. \A r \in new : hs'[r] = IF kind = "helloSign" THEN "open" ELSE "none"
    BY <1>1, <1>4, <1>6
  <2>3. \A r \in Requests \ new : hs'[r] = hs[r] /\ about'[r] = about[r]
    BY <1>1
  <2>4. \A r \in new : about'[r] = [kind |-> kind, to |-> to(r), onboarding |-> onboarding]
    BY <1>1, <1>4
  <2>5. DOMAIN about' = Requests
    BY <1>1
  <2> QED BY <1>1, <1>4, <1>6, <1>8, <2>1, <2>2, <2>3, <2>4, <2>5 DEF Adds
<1>10. \A r \in new : about'[r].to = to(r)
  BY <1>1, <1>4
<1> QED BY <1>4, <1>7, <1>9, <1>10

LEMMA SendDoes ==
  ASSUME Types, SendSimple \/ SendHelloSign
  PROVE  \E new \in SUBSET Requests, kind \in Kinds : Adds(new, kind, FALSE)
<1>1. CASE SendSimple
  <2> PICK employees \in (SUBSET Employees) \ {{}} : Create("simple", employees, FALSE, FALSE)
    BY <1>1 DEF SendSimple
  <2>1. "simple" \in Kinds /\ "simple" # "helloSign"
    BY DEF Kinds
  <2>2. employees \in SUBSET Employees /\ employees # {}
    OBVIOUS
  <2>3. \E new \in SUBSET Requests : Adds(new, "simple", FALSE)
    BY <2>1, <2>2, CreateDoes, Zenon
  <2> QED BY <2>1, <2>3
<1>2. CASE SendHelloSign
  <2> PICK employees \in (SUBSET Employees) \ {{}} :
             \E fulfilled \in (SUBSET employees) \ {{}} : Create("helloSign", fulfilled, TRUE, FALSE)
    BY <1>2 DEF SendHelloSign
  <2> PICK fulfilled \in (SUBSET employees) \ {{}} : Create("helloSign", fulfilled, TRUE, FALSE)
    OBVIOUS
  <2>1. "helloSign" \in Kinds
    BY DEF Kinds
  <2>2. fulfilled \in SUBSET Employees /\ fulfilled # {}
    OBVIOUS
  <2>3. \E new \in SUBSET Requests : Adds(new, "helloSign", FALSE)
    BY <2>1, <2>2, CreateDoes, Zenon
  <2> QED BY <2>1, <2>3
<1> QED BY <1>1, <1>2

LEMMA CreateForDoes ==
  ASSUME Types, NEW c \in Calls, CreateForOnboarding(c)
  PROVE  \E k \in Kinds, r \in Requests :
            Adds({r}, k, TRUE) /\ about'[r].to = Hire /\ Less(c, k) /\ k \in call[c].todo
<1> PICK k \in call[c].todo : Create(k, {Hire}, k = "helloSign", TRUE) /\ Done(c, k)
  BY DEF CreateForOnboarding
<1>1. k \in Kinds
  BY LocalType DEF CreateForOnboarding, At, CallType
<1>2. \E r \in Requests : Adds({r}, k, TRUE) /\ about'[r].to = Hire
  <2>1. \E new \in SUBSET Requests :
            /\ Adds(new, k, TRUE)
            /\ {Hire} = {Hire} => \E r \in Requests : new = {r} /\ about'[r].to = Hire
    <3>1. (k = "helloSign") \in BOOLEAN /\ {Hire} \in SUBSET Employees /\ {Hire} # {}
      BY HireAssumption
    <3> QED BY <1>1, <3>1, CreateDoes, Zenon
  <2> QED BY <2>1
<1> QED BY <1>1, <1>2, DoneLess

LEMMA FailsDoes ==
  ASSUME Types, NEW c \in Calls, CreationFails(c)
  PROVE  \E k \in call[c].todo : Less(c, k)
BY DoneLess DEF CreationFails

LEMMA DeleteObjectDoes ==
  ASSUME Types, NEW c \in Calls, DeleteObject(c)
  PROVE  \E key \in call[c].todo : stored' = stored \ Object(key) /\ Less(c, key)
BY DoneLess DEF DeleteObject

-----------------------------------------------------------------------------
(* The types are kept.                                                     *)

\* What is known of a request stays, and what HelloSign has completed stays complete.
Grows ==
  \A r \in Requests :
    /\ about[r] # None => about'[r] = about[r]
    /\ hs[r] = "complete" => hs'[r] = "complete"

LEMMA CallsTyped ==
  ASSUME Types, NEW c \in Calls, Steps(c), Grows,
         call'[c] \in Locals, call'[c].pc \in Places(call'[c].op),
         call'[c].op \in {"copy", "sign"} => call'[c].r \in Requests,
         call'[c].op = "copy" => hs'[call'[c].r] = "complete",
         call'[c].op = "sign" => call'[c].path \in Paths /\ about'[call'[c].r] # None,
         call'[c].op = "onboard" => call'[c].todo \subseteq Kinds
  PROVE  DOMAIN call' = Calls /\ \A d \in Calls : CallType(call[d])'
<1> SUFFICES ASSUME NEW d \in Calls
             PROVE  CallType(call[d])'
  BY DEF Steps
<1>1. CASE d = c
  BY <1>1 DEF CallType
<1>2. CASE d # c
  <2>1. call'[d] = call[d] /\ CallType(call[d])
    BY <1>2, LocalType DEF Steps
  <2>2. call[d].op = "sign" => about'[call[d].r] # None
    BY <2>1 DEF CallType, Grows
  <2>3. call[d].op = "copy" => hs'[call[d].r] = "complete"
    BY <2>1 DEF CallType, Grows
  <2> QED BY <2>1, <2>2, <2>3 DEF CallType
<1> QED BY <1>1, <1>2

LEMMA CallsFrame ==
  ASSUME Types, Grows, UNCHANGED call
  PROVE  DOMAIN call' = Calls /\ \A d \in Calls : CallType(call[d])'
<1> SUFFICES ASSUME NEW d \in Calls
             PROVE  CallType(call[d])'
  BY DEF Types
<1>1. call'[d] = call[d] /\ CallType(call[d])
  BY LocalType
<1>2. call[d].op = "sign" => about'[call[d].r] # None
  BY <1>1 DEF CallType, Grows
<1>3. call[d].op = "copy" => hs'[call[d].r] = "complete"
  BY <1>1 DEF CallType, Grows
<1> QED BY <1>1, <1>2, <1>3 DEF CallType

LEMMA OverTypes ==
  ASSUME Types, NEW c \in Calls, Over(c), Grows
  PROVE  DOMAIN call' = Calls /\ \A d \in Calls : CallType(call[d])'
<1>1. call'[c].op = None /\ call'[c].pc \in Places(call'[c].op)
  BY Operates DEF Over, Places
<1>2. Steps(c) /\ call'[c] \in Locals
  BY DEF Over
<1> QED BY <1>1, <1>2, Operates, CallsTyped

LEMMA AddsGrows ==
  ASSUME Types, NEW new, NEW kind \in Kinds, NEW onboarding, Adds(new, kind, onboarding)
  PROVE  Grows
BY DEF Adds, Grows, Types, RequestType

LEMMA AddsTypes ==
  ASSUME Types, NEW new, NEW kind \in Kinds, NEW onboarding, Adds(new, kind, onboarding),
         UNCHANGED <<row, stored, uploads, events>>
  PROVE  StoreType' /\ \A r \in Requests : RequestType(r)'
<1>1. StoreType'
  <2>1. \A a \in inserts : a \cap new = {}
    BY DEF Types, RequestType, InFlight, Adds, StoreType
  <2>2. inserts' \subseteq SUBSET Requests /\ \A a, b \in inserts' : a = b \/ a \cap b = {}
    BY <2>1 DEF Adds, Types, StoreType
  <2>3. \A o \in stored' : o[1][1] # 0 => about'[o[1][1]] # None
    BY RequestsNat, NoneAssumption DEF Adds, Types, StoreType, Keys
  <2> QED BY <2>2, <2>3 DEF Adds, Types, StoreType
<1>2. ASSUME NEW r \in Requests PROVE RequestType(r)'
  <2>1. CASE r \in new
    <3>1. about[r] = None /\ ~ row[r].there /\ r \notin events \cup uploads
      BY <2>1 DEF Adds, Types, RequestType
    <3>2. about'[r] \in About /\ about'[r].kind = kind
          /\ hs'[r] = IF kind = "helloSign" THEN "open" ELSE "none"
      BY <2>1 DEF Adds
    <3> QED BY <3>1, <3>2, NoneAssumption DEF RequestType, Kind
  <2>2. CASE r \notin new
    <3>1. about'[r] = about[r] /\ hs'[r] = hs[r] /\ RequestType(r)
      BY <2>2 DEF Adds, Types
    <3>2. InFlight(r)' => InFlight(r)
      BY <2>2 DEF InFlight, Adds
    <3> QED BY <3>1, <3>2 DEF RequestType, Kind
  <2> QED BY <2>1, <2>2
<1> QED BY <1>1, <1>2

\* Requests are as they were, but for their rows and what is under way for them.
LEMMA RequestsTyped ==
  ASSUME Types, UNCHANGED about,
         hs' \in [Requests -> {"none", "open", "complete", "canceled"}],
         row' \in [Requests -> Rows],
         inserts' \subseteq inserts, uploads' \subseteq Requests, events' \subseteq Requests,
         stored' \subseteq Keys \X Nat,
         \A o \in stored' : o[1][1] # 0 => about[o[1][1]] # None,
         \A r \in Requests :
            /\ hs[r] = "none" <=> hs'[r] = "none"
            /\ r \in events' \cup uploads' => hs'[r] = "complete"
            /\ row'[r].there => ~ InFlight(r)' /\ (row[r].there \/ about[r] # None)
  PROVE  StoreType' /\ \A r \in Requests : RequestType(r)'
<1>1. StoreType'
  <2>1. inserts' \subseteq SUBSET Requests /\ \A a, b \in inserts' : a = b \/ a \cap b = {}
    BY DEF Types, StoreType
  <2> QED BY <2>1 DEF Types, StoreType
<1>2. ASSUME NEW r \in Requests PROVE RequestType(r)'
  <2>1. InFlight(r)' => InFlight(r)
    BY DEF InFlight
  <2> QED BY <2>1 DEF Types, RequestType, Kind
<1> QED BY <1>1, <1>2

LEMMA InitTypes == Init => Types
<1> SUFFICES ASSUME Init PROVE Types
  OBVIOUS
<1>1. StoreType
  BY DocumentKey DEF Init, StoreType, NoRow, Rows, Statuses, Document
<1>2. ASSUME NEW c \in Calls PROVE CallType(call[c])
  <2>1. call[c] = Idle
    BY DEF Init
  <2> QED BY <2>1, IdleType, Operates DEF CallType, Places
<1>3. ASSUME NEW r \in Requests PROVE RequestType(r)
  BY DEF Init, RequestType, InFlight, NoRow
<1> QED BY <1>1, <1>2, <1>3 DEF Types, Init

\* The calls that start, and those that go on, where nothing else of the requests changes.
LEMMA StoreFrame ==
  ASSUME Types, UNCHANGED <<about, hs, row, stored, inserts, uploads, events>>
  PROVE  Grows /\ StoreType' /\ \A r \in Requests : RequestType(r)'
<1>1. Grows
  BY DEF Grows
<1>2. StoreType'
  BY DEF Types, StoreType
<1>3. \A r \in Requests : RequestType(r)'
  BY DEF Types, RequestType, InFlight, Kind
<1> QED BY <1>1, <1>2, <1>3

LEMMA FlightTypes ==
  ASSUME Types,
         \/ SendSimple \/ SendHelloSign \/ InsertLands \/ InsertLost
         \/ SignAtHelloSign \/ Redelivered \/ CancelLands \/ UploadLands \/ UploadLost
  PROVE  Types' /\ Grows
<1> USE DEF flying, tables
<1>1. CASE SendSimple \/ SendHelloSign
  <2> PICK new \in SUBSET Requests, kind \in Kinds : Adds(new, kind, FALSE)
    BY <1>1, SendDoes
  <2>1. UNCHANGED <<row, stored, uploads, events, call>>
    BY <1>1 DEF SendSimple, SendHelloSign
  <2> QED BY <2>1, AddsTypes, AddsGrows, CallsFrame DEF Types
<1>2. CASE InsertLands
  <2> PICK batch \in inserts :
           /\ row' = [r \in Requests |-> IF r \in batch THEN Sent(r) ELSE row[r]]
           /\ inserts' = inserts \ {batch}
    BY <1>2 DEF InsertLands
  <2>1. UNCHANGED <<about, hs, stored, uploads, events, call>>
    BY <1>2 DEF InsertLands
  <2>2. Grows
    BY <2>1 DEF Grows
  <2>3. row' \in [Requests -> Rows]
    <3>1. \A r \in Requests : Sent(r) \in Rows
      BY DEF Sent, Rows, Statuses
    <3> QED BY <3>1 DEF Types, StoreType
  <2>4. ASSUME NEW r \in Requests, row'[r].there
        PROVE  ~ InFlight(r)' /\ (row[r].there \/ about[r] # None)
    <3>1. r \in batch => InFlight(r)
      BY DEF InFlight
    <3>2. r \in batch => ~ InFlight(r)'
      BY DEF InFlight, Types, StoreType
    <3>3. r \notin batch => row[r].there
      BY <2>4
    <3>4. r \notin batch => ~ InFlight(r)'
      BY <3>3 DEF InFlight, Types, RequestType
    <3> QED BY <3>1, <3>2, <3>3, <3>4 DEF Types, RequestType
  <2>5. StoreType' /\ \A r \in Requests : RequestType(r)'
    <3>1. \A r \in Requests : r \in events' \cup uploads' => hs'[r] = "complete"
      BY <2>1 DEF Types, RequestType
    <3>2. inserts' \subseteq inserts
      OBVIOUS
    <3>3. hs' \in [Requests -> {"none", "open", "complete", "canceled"}]
          /\ uploads' \subseteq Requests /\ events' \subseteq Requests /\ stored' \subseteq Keys \X Nat
          /\ \A o \in stored' : o[1][1] # 0 => about[o[1][1]] # None
      BY <2>1 DEF Types, StoreType
    <3> QED BY <2>1, <2>3, <2>4, <3>1, <3>2, <3>3, RequestsTyped
  <2> QED BY <2>1, <2>2, <2>5, CallsFrame DEF Types
<1>3. CASE InsertLost
  <2>1. UNCHANGED <<about, hs, row, stored, uploads, events, call>> /\ inserts' \subseteq inserts
    BY <1>3 DEF InsertLost
  <2>2. Grows
    BY <2>1 DEF Grows
  <2>3. \A r \in Requests : InFlight(r)' => InFlight(r)
    BY <2>1 DEF InFlight
  <2>4. StoreType'
    BY <2>1 DEF Types, StoreType
  <2>5. \A r \in Requests : RequestType(r)'
    BY <2>1, <2>3 DEF Types, RequestType, Kind
  <2> QED BY <2>1, <2>2, <2>4, <2>5, CallsFrame DEF Types
<1>4. CASE SignAtHelloSign
  <2> PICK s \in Requests : /\ hs[s] = "open"
                            /\ hs' = [hs EXCEPT ![s] = "complete"]
                            /\ events' = events \cup {s}
    BY <1>4 DEF SignAtHelloSign
  <2>1. UNCHANGED <<about, row, stored, inserts, uploads, call>>
    BY <1>4 DEF SignAtHelloSign
  <2>2. hs' \in [Requests -> {"none", "open", "complete", "canceled"}]
        /\ \A r \in Requests : hs'[r] = IF r = s THEN "complete" ELSE hs[r]
    BY DEF Types, StoreType
  <2>3. Grows
    BY <2>1, <2>2 DEF Grows
  <2>4. StoreType'
    BY <2>1, <2>2 DEF Types, StoreType
  <2>5. \A r \in Requests : RequestType(r)'
    BY <2>1, <2>2 DEF Types, RequestType, Kind, InFlight
  <2> QED BY <2>1, <2>3, <2>4, <2>5, CallsFrame DEF Types
<1>5. CASE Redelivered
  <2> PICK s \in Requests : hs[s] = "complete" /\ events' = events \cup {s}
    BY <1>5 DEF Redelivered
  <2>1. UNCHANGED <<about, hs, row, stored, inserts, uploads, call>>
    BY <1>5 DEF Redelivered
  <2>3. Grows
    BY <2>1 DEF Grows
  <2>4. StoreType'
    BY <2>1 DEF Types, StoreType
  <2>5. \A r \in Requests : RequestType(r)'
    BY <2>1 DEF Types, RequestType, Kind, InFlight
  <2> QED BY <2>1, <2>3, <2>4, <2>5, CallsFrame DEF Types
<1>6. CASE CancelLands
  <2> PICK s \in cancels : hs' = [hs EXCEPT ![s] = IF @ = "open" THEN "canceled" ELSE @]
    BY <1>6 DEF CancelLands
  <2>1. UNCHANGED <<about, row, stored, inserts, uploads, events, call>>
    BY <1>6 DEF CancelLands
  <2>2. hs' \in [Requests -> {"none", "open", "complete", "canceled"}]
        /\ \A r \in Requests : hs'[r] = IF r = s /\ hs[r] = "open" THEN "canceled" ELSE hs[r]
    BY DEF Types, StoreType
  <2>3. Grows
    BY <2>1, <2>2 DEF Grows
  <2>4. StoreType'
    BY <2>1, <2>2 DEF Types, StoreType
  <2>5. \A r \in Requests : RequestType(r)'
    BY <2>1, <2>2 DEF Types, RequestType, Kind, InFlight
  <2> QED BY <2>1, <2>3, <2>4, <2>5, CallsFrame DEF Types
<1>7. CASE UploadLands
  <2> PICK s \in uploads : Put(CopyKey(s, "company"), 0) /\ uploads' = uploads \ {s}
    BY <1>7 DEF UploadLands
  <2>1. UNCHANGED <<about, hs, row, inserts, events, call>>
    BY <1>7 DEF UploadLands
  <2>2. s \in Requests /\ about[s] # None
    BY DEF Types, StoreType, RequestType
  <2>3. stored' \subseteq Keys \X Nat /\ \A o \in stored' : o[1][1] # 0 => about'[o[1][1]] # None
    BY <2>1, <2>2, RequestsNat DEF Put, Object, CopyKey, Types, StoreType, Keys, Paths
  <2>4. Grows
    BY <2>1 DEF Grows
  <2>5. StoreType'
    BY <2>1, <2>3 DEF Types, StoreType
  <2>6. \A r \in Requests : RequestType(r)'
    BY <2>1 DEF Types, RequestType, Kind, InFlight
  <2> QED BY <2>1, <2>4, <2>5, <2>6, CallsFrame DEF Types
<1>8. CASE UploadLost
  <2>1. UNCHANGED <<about, hs, row, stored, inserts, events, call>> /\ uploads' \subseteq uploads
    BY <1>8 DEF UploadLost
  <2>4. Grows
    BY <2>1 DEF Grows
  <2>5. StoreType'
    BY <2>1 DEF Types, StoreType
  <2>6. \A r \in Requests : RequestType(r)'
    BY <2>1 DEF Types, RequestType, Kind, InFlight
  <2> QED BY <2>1, <2>4, <2>5, <2>6, CallsFrame DEF Types
<1> QED BY <1>1, <1>2, <1>3, <1>4, <1>5, <1>6, <1>7, <1>8

\* Operations that touch nothing but files, and themselves.
LEMMA QuietTypes ==
  ASSUME Types, NEW c \in Calls, Steps(c), call'[c] \in Locals, call'[c].pc \in Places(call'[c].op),
         UNCHANGED <<about, hs, row, stored, inserts, uploads, events>>,
         call'[c].op \in {"copy", "sign"} => call'[c].r \in Requests,
         call'[c].op = "copy" => hs[call'[c].r] = "complete",
         call'[c].op = "sign" => call'[c].path \in Paths /\ about[call'[c].r] # None,
         call'[c].op = "onboard" => call'[c].todo \subseteq Kinds
  PROVE  Types' /\ Grows
<1>1. Grows /\ StoreType' /\ \A r \in Requests : RequestType(r)'
  BY StoreFrame
<1>2. DOMAIN call' = Calls /\ \A d \in Calls : CallType(call[d])'
  BY <1>1, CallsTyped
<1> QED BY <1>1, <1>2 DEF Types

LEMMA QuietOver ==
  ASSUME Types, NEW c \in Calls, Over(c),
         UNCHANGED <<about, hs, row, stored, inserts, uploads, events>>
  PROVE  Types' /\ Grows
BY StoreFrame, OverTypes DEF Types

LEMMA QuietPlace ==
  ASSUME Types, NEW c \in Calls, NEW pc, Place(c, pc), pc \in Places(call[c].op),
         UNCHANGED <<about, hs, row, stored, inserts, uploads, events>>
  PROVE  Types' /\ Grows
<1>1. CallType(call[c])
  BY LocalType
<1> QED BY <1>1, QuietTypes DEF Place, CallType

LEMMA SigningTypes ==
  ASSUME Types, FileInv, NEW c \in Calls,
         \/ Callback(c) \/ CheckForDuplicate(c) \/ CreateFileMetadata(c) \/ MarkCopied(c)
         \/ Sign(c) \/ ReadDocument(c) \/ GetObject(c) \/ UploadSigned(c) \/ MarkSigned(c)
  PROVE  Types' /\ Grows
<1> USE DEF flying, tables
<1>0. CallType(call[c]) /\ call[c] \in Locals
  BY LocalType
<1>1. CASE Callback(c)
  <2> PICK s \in events : /\ Began(c, "copy", "check", s)
                          /\ uploads' = uploads \cup {s} /\ events' = events \ {s}
    BY <1>1, CallbackDoes
  <2>1. UNCHANGED <<about, hs, row, stored, inserts>>
    BY <1>1 DEF Callback
  <2>2. s \in Requests /\ hs[s] = "complete"
    BY DEF Types, StoreType, RequestType
  <2>3. Grows
    BY <2>1 DEF Grows
  <2>4. StoreType'
    BY <2>1, <2>2 DEF Types, StoreType
  <2>5. \A r \in Requests : RequestType(r)'
    BY <2>1, <2>2 DEF Types, RequestType, Kind, InFlight
  <2>6. DOMAIN call' = Calls /\ \A d \in Calls : CallType(call[d])'
    <3>1. /\ Steps(c) /\ call'[c] \in Locals /\ call'[c].op = "copy" /\ call'[c].pc = "check"
          /\ call'[c].r = s
      BY DEF Began
    <3>2. call'[c].pc \in Places(call'[c].op)
      BY <3>1 DEF Places
    <3> QED BY <2>1, <2>2, <2>3, <3>1, <3>2, CallsTyped
  <2> QED BY <2>4, <2>5, <2>6, <2>3 DEF Types
<1>2. CASE CheckForDuplicate(c)
  <2>1. UNCHANGED <<about, hs, row, stored, inserts, uploads, events>> /\ "insert" \in Places(call[c].op)
    BY <1>2 DEF CheckForDuplicate, At, Places
  <2> QED BY <1>2, <2>1, CheckDoes, QuietOver, QuietPlace
<1>3. CASE CreateFileMetadata(c)
  <2>1. UNCHANGED <<about, hs, row, stored, inserts, uploads, events>> /\ "mark" \in Places(call[c].op)
    BY <1>3 DEF CreateFileMetadata, Places
  <2> QED BY <1>3, <2>1, CreateFileDoes, QuietOver, QuietPlace
<1>4. CASE MarkCopied(c) \/ MarkSigned(c)
  <2>1. UNCHANGED <<about, hs, stored, inserts, uploads, events>> /\ Over(c) /\ call[c].r \in Requests
    BY <1>0, <1>4, MarkCopiedDoes, MarkSignedDoes DEF MarkCopied, MarkSigned, At, CallType
  <2>2. DOMAIN row' = Requests /\ \A r \in Requests : row'[r] \in Rows /\ row'[r].there = row[r].there
    <3>1. CASE MarkCopied(c)
      <4>1. row' = [row EXCEPT ![call[c].r].status = IF row[call[c].r].there THEN "signed" ELSE @]
        BY <3>1 DEF MarkCopied
      <4> QED BY <4>1, <2>1 DEF Types, StoreType, Rows, Statuses
    <3>2. CASE MarkSigned(c)
      <4>1. row' = [row EXCEPT ![call[c].r] =
               IF @.there THEN [@ EXCEPT !.status = "signed", !.file = FileOf(c)] ELSE @]
        BY <3>2 DEF MarkSigned
      <4>2. FileOf(c) \in Nat
        BY CallsNat DEF FileOf
      <4> DEFINE old == row[call[c].r]
                 new == [old EXCEPT !.status = "signed", !.file = FileOf(c)]
      <4>3. old \in Rows /\ row \in [Requests -> Rows]
        BY <2>1 DEF Types, StoreType
      <4>4. row' = [row EXCEPT ![call[c].r] = IF old.there THEN new ELSE old]
        BY <4>1
      <4> HIDE DEF old
      <4>5. new \in Rows /\ new.there = old.there
        BY <4>2, <4>3 DEF Rows, Statuses
      <4>6. old.there = row[call[c].r].there
        BY DEF old
      <4> HIDE DEF new
      <4> QED BY <2>1, <4>3, <4>4, <4>5, <4>6
    <3> QED BY <1>4, <3>1, <3>2
  <2>3. row' \in [Requests -> Rows]
    <3>1. row' = [r \in DOMAIN row' |-> row'[r]]
      BY <1>4 DEF MarkCopied, MarkSigned, Types, StoreType
    <3> QED BY <2>2, <3>1
  <2>4. Grows
    BY <2>1 DEF Grows
  <2>5. StoreType'
    BY <2>1, <2>3 DEF Types, StoreType
  <2>6. \A r \in Requests : RequestType(r)'
    BY <2>1, <2>2 DEF Types, RequestType, Kind, InFlight
  <2> QED BY <2>1, <2>4, <2>5, <2>6, OverTypes DEF Types
<1>5. CASE Sign(c)
  <2> PICK r \in Created, path \in Paths : Began(c, "sign", "read", r) /\ call'[c].path = path
    BY <1>5, SignDoes
  <2>1. UNCHANGED <<about, hs, row, stored, inserts, uploads, events>>
    BY <1>5 DEF Sign
  <2>2. /\ Steps(c) /\ call'[c] \in Locals /\ call'[c].op = "sign" /\ call'[c].pc = "read"
        /\ call'[c].r = r
    BY DEF Began
  <2>3. call'[c].pc \in Places(call'[c].op)
    BY <2>2 DEF Places
  <2>4. r \in Requests /\ about[r] # None
    BY DEF Created
  <2> QED BY <2>1, <2>2, <2>3, <2>4, QuietTypes
<1>6. CASE ReadDocument(c)
  <2>1. UNCHANGED <<about, hs, row, stored, inserts, uploads, events>> /\ call[c].op = "sign"
    BY <1>6 DEF ReadDocument, At
  <2>2. CASE /\ Steps(c)
             /\ call'[c] \in Locals /\ call'[c].pc = "get"
             /\ call'[c].op = "sign" /\ call'[c].r = call[c].r /\ call'[c].path = call[c].path
    <3>1. call'[c].pc \in Places(call'[c].op)
      BY <2>2 DEF Places
    <3> QED BY <1>0, <2>1, <2>2, <3>1, QuietTypes DEF CallType
  <2> QED BY <1>6, <2>1, <2>2, ReadDoes, QuietOver
<1>7. CASE GetObject(c)
  <2>1. UNCHANGED <<about, hs, row, stored, inserts, uploads, events>> /\ call[c].op = "sign"
    BY <1>7 DEF GetObject, At
  <2>2. CASE /\ Steps(c)
             /\ call'[c] \in Locals /\ call'[c].pc = "upload"
             /\ call'[c].op = "sign" /\ call'[c].r = call[c].r /\ call'[c].path = call[c].path
    <3>1. call'[c].pc \in Places(call'[c].op)
      BY <2>2 DEF Places
    <3> QED BY <1>0, <2>1, <2>2, <3>1, QuietTypes DEF CallType
  <2> QED BY <1>7, <2>1, <2>2, GetDoes, QuietOver
<1>8. CASE UploadSigned(c)
  <2>1. UNCHANGED <<about, hs, row, inserts, uploads, events>> /\ Place(c, "insert")
        /\ call[c].op = "sign"
    BY <1>8, UploadSignedDoes DEF UploadSigned, At
  <2>2. call[c].r \in Requests /\ call[c].path \in Paths /\ about[call[c].r] # None
        /\ call[c].pages \in Nat
    BY <1>0, <2>1 DEF CallType, Locals
  <2>3. stored' \subseteq Keys \X Nat /\ \A o \in stored' : o[1][1] # 0 => about'[o[1][1]] # None
    <3>1. Put(CopyKey(call[c].r, call[c].path), call[c].pages)
      BY <1>8 DEF UploadSigned
    <3> QED BY <2>1, <2>2, <3>1, RequestsNat DEF Put, Object, CopyKey, Types, StoreType, Keys
  <2>4. Grows
    BY <2>1 DEF Grows
  <2>5. StoreType'
    BY <2>1, <2>3 DEF Types, StoreType
  <2>6. \A r \in Requests : RequestType(r)'
    BY <2>1 DEF Types, RequestType, Kind, InFlight
  <2>7. DOMAIN call' = Calls /\ \A d \in Calls : CallType(call[d])'
    <3>1. call'[c].pc \in Places(call'[c].op)
      BY <2>1 DEF Place, Places
    <3> QED BY <1>0, <2>1, <2>2, <2>4, <3>1, CallsTyped DEF Place, CallType
  <2> QED BY <2>4, <2>5, <2>6, <2>7 DEF Types
<1> QED BY <1>1, <1>2, <1>3, <1>4, <1>5, <1>6, <1>7, <1>8

LEMMA LessTypes ==
  ASSUME Types, NEW c \in Calls, NEW k, Less(c, k), Grows, call[c].op \notin {"copy", "sign"}
  PROVE  DOMAIN call' = Calls /\ \A d \in Calls : CallType(call[d])'
<1>0. CallType(call[c])
  BY LocalType
<1>1. CASE Over(c)
  BY <1>1, OverTypes
<1>2. CASE ~ Over(c)
  <2>1. /\ Steps(c)
        /\ call'[c] \in Locals /\ call'[c].op = call[c].op /\ call'[c].pc = call[c].pc
        /\ call'[c].todo = call[c].todo \ {k}
    BY <1>2 DEF Less
  <2>2. call'[c].pc \in Places(call'[c].op)
    BY <1>0, <2>1 DEF CallType
  <2>3. call'[c].op = "onboard" => call'[c].todo \subseteq Kinds
    BY <1>0, <2>1 DEF CallType
  <2> QED BY <2>1, <2>2, <2>3, CallsTyped
<1> QED BY <1>1, <1>2

LEMMA OtherTypes ==
  ASSUME Types, FileInv, NEW c \in Calls,
         \/ Change(c) \/ CancelAtHelloSign(c)
         \/ StartOnboarding(c) \/ ListExisting(c) \/ CreateForOnboarding(c) \/ CreationFails(c)
         \/ StartDeletion(c) \/ ListHelloSign(c) \/ ListSimple(c) \/ DeleteRows(c)
         \/ DeleteObject(c) \/ Fail(c)
  PROVE  Types' /\ Grows
<1> USE DEF flying, tables
<1>0. CallType(call[c]) /\ call[c] \in Locals
  BY LocalType
<1>1. CASE Change(c)
  <2> PICK r \in Created, op \in {"cancel"} \cup Statuses :
           /\ row[r].there
           /\ row' = [row EXCEPT ![r].status = IF op = "cancel" THEN "canceled" ELSE op]
           /\ Began(c, "cancel", "tell", r) \/ Over(c)
    BY <1>1, ChangeDoes
  <2>1. UNCHANGED <<about, hs, stored, inserts, uploads, events>>
    BY <1>1 DEF Change
  <2>2. row' \in [Requests -> Rows]
        /\ \A s \in Requests : row'[s].there = row[s].there
    BY DEF Types, StoreType, Rows, Statuses, Created
  <2>3. Grows
    BY <2>1 DEF Grows
  <2>4. StoreType'
    BY <2>1, <2>2 DEF Types, StoreType
  <2>5. \A s \in Requests : RequestType(s)'
    BY <2>1, <2>2 DEF Types, RequestType, Kind, InFlight
  <2>6. DOMAIN call' = Calls /\ \A d \in Calls : CallType(call[d])'
    <3>1. CASE Began(c, "cancel", "tell", r)
      <4>1. Steps(c) /\ call'[c] \in Locals /\ call'[c].op = "cancel" /\ call'[c].pc = "tell"
        BY <3>1 DEF Began
      <4>2. call'[c].pc \in Places(call'[c].op)
        BY <4>1 DEF Places
      <4> QED BY <2>3, <4>1, <4>2, CallsTyped
    <3>2. CASE Over(c)
      BY <2>3, <3>2, OverTypes
    <3> QED BY <3>1, <3>2
  <2> QED BY <2>3, <2>4, <2>5, <2>6 DEF Types
<1>2. CASE CancelAtHelloSign(c) \/ Fail(c)
  <2>1. UNCHANGED <<about, hs, row, stored, inserts, uploads, events>>
    BY <1>2 DEF CancelAtHelloSign, Fail
  <2> QED BY <1>2, <2>1, CancelDoes, FailDoes, QuietOver
<1>3. CASE StartOnboarding(c)
  <2>1. UNCHANGED <<about, hs, row, stored, inserts, uploads, events>>
    BY <1>3 DEF StartOnboarding
  <2>2. /\ Steps(c) /\ call'[c] \in Locals /\ call'[c].op = "onboard" /\ call'[c].pc = "list"
        /\ call'[c].todo = Kinds
    BY <1>3, OnboardingDoes DEF Began
  <2>3. call'[c].pc \in Places(call'[c].op)
    BY <2>2 DEF Places
  <2> QED BY <2>1, <2>2, <2>3, QuietTypes
<1>4. CASE ListExisting(c)
  <2>1. UNCHANGED <<about, hs, row, stored, inserts, uploads, events>> /\ call[c].op = "onboard"
    BY <1>4 DEF ListExisting, At
  <2>2. CASE /\ Steps(c) /\ call'[c] \in Locals /\ call'[c].op = "onboard"
             /\ call'[c].pc \in {"list", "create"} /\ call'[c].todo \subseteq Kinds
    <3>1. call'[c].pc \in Places(call'[c].op)
      BY <2>2 DEF Places
    <3> QED BY <2>1, <2>2, <3>1, QuietTypes
  <2>3. TaskList \subseteq Kinds /\ call[c].todo \subseteq Kinds
    BY <1>0, <2>1, HireAssumption DEF CallType
  <2>4. CASE Over(c)
    BY <2>1, <2>4, QuietOver
  <2>5. CASE ~ Over(c)
    <3> PICK k \in call[c].todo :
              /\ Steps(c)
              /\ call'[c] \in Locals /\ call'[c].op = "onboard"
              /\ \/ call'[c].pc = "list" /\ call'[c].todo = call[c].todo \ {k}
                 \/ call'[c].pc = "create" /\ call'[c].todo = TaskList
      BY <1>4, <2>5, ListDoes
    <3> QED BY <2>2, <2>3
  <2> QED BY <2>4, <2>5
<1>5. CASE CreateForOnboarding(c)
  <2> PICK k \in Kinds, r \in Requests : Adds({r}, k, TRUE) /\ Less(c, k)
    BY <1>5, CreateForDoes
  <2>1. UNCHANGED <<row, stored, uploads, events>> /\ call[c].op = "onboard"
    BY <1>5 DEF CreateForOnboarding, At
  <2>2. Grows /\ StoreType' /\ \A s \in Requests : RequestType(s)'
    BY <2>1, AddsTypes, AddsGrows
  <2> QED BY <2>1, <2>2, LessTypes DEF Types
<1>6. CASE CreationFails(c)
  <2> PICK k \in call[c].todo : Less(c, k)
    BY <1>6, FailsDoes
  <2>1. UNCHANGED <<about, hs, row, stored, inserts, uploads, events>> /\ call[c].op = "onboard"
    BY <1>6 DEF CreationFails, At
  <2> QED BY <2>1, LessTypes, StoreFrame DEF Types
<1>7. CASE StartDeletion(c)
  <2>1. UNCHANGED <<about, hs, row, stored, inserts, uploads, events>>
    BY <1>7 DEF StartDeletion
  <2>2. /\ Steps(c) /\ call'[c] \in Locals /\ call'[c].op = "delete"
        /\ call'[c].pc = "listHelloSign"
    BY <1>7, DeletionDoes DEF Began
  <2>3. call'[c].pc \in Places(call'[c].op)
    BY <2>2 DEF Places
  <2> QED BY <2>1, <2>2, <2>3, QuietTypes
<1>8. CASE ListHelloSign(c) \/ ListSimple(c)
  <2>1. UNCHANGED <<about, hs, row, stored, inserts, uploads, events>>
    BY <1>8 DEF ListHelloSign, ListSimple
  <2>2. CASE Over(c)
    BY <2>1, <2>2, QuietOver
  <2>3. CASE ~ Over(c)
    <3>1. /\ Steps(c) /\ call'[c] \in Locals /\ call'[c].op = "delete"
          /\ call'[c].pc \in {"delete", "listSimple"}
      BY <1>8, <2>3, ListHelloSignDoes, ListSimpleDoes
    <3>2. call'[c].pc \in Places(call'[c].op)
      BY <3>1 DEF Places
    <3> QED BY <2>1, <3>1, <3>2, QuietTypes
  <2> QED BY <2>2, <2>3
<1>9. CASE DeleteRows(c)
  <2>1. UNCHANGED <<about, hs, stored, inserts, uploads, events>> /\ call[c].op = "delete"
    BY <1>9 DEF DeleteRows, At
  <2>2. row' = [r \in Requests |-> IF r \in call[c].ids THEN NoRow ELSE row[r]]
    BY <1>9 DEF DeleteRows
  <2>3. row' \in [Requests -> Rows] /\ \A r \in Requests : row'[r].there => row[r].there
    BY <2>2 DEF Types, StoreType, NoRow, Rows, Statuses
  <2>4. Grows
    BY <2>1 DEF Grows
  <2>5. StoreType'
    BY <2>1, <2>3 DEF Types, StoreType
  <2>6. \A r \in Requests : RequestType(r)'
    BY <2>1, <2>3 DEF Types, RequestType, Kind, InFlight
  <2>7. CASE Over(c)
    BY <2>4, <2>5, <2>6, <2>7, OverTypes DEF Types
  <2>8. CASE Place(c, "objects")
    <3>1. call'[c].pc \in Places(call'[c].op)
      BY <2>1, <2>8 DEF Place, Places
    <3>2. DOMAIN call' = Calls /\ \A d \in Calls : CallType(call[d])'
      BY <1>0, <2>1, <2>4, <2>8, <3>1, CallsTyped DEF Place
    <3> QED BY <2>4, <2>5, <2>6, <3>2 DEF Types
  <2> QED BY <1>9, <2>7, <2>8, DeleteRowsDoes
<1>10. CASE DeleteObject(c)
  <2> PICK key \in call[c].todo : stored' = stored \ Object(key) /\ Less(c, key)
    BY <1>10, DeleteObjectDoes
  <2>1. UNCHANGED <<about, hs, row, inserts, uploads, events>> /\ call[c].op = "delete"
    BY <1>10 DEF DeleteObject, At
  <2>2. Grows
    BY <2>1 DEF Grows
  <2>3. StoreType'
    BY <2>1 DEF Types, StoreType
  <2>4. \A r \in Requests : RequestType(r)'
    BY <2>1 DEF Types, RequestType, Kind, InFlight
  <2> QED BY <2>1, <2>2, <2>3, <2>4, LessTypes DEF Types
<1> QED BY <1>1, <1>2, <1>3, <1>4, <1>5, <1>6, <1>7, <1>8, <1>9, <1>10

LEMMA MissedTypes ==
  ASSUME Types, NEW c \in Calls, Missed(c) \/ CancelMissed(c)
  PROVE  Types' /\ Grows
<1>1. UNCHANGED <<about, hs, row, stored, inserts, uploads, events>>
  BY MissedDoes, CancelMissedDoes
<1>2. CASE Over(c)
  BY <1>1, <1>2, QuietOver
<1>3. CASE \E r : Began(c, "cancel", "tell", r)
  <2>1. /\ Steps(c) /\ call'[c] \in Locals /\ call'[c].op = "cancel" /\ call'[c].pc = "tell"
    BY <1>3 DEF Began
  <2>2. call'[c].pc \in Places(call'[c].op)
    BY <2>1 DEF Places
  <2> QED BY <1>1, <2>1, <2>2, QuietTypes
<1>4. CASE Place(c, "mark") /\ call[c].op = "copy"
  BY <1>1, <1>4, QuietPlace DEF Places
<1>5. CASE Place(c, "objects") /\ call[c].op = "delete"
  BY <1>1, <1>5, QuietPlace DEF Places
<1> QED BY <1>2, <1>3, <1>4, <1>5, MissedDoes, CancelMissedDoes

LEMMA TypesKept ==
  ASSUME Types, FileInv, Next
  PROVE  Types' /\ Grows
BY FlightTypes, SigningTypes, OtherTypes, MissedTypes DEF Next, CallStep

-----------------------------------------------------------------------------
(* The rows of FileMetadata are the document's, and one for each call that   *)
(* inserted one.                                                            *)

LEMMA FileIds ==
  /\ \A c \in Calls : FileOf(c) \in Nat /\ FileOf(c) > 1
  /\ \A c, d \in Calls : FileOf(c) = FileOf(d) => c = d
BY CallsNat DEF FileOf

\* No call comes to mark what it has not marked, and none takes its row back.
CallQuiet ==
  \A c \in Calls :
    /\ NotInserted(c)' => NotInserted(c)
    /\ \A r \in Requests : Marks(c, r)' => Marks(c, r) /\ call'[c] = call[c]

LEMMA StepQuiet ==
  ASSUME NEW c \in Calls, Steps(c), call'[c].pc # "mark",
         call'[c].pc = "ended" \/ call[c].pc \notin {"mark", "ended"}
  PROVE  CallQuiet
<1> SUFFICES ASSUME NEW d \in Calls
             PROVE  /\ NotInserted(d)' => NotInserted(d)
                    /\ \A r \in Requests : Marks(d, r)' => Marks(d, r) /\ call'[d] = call[d]
  BY DEF CallQuiet
<1>1. CASE d = c
  BY <1>1 DEF NotInserted, Marks
<1>2. CASE d # c
  BY <1>2 DEF Steps, NotInserted, Marks
<1> QED BY <1>1, <1>2

LEMMA OverQuiet ==
  ASSUME NEW c \in Calls, Over(c)
  PROVE  CallQuiet
BY StepQuiet DEF Over

LEMMA BeganQuiet ==
  ASSUME NEW c \in Calls, NEW op, NEW pc, NEW r, Began(c, op, pc, r), pc # "mark"
  PROVE  CallQuiet
BY StepQuiet DEF Began

LEMMA PlaceQuiet ==
  ASSUME NEW c \in Calls, NEW pc, Place(c, pc), pc # "mark", call[c].pc \notin {"mark", "ended"}
  PROVE  CallQuiet
BY StepQuiet DEF Place

LEMMA LessQuiet ==
  ASSUME NEW c \in Calls, NEW k, Less(c, k), call[c].pc \notin {"mark", "ended"}
  PROVE  CallQuiet
<1>1. CASE Over(c)
  BY <1>1, OverQuiet
<1>2. CASE ~ Over(c)
  BY <1>2, StepQuiet DEF Less
<1> QED BY <1>1, <1>2

LEMMA FrameQuiet ==
  ASSUME UNCHANGED call
  PROVE  CallQuiet
BY DEF CallQuiet, NotInserted, Marks

\* The INSERT of a copy's row misses, and the call goes on to mark the request.
InsertMissed(c) == Missed(c) /\ call[c].pc = "insert"

LEMMA MissedQuiet ==
  ASSUME Types, NEW c \in Calls, Missed(c) \/ CancelMissed(c)
  PROVE  CallQuiet \/ InsertMissed(c)
<1>1. CASE CancelMissed(c)
  BY <1>1, CancelMissedDoes, BeganQuiet
<1>2. CASE Missed(c)
  <2>1. CASE Over(c)
    BY <2>1, OverQuiet
  <2>2. CASE Place(c, "objects") /\ call[c].pc = "delete"
    BY <2>2, PlaceQuiet
  <2> QED BY <1>2, <2>1, <2>2, MissedDoes DEF InsertMissed
<1> QED BY <1>1, <1>2

LEMMA NextQuiet ==
  ASSUME Types, FileInv, Next
  PROVE  CallQuiet \/ \E c \in Calls : CreateFileMetadata(c) \/ InsertMissed(c)
<1>1. CASE \/ SendSimple \/ SendHelloSign \/ InsertLands \/ InsertLost
           \/ SignAtHelloSign \/ Redelivered \/ CancelLands \/ UploadLands \/ UploadLost
  <2>1. UNCHANGED call
    BY <1>1 DEF SendSimple, SendHelloSign, InsertLands, InsertLost, SignAtHelloSign, Redelivered,
                CancelLands, UploadLands, UploadLost
  <2> QED BY <2>1, FrameQuiet
<1>2. ASSUME NEW c \in Calls, CallStep(c) PROVE CallQuiet \/ CreateFileMetadata(c) \/ InsertMissed(c)
  <2>1. CASE Callback(c)
    BY <2>1, CallbackDoes, BeganQuiet
  <2>2. CASE CheckForDuplicate(c)
    <3>1. call[c].pc = "check"
      BY <2>2 DEF CheckForDuplicate, At
    <3> QED BY <2>2, <3>1, CheckDoes, OverQuiet, PlaceQuiet
  <2>3. CASE MarkCopied(c) \/ MarkSigned(c) \/ CancelAtHelloSign(c) \/ Fail(c)
    BY <2>3, MarkCopiedDoes, MarkSignedDoes, CancelDoes, FailDoes, OverQuiet
  <2>4. CASE Sign(c)
    BY <2>4, SignDoes, BeganQuiet
  <2>5. CASE ReadDocument(c)
    <3>1. call[c].pc = "read"
      BY <2>5 DEF ReadDocument, At
    <3>2. Over(c) \/ (Steps(c) /\ call'[c].pc = "get")
      BY <2>5, ReadDoes
    <3> QED BY <3>1, <3>2, OverQuiet, StepQuiet
  <2>6. CASE GetObject(c)
    <3>1. call[c].pc = "get"
      BY <2>6 DEF GetObject, At
    <3>2. Over(c) \/ (Steps(c) /\ call'[c].pc = "upload")
      BY <2>6, GetDoes
    <3> QED BY <3>1, <3>2, OverQuiet, StepQuiet
  <2>7. CASE UploadSigned(c)
    <3>1. call[c].pc = "upload"
      BY <2>7 DEF UploadSigned, At
    <3> QED BY <2>7, <3>1, UploadSignedDoes, PlaceQuiet
  <2>8. CASE Change(c)
    <3>1. PICK r \in Created : Began(c, "cancel", "tell", r) \/ Over(c)
      BY <2>8, ChangeDoes
    <3> QED BY <3>1, OverQuiet, BeganQuiet
  <2>9. CASE StartOnboarding(c) \/ StartDeletion(c)
    BY <2>9, OnboardingDoes, DeletionDoes, BeganQuiet
  <2>10. CASE ListExisting(c)
    <3>1. call[c].pc = "list"
      BY <2>10 DEF ListExisting, At
    <3>2. Over(c) \/ (Steps(c) /\ call'[c].pc \in {"list", "create"})
      BY <2>10, ListDoes
    <3> QED BY <3>1, <3>2, OverQuiet, StepQuiet
  <2>11. CASE CreateForOnboarding(c) \/ CreationFails(c) \/ DeleteObject(c)
    <3>1. call[c].pc \in {"create", "objects"}
      BY <2>11 DEF CreateForOnboarding, CreationFails, DeleteObject, At
    <3>2. \E k : Less(c, k)
      BY <2>11, CreateForDoes, FailsDoes, DeleteObjectDoes
    <3> QED BY <3>1, <3>2, LessQuiet
  <2>12. CASE ListHelloSign(c) \/ ListSimple(c)
    <3>1. call[c].pc \in {"listHelloSign", "listSimple"}
      BY <2>12 DEF ListHelloSign, ListSimple, At
    <3>2. Over(c) \/ (Steps(c) /\ call'[c].pc \in {"listSimple", "delete"})
      BY <2>12, ListHelloSignDoes, ListSimpleDoes
    <3> QED BY <3>1, <3>2, OverQuiet, StepQuiet
  <2>13. CASE DeleteRows(c)
    <3>1. call[c].pc = "delete"
      BY <2>13 DEF DeleteRows, At
    <3> QED BY <2>13, <3>1, DeleteRowsDoes, OverQuiet, PlaceQuiet
  <2>14. CASE Missed(c) \/ CancelMissed(c)
    BY <2>14, MissedQuiet
  <2> QED BY <1>2, <2>1, <2>2, <2>3, <2>4, <2>5, <2>6, <2>7, <2>8, <2>9, <2>10, <2>11, <2>12,
             <2>13, <2>14 DEF CallStep
<1> QED BY <1>1, <1>2 DEF Next

LEMMA FileFrame ==
  ASSUME Types, FileInv, Types', Grows, CallQuiet, UNCHANGED files,
         \A r \in Requests : row'[r].file = row[r].file /\ (row'[r].there => row[r].there)
  PROVE  FileInv'
<1>1. files' \subseteq Files /\ \E f \in files' : f.id = 1 /\ f.of = 0
  BY DEF FileInv, FileRows, FileFresh, FileRefers
<1>2. ASSUME NEW f \in files'
      PROVE  /\ f.of = 0 => f.id = 1 /\ f.key = Document
             /\ f.of # 0 => /\ about'[f.of] # None
                            /\ \E c \in Calls : f.id = FileOf(c)
                            /\ \E p \in Paths : f.key = CopyKey(f.of, p)
  BY RequestsNat DEF FileInv, FileRows, FileFresh, FileRefers, Grows, Files
<1>3. \A f, g \in files' : f.id = g.id => f = g
  BY DEF FileInv, FileRows, FileFresh, FileRefers
<1>4. \A c \in Calls : NotInserted(c)' =>
        (\A f \in files' : f.id # FileOf(c)) /\ (\A r \in Requests : row'[r].file # FileOf(c))
  BY DEF FileInv, FileRows, FileFresh, FileRefers, CallQuiet
<1>5. \A c \in Calls : \A r \in Requests : Marks(c, r)' =>
        \A f \in files' : f.id = FileOf(c) => f.of = r
  BY DEF FileInv, FileRows, FileFresh, FileRefers, CallQuiet
<1>6. \A r \in Requests : \A f \in files' : row'[r].file = f.id => f.of \in {0, r}
  BY DEF FileInv, FileRows, FileFresh, FileRefers
<1>7. \A r \in Requests : row'[r].there => about'[r] = about[r] /\ row[r].there
  BY DEF Types, RequestType, Grows
<1>8. \A r \in Requests : row'[r].there => (about'[r].kind = "helloSign" => row'[r].file # 1)
                                      /\ (about'[r].kind = "simple" => row'[r].file # 0)
  BY <1>7 DEF FileInv, FileRows, FileFresh, FileRefers, Kind
<1> QED BY <1>1, <1>2, <1>3, <1>4, <1>5, <1>6, <1>8 DEF FileInv, FileRows, FileFresh, FileRefers, Kind

\* The rows of requests, where a row that was sent lands.
LEMMA LandsDoes ==
  ASSUME Types, InsertLands
  PROVE  \E batch \in inserts :
           /\ inserts' = inserts \ {batch}
           /\ \A r \in Requests : /\ r \in batch => row'[r] = Sent(r) /\ InFlight(r) /\ ~ InFlight(r)'
                                  /\ r \notin batch => row'[r] = row[r]
                                                       /\ (InFlight(r)' <=> InFlight(r))
<1> PICK batch \in inserts :
           /\ row' = [r \in Requests |-> IF r \in batch THEN Sent(r) ELSE row[r]]
           /\ inserts' = inserts \ {batch}
  BY DEF InsertLands
<1>1. ASSUME NEW r \in Requests, r \in batch PROVE InFlight(r) /\ ~ InFlight(r)'
  BY <1>1 DEF InFlight, Types, StoreType
<1>2. ASSUME NEW r \in Requests, r \notin batch PROVE InFlight(r)' <=> InFlight(r)
  BY <1>2 DEF InFlight
<1> QED BY <1>1, <1>2

LEMMA InsertLandsFiles ==
  ASSUME Types, FileInv, Types', InsertLands
  PROVE  FileInv'
<1>1. UNCHANGED <<about, files, call>>
  BY DEF InsertLands
<1>2. PICK batch \in inserts :
           \A r \in Requests : /\ r \in batch => row'[r] = Sent(r) /\ InFlight(r)
                               /\ r \notin batch => row'[r] = row[r]
  BY LandsDoes
<1>3. \A r \in Requests : Sent(r).file \in {0, 1} /\ (Sent(r).file = 1 <=> Kind(r) = "simple")
  BY DEF Sent, Kind
<1>4. \A f \in files : f.id # 0
  BY FileIds, RequestsNat DEF FileInv, FileRows, FileFresh, FileRefers, Files
<1>5. \A f \in files : f.id = 1 => f.of = 0
  BY DEF FileInv, FileRows, FileFresh, FileRefers
<1>6. \A c \in Calls : NotInserted(c)' =>
        (\A f \in files' : f.id # FileOf(c)) /\ (\A r \in Requests : row'[r].file # FileOf(c))
  BY <1>1, <1>2, <1>3, FileIds DEF FileInv, FileRows, FileFresh, FileRefers, NotInserted
<1>7. \A c \in Calls : \A r \in Requests : Marks(c, r)' =>
        \A f \in files' : f.id = FileOf(c) => f.of = r
  BY <1>1 DEF FileInv, FileRows, FileFresh, FileRefers, Marks
<1>8. \A r \in Requests : \A f \in files' : row'[r].file = f.id => f.of \in {0, r}
  BY <1>1, <1>2, <1>3, <1>4, <1>5 DEF FileInv, FileRows, FileFresh, FileRefers
<1>9. ASSUME NEW r \in Requests, row'[r].there
      PROVE  (Kind(r) = "helloSign" => row'[r].file # 1) /\ (Kind(r) = "simple" => row'[r].file # 0)
  BY <1>2, <1>3, <1>9 DEF FileInv, FileRows, FileFresh, FileRefers
<1> QED BY <1>1, <1>6, <1>7, <1>8, <1>9 DEF FileInv, FileRows, FileFresh, FileRefers, Kind

LEMMA CreateFileFiles ==
  ASSUME Types, FileInv, Types', NEW c \in Calls, CreateFileMetadata(c)
  PROVE  FileInv'
<1>1. UNCHANGED <<about, row>> /\ call[c].op \in {"copy", "sign"} /\ call[c].pc = "insert"
  BY DEF CreateFileMetadata
<1>2. CASE Over(c) /\ UNCHANGED files
  BY <1>1, <1>2, OverQuiet, FileFrame DEF Grows, CreateFileMetadata
<1>3. CASE Place(c, "mark") /\ ~ Over(c)
  <2> DEFINE r == call[c].r
  <2>1. PICK key \in Keys :
                  /\ files' = files \cup {[id |-> FileOf(c), of |-> r, key |-> key]}
                  /\ call[c].op = "copy" => key = CopyKey(r, "company")
                  /\ call[c].op = "sign" => key = CopyKey(r, call[c].path)
    BY <1>3, CreateFileDoes
  <2> DEFINE g == [id |-> FileOf(c), of |-> r, key |-> key]
  <2>2. r \in Requests /\ about[r] # None /\ \E p \in Paths : key = CopyKey(r, p)
    BY <1>1, <2>1, LocalType DEF CallType, Types, RequestType, Paths
  <2>3. g \in Files /\ g.id = FileOf(c) /\ g.of = r /\ g.key = key
    BY <2>2, FileIds, RequestsNat DEF Files
  <2>4. files' = files \cup {g}
    BY <2>1
  <2>5. call'[c].pc = "mark" /\ call'[c].r = r /\ call'[c].op = call[c].op
        /\ \A d \in Calls : d # c => call'[d] = call[d]
    BY <1>3 DEF Place, Steps
  <2> HIDE DEF r, g
  <2>6. (\A f \in files : f.id # FileOf(c)) /\ (\A s \in Requests : row[s].file # FileOf(c))
    BY <1>1 DEF FileInv, FileRows, FileFresh, FileRefers, NotInserted
  <2>7. files' \subseteq Files /\ \E f \in files' : f.id = 1 /\ f.of = 0
    BY <2>3, <2>4 DEF FileInv, FileRows, FileFresh, FileRefers
  <2>8. ASSUME NEW f \in files'
        PROVE  /\ f.of = 0 => f.id = 1 /\ f.key = Document
               /\ f.of # 0 => /\ about'[f.of] # None
                              /\ \E d \in Calls : f.id = FileOf(d)
                              /\ \E p \in Paths : f.key = CopyKey(f.of, p)
    BY <1>1, <2>2, <2>3, <2>4, RequestsNat DEF FileInv, FileRows, FileFresh, FileRefers
  <2>9. \A f, h \in files' : f.id = h.id => f = h
    BY <2>3, <2>4, <2>6 DEF FileInv, FileRows, FileFresh, FileRefers
  <2>10. ASSUME NEW d \in Calls, NotInserted(d)'
         PROVE  (\A f \in files' : f.id # FileOf(d)) /\ (\A s \in Requests : row'[s].file # FileOf(d))
    <3>1. d # c /\ NotInserted(d)
      BY <2>5, <2>10 DEF NotInserted
    <3> QED BY <1>1, <2>3, <2>4, <3>1, FileIds DEF FileInv, FileRows, FileFresh, FileRefers
  <2>11. ASSUME NEW d \in Calls, NEW s \in Requests, Marks(d, s)', NEW f \in files', f.id = FileOf(d)
         PROVE  f.of = s
    <3>1. CASE d = c
      <4>1. s = r
        BY <2>5, <2>11, <3>1 DEF Marks
      <4>2. f = g
        BY <2>4, <2>6, <2>11, <3>1
      <4> QED BY <2>3, <4>1, <4>2
    <3>2. CASE d # c
      <4>1. Marks(d, s)
        BY <2>5, <2>11, <3>2 DEF Marks
      <4>2. f \in files
        BY <2>3, <2>4, <2>11, <3>2, FileIds
      <4> QED BY <2>11, <4>1, <4>2 DEF FileInv, FileRows, FileFresh, FileRefers
    <3> QED BY <3>1, <3>2
  <2>12. \A s \in Requests : \A f \in files' : row'[s].file = f.id => f.of \in {0, s}
    BY <1>1, <2>3, <2>4, <2>6 DEF FileInv, FileRows, FileFresh, FileRefers
  <2>13. \A s \in Requests : row'[s].there => (about'[s].kind = "helloSign" => row'[s].file # 1)
                                      /\ (about'[s].kind = "simple" => row'[s].file # 0)
    BY <1>1 DEF FileInv, FileRows, FileFresh, FileRefers, Kind
  <2>14. \A f \in files' :
           /\ f.of = 0 => f.id = 1 /\ f.key = Document
           /\ f.of # 0 => /\ about'[f.of] # None
                          /\ \E d \in Calls : f.id = FileOf(d)
                          /\ \E p \in Paths : f.key = CopyKey(f.of, p)
    BY <2>8
  <2>15. \A d \in Calls : \A s \in Requests : Marks(d, s)' =>
            \A f \in files' : f.id = FileOf(d) => f.of = s
    BY <2>11
  <2>16. \A d \in Calls : NotInserted(d)' =>
            (\A f \in files' : f.id # FileOf(d)) /\ (\A s \in Requests : row'[s].file # FileOf(d))
    BY <2>10
  <2>17. FileRows'
    BY <2>7, <2>9, <2>14 DEF FileRows
  <2>18. FileFresh'
    BY <2>15, <2>16 DEF FileFresh
  <2>19. FileRefers'
    BY <2>12, <2>13 DEF FileRefers, Kind
  <2> QED BY <2>17, <2>18, <2>19 DEF FileInv
<1>4. Place(c, "mark") => ~ Over(c)
  BY DEF Place, Over
<1> QED BY <1>2, <1>3, <1>4, CreateFileDoes

\* A signed request refers to its copy.
LEMMA MarkSignedRows ==
  ASSUME Types, NEW c \in Calls, MarkSigned(c)
  PROVE  /\ call[c].r \in Requests /\ Marks(c, call[c].r)
         /\ \A r \in Requests \ {call[c].r} : row'[r] = row[r]
         /\ row[call[c].r].there =>
               /\ row'[call[c].r].there /\ row'[call[c].r].status = "signed"
               /\ row'[call[c].r].file = FileOf(c)
         /\ ~ row[call[c].r].there => row'[call[c].r] = row[call[c].r]
<1> DEFINE r == call[c].r
           old == row[r]
           new == [old EXCEPT !.status = "signed", !.file = FileOf(c)]
<1>1. r \in Requests /\ Marks(c, r)
  BY LocalType DEF MarkSigned, At, CallType, Marks
<1>2. row \in [Requests -> Rows] /\ old \in Rows
  BY <1>1 DEF Types, StoreType
<1>3. row' = [row EXCEPT ![r] = IF old.there THEN new ELSE old]
  BY DEF MarkSigned
<1>4. old = row[r]
  OBVIOUS
<1> HIDE DEF old
<1>5. new.there = old.there /\ new.status = "signed" /\ new.file = FileOf(c)
  BY <1>2 DEF Rows
<1> HIDE DEF new
<1> QED BY <1>1, <1>2, <1>3, <1>4, <1>5

LEMMA MarkSignedFiles ==
  ASSUME Types, FileInv, Types', Grows, NEW c \in Calls, MarkSigned(c)
  PROVE  FileInv'
<1> DEFINE r == call[c].r
<1>1. UNCHANGED <<about, files>> /\ CallQuiet /\ Over(c)
  BY MarkSignedDoes, OverQuiet DEF MarkSigned
<1>2. /\ r \in Requests /\ Marks(c, r)
      /\ \A s \in Requests : row'[s].file = row[s].file \/ (s = r /\ row'[s].file = FileOf(c))
      /\ \A s \in Requests : row'[s].there => row[s].there
  BY MarkSignedRows
<1> HIDE DEF r
<1>3. ASSUME NEW d \in Calls, NotInserted(d)'
      PROVE  (\A f \in files' : f.id # FileOf(d)) /\ (\A s \in Requests : row'[s].file # FileOf(d))
  <2>1. NotInserted(d) /\ d # c
    BY <1>1, <1>3 DEF CallQuiet, Over, NotInserted
  <2> QED BY <1>1, <1>2, <2>1, FileIds DEF FileInv, FileRows, FileFresh, FileRefers
<1>4. \A s \in Requests : \A f \in files' : row'[s].file = f.id => f.of \in {0, s}
  BY <1>1, <1>2 DEF FileInv, FileRows, FileFresh, FileRefers
<1>5. \A s \in Requests : row'[s].there => (about'[s].kind = "helloSign" => row'[s].file # 1)
                                      /\ (about'[s].kind = "simple" => row'[s].file # 0)
  BY <1>1, <1>2, FileIds DEF FileInv, FileRows, FileFresh, FileRefers, Kind
<1>6. \A d \in Calls : \A s \in Requests : Marks(d, s)' =>
        \A f \in files' : f.id = FileOf(d) => f.of = s
  BY <1>1 DEF FileInv, FileRows, FileFresh, FileRefers, CallQuiet
<1> QED BY <1>1, <1>3, <1>4, <1>5, <1>6 DEF FileInv, FileRows, FileFresh, FileRefers, Kind

LEMMA DeleteRowsDone ==
  ASSUME Types, NEW c \in Calls, DeleteRows(c)
  PROVE  /\ call[c].ids \subseteq Requests
         /\ \A r \in Requests : row'[r] = IF r \in call[c].ids THEN NoRow ELSE row[r]
         /\ files' = {f \in files : f.of \notin call[c].ids}
         /\ \A r \in call[c].ids : Had("removed", r)'
         /\ happened \subseteq happened'
BY LocalType DEF DeleteRows, Locals, Had, Note

LEMMA DeleteRowsFiles ==
  ASSUME Types, FileInv, Types', Grows, NEW c \in Calls, DeleteRows(c)
  PROVE  FileInv'
<1>1. UNCHANGED about /\ CallQuiet /\ call[c].pc = "delete"
  BY DeleteRowsDoes, OverQuiet, PlaceQuiet DEF DeleteRows, At
<1>2. files' \subseteq files /\ \A f \in files : f.of = 0 => f \in files'
  BY DeleteRowsDone, RequestsNat
<1>3. \A r \in Requests : /\ row'[r].file = row[r].file \/ row'[r].file = 0
                          /\ row'[r].there => row[r].there /\ row'[r].file = row[r].file
  BY DeleteRowsDone DEF NoRow
<1>4. \A f \in files : f.id # 0
  BY FileIds, RequestsNat DEF FileInv, FileRows, FileFresh, FileRefers, Files
<1>5. \A d \in Calls : NotInserted(d)' =>
        (\A f \in files' : f.id # FileOf(d)) /\ (\A s \in Requests : row'[s].file # FileOf(d))
  BY <1>1, <1>2, <1>3, FileIds DEF FileInv, FileRows, FileFresh, FileRefers, CallQuiet
<1>6. \A d \in Calls : \A s \in Requests : Marks(d, s)' =>
        \A f \in files' : f.id = FileOf(d) => f.of = s
  BY <1>1, <1>2 DEF FileInv, FileRows, FileFresh, FileRefers, CallQuiet
<1>7. \A s \in Requests : \A f \in files' : row'[s].file = f.id => f.of \in {0, s}
  BY <1>2, <1>3, <1>4 DEF FileInv, FileRows, FileFresh, FileRefers
<1>8. \A s \in Requests : row'[s].there => (about'[s].kind = "helloSign" => row'[s].file # 1)
                                      /\ (about'[s].kind = "simple" => row'[s].file # 0)
  BY <1>1, <1>3 DEF FileInv, FileRows, FileFresh, FileRefers, Kind
<1>9. files' \subseteq Files /\ \E f \in files' : f.id = 1 /\ f.of = 0
  BY <1>2 DEF FileInv, FileRows, FileFresh, FileRefers
<1>10. /\ \A f, g \in files' : f.id = g.id => f = g
       /\ \A f \in files' : /\ f.of = 0 => f.id = 1 /\ f.key = Document
                            /\ f.of # 0 => /\ about'[f.of] # None
                                           /\ \E d \in Calls : f.id = FileOf(d)
                                           /\ \E p \in Paths : f.key = CopyKey(f.of, p)
  BY <1>1, <1>2 DEF FileInv, FileRows, FileFresh, FileRefers
<1> QED BY <1>5, <1>6, <1>7, <1>8, <1>9, <1>10 DEF FileInv, FileRows, FileFresh, FileRefers, Kind

LEMMA ShapeOfSteps ==
  ASSUME Next
  PROVE  \/ InsertLands
         \/ \E c \in Calls : CreateFileMetadata(c) \/ MarkCopied(c) \/ MarkSigned(c) \/ Change(c)
                             \/ DeleteRows(c)
         \/ UNCHANGED <<row, files>>
BY DEF Next, CallStep, tables, flying, SendSimple, SendHelloSign, InsertLost, SignAtHelloSign,
       Redelivered, CancelLands, UploadLands, UploadLost, Callback, CheckForDuplicate, Sign,
       ReadDocument, GetObject, UploadSigned, CancelAtHelloSign, StartOnboarding, ListExisting,
       CreateForOnboarding, CreationFails, StartDeletion, ListHelloSign, ListSimple, DeleteObject,
       Fail, Missed, CancelMissed

LEMMA HistoryGrows ==
  ASSUME Next
  PROVE  happened \subseteq happened'
<1>1. CASE \/ SendSimple \/ SendHelloSign \/ InsertLands \/ InsertLost
           \/ SignAtHelloSign \/ Redelivered \/ CancelLands \/ UploadLands \/ UploadLost
  BY <1>1 DEF SendSimple, SendHelloSign, InsertLands, InsertLost, SignAtHelloSign, Redelivered,
              CancelLands, UploadLands, UploadLost, Note
<1>2. ASSUME NEW c \in Calls,
             \/ Callback(c) \/ CheckForDuplicate(c) \/ CreateFileMetadata(c) \/ MarkCopied(c)
             \/ Sign(c) \/ ReadDocument(c) \/ GetObject(c) \/ UploadSigned(c) \/ MarkSigned(c)
      PROVE  happened \subseteq happened'
  BY <1>2 DEF Callback, CheckForDuplicate, CreateFileMetadata, MarkCopied, Sign, ReadDocument,
              GetObject, UploadSigned, MarkSigned, Note, Overlapped
<1>3. ASSUME NEW c \in Calls,
             \/ Change(c) \/ CancelAtHelloSign(c)
             \/ StartOnboarding(c) \/ ListExisting(c) \/ CreateForOnboarding(c) \/ CreationFails(c)
             \/ StartDeletion(c) \/ ListHelloSign(c) \/ ListSimple(c) \/ DeleteRows(c)
             \/ DeleteObject(c) \/ Fail(c)
      PROVE  happened \subseteq happened'
  BY <1>3 DEF Change, CancelAtHelloSign, StartOnboarding, ListExisting, CreateForOnboarding,
              CreationFails, StartDeletion, ListHelloSign, ListSimple, DeleteRows, DeleteObject,
              Fail, Note
<1>4. ASSUME NEW c \in Calls, Missed(c) \/ CancelMissed(c)
      PROVE  happened \subseteq happened'
  BY <1>4 DEF Missed, CancelMissed, Note
<1> QED BY <1>1, <1>2, <1>3, <1>4 DEF Next, CallStep

\* A status is set, and nothing else of a row.
LEMMA StatusRows ==
  ASSUME Types, NEW c \in Calls, MarkCopied(c) \/ Change(c)
  PROVE  /\ UNCHANGED files
         /\ \A r \in Requests : row'[r].there = row[r].there /\ row'[r].file = row[r].file
<1>1. CASE MarkCopied(c)
  BY <1>1 DEF MarkCopied, Types, StoreType, Rows
<1>2. CASE Change(c)
  <2>1. PICK r \in Created, op \in {"cancel"} \cup Statuses :
             row' = [row EXCEPT ![r].status = IF op = "cancel" THEN "canceled" ELSE op]
    BY <1>2, ChangeDoes
  <2> DEFINE s == IF op = "cancel" THEN "canceled" ELSE op
  <2>2. row' = [row EXCEPT ![r].status = s]
    BY <2>1
  <2> HIDE DEF s
  <2>3. UNCHANGED files
    BY <1>2 DEF Change
  <2>4. row \in [Requests -> Rows]
    BY DEF Types, StoreType
  <2> QED BY <2>2, <2>3, <2>4 DEF Rows
<1> QED BY <1>1, <1>2

\* The steps that leave the files and what the rows refer to as they are.
LEMMA RowsAlike ==
  ASSUME Types, Next
  PROVE  \/ InsertLands
         \/ \E c \in Calls : CreateFileMetadata(c) \/ MarkSigned(c) \/ DeleteRows(c)
         \/ /\ UNCHANGED files
            /\ \A r \in Requests : row'[r].there = row[r].there /\ row'[r].file = row[r].file
BY ShapeOfSteps, StatusRows

\* What the call that goes on to mark the request without a row leaves as it was.
LEMMA InsertMissedDoes ==
  ASSUME Types, NEW c \in Calls, InsertMissed(c)
  PROVE  /\ UNCHANGED <<about, row, files>> /\ happened \subseteq happened'
         /\ NotInserted(c) /\ call[c].op = "copy" /\ call'[c].op = "copy"
         /\ call'[c].r = call[c].r /\ ~ NotInserted(c)' /\ <<"missed", call[c].r>> \in happened'
         /\ \A d \in Calls \ {c} : call'[d] = call[d]
BY MissedDoes DEF InsertMissed, NotInserted, Place, Steps

LEMMA InsertMissedFiles ==
  ASSUME Types, FileInv, NEW c \in Calls, InsertMissed(c)
  PROVE  FileInv'
<1>1. UNCHANGED <<about, row, files>>
  BY InsertMissedDoes
<1>2. \A d \in Calls : NotInserted(d)' => NotInserted(d)
  BY InsertMissedDoes DEF NotInserted
<1>3. ASSUME NEW d \in Calls, NEW r \in Requests, Marks(d, r)', NEW f \in files, f.id = FileOf(d)
      PROVE  f.of = r
  <2>1. d # c
    BY <1>3, InsertMissedDoes DEF FileInv, FileFresh
  <2>2. Marks(d, r)
    BY <1>3, <2>1, InsertMissedDoes DEF Marks
  <2> QED BY <1>3, <2>2 DEF FileInv, FileFresh
<1>4. FileRows'
  BY <1>1 DEF FileInv, FileRows
<1>5. FileFresh'
  BY <1>1, <1>2, <1>3 DEF FileInv, FileFresh
<1>6. FileRefers'
  BY <1>1 DEF FileInv, FileRefers, Kind
<1> QED BY <1>4, <1>5, <1>6 DEF FileInv

LEMMA FileKept ==
  ASSUME Types, FileInv, Next
  PROVE  FileInv'
<1>0. Types' /\ Grows
  BY TypesKept
<1>1. CASE InsertLands
  BY <1>0, <1>1, InsertLandsFiles
<1>2. ASSUME NEW c \in Calls, CreateFileMetadata(c) PROVE FileInv'
  BY <1>0, <1>2, CreateFileFiles
<1>3. ASSUME NEW c \in Calls, MarkSigned(c) PROVE FileInv'
  BY <1>0, <1>3, MarkSignedFiles
<1>4. ASSUME NEW c \in Calls, DeleteRows(c) PROVE FileInv'
  BY <1>0, <1>4, DeleteRowsFiles
<1>5. CASE /\ UNCHANGED files
           /\ \A r \in Requests : row'[r].there = row[r].there /\ row'[r].file = row[r].file
           /\ CallQuiet
  BY <1>0, <1>5, FileFrame
<1>6. ASSUME NEW c \in Calls, InsertMissed(c) PROVE FileInv'
  BY <1>6, InsertMissedFiles
<1> QED BY <1>1, <1>2, <1>3, <1>4, <1>5, <1>6, RowsAlike, NextQuiet

LEMMA InitFiles == Init => FileInv /\ RowKept
<1> SUFFICES ASSUME Init PROVE FileInv /\ RowKept
  OBVIOUS
<1> DEFINE d == [id |-> 1, of |-> 0, key |-> Document]
<1>1. files = {d} /\ d.id = 1 /\ d.of = 0 /\ d.key = Document
  BY DEF Init
<1>2. d \in Files
  BY DocumentKey, BoundAssumption DEF Files
<1> HIDE DEF d
<1>3. \A c \in Calls : call[c].pc = "idle"
  BY IdleType DEF Init
<1>4. \A r \in Requests : ~ row[r].there /\ row[r].file = 0
  BY DEF Init, NoRow
<1>5. FileRows
  BY <1>1, <1>2 DEF FileRows
<1>6. FileFresh
  BY <1>1, <1>3, <1>4, FileIds DEF FileFresh, Marks
<1>7. FileRefers
  BY <1>1, <1>4 DEF FileRefers
<1>8. RowKept
  BY <1>3, <1>4 DEF RowKept, Marks
<1> QED BY <1>5, <1>6, <1>7, <1>8 DEF FileInv

\* The row of FileMetadata that c inserted for r.
Inserted(c, r) ==
  \E f \in files : /\ f.id = FileOf(c) /\ f.of = r
                   /\ call[c].op = "copy" => f.key = CopyKey(r, "company")
                   /\ call[c].op = "sign" => f.key = CopyKey(r, call[c].path)

\* Why c may be about to mark r without a row of FileMetadata.
Excused(c, r) == Had("removed", r) \/ (call[c].op = "copy" /\ Had("missed", r))

LEMMA RowKeptKept ==
  ASSUME Types, FileInv, RowKept, Next
  PROVE  RowKept'
<1> USE DEF Had
<1>0. happened \subseteq happened' /\ Types' /\ Grows
  BY HistoryGrows, TypesKept
<1>1. ASSUME CallQuiet, files \subseteq files'
      PROVE  \A c \in Calls : \A r \in Requests : Marks(c, r)' => Inserted(c, r)' \/ Excused(c, r)'
  BY <1>0, <1>1 DEF CallQuiet, RowKept, Inserted, Excused
<1>2. CASE InsertLands
  <2>1. UNCHANGED <<files, call>>
    BY <1>2 DEF InsertLands
  <2>2. CallQuiet
    BY <2>1, FrameQuiet
  <2>3. \A r \in Requests : row'[r].file \in {0, 1} \/ row'[r] = row[r]
    <3>1. PICK batch \in inserts :
             \A r \in Requests : /\ r \in batch => row'[r] = Sent(r)
                                 /\ r \notin batch => row'[r] = row[r]
      BY <1>2, LandsDoes
    <3>2. \A r \in Requests : Sent(r).file \in {0, 1}
      BY DEF Sent
    <3> QED BY <3>1, <3>2
  <2>4. \A r \in Requests : row'[r].there /\ row'[r].file # 0 =>
          (\E f \in files' : f.id = row'[r].file) \/ Had("removed", r)'
    BY <1>0, <2>1, <2>3 DEF RowKept, FileInv, FileRows
  <2> QED BY <1>1, <2>1, <2>2, <2>4 DEF RowKept, Inserted, Excused
<1>3. ASSUME NEW c \in Calls, CreateFileMetadata(c) PROVE RowKept'
  <2>1. UNCHANGED row
    BY <1>3 DEF CreateFileMetadata, tables
  <2>2. CASE Over(c) /\ UNCHANGED files
    BY <1>0, <1>1, <2>1, <2>2, OverQuiet DEF RowKept, Inserted, Excused
  <2>3. CASE Place(c, "mark") /\ ~ (Over(c) /\ UNCHANGED files)
    <3> PICK key \in Keys :
            /\ files' = files \cup {[id |-> FileOf(c), of |-> call[c].r, key |-> key]}
            /\ call[c].op = "copy" => key = CopyKey(call[c].r, "company")
            /\ call[c].op = "sign" => key = CopyKey(call[c].r, call[c].path)
      BY <1>3, <2>3, CreateFileDoes
    <3> DEFINE g == [id |-> FileOf(c), of |-> call[c].r, key |-> key]
    <3>1. g \in files' /\ g.id = FileOf(c) /\ g.of = call[c].r /\ g.key = key /\ files \subseteq files'
      OBVIOUS
    <3> HIDE DEF g
    <3>2. call'[c].r = call[c].r /\ call'[c].op = call[c].op /\ call'[c].path = call[c].path
          /\ \A d \in Calls \ {c} : call'[d] = call[d]
      BY <2>3 DEF Place, Steps
    <3>3. ASSUME NEW d \in Calls, NEW r \in Requests, Marks(d, r)'
          PROVE  Inserted(d, r)' \/ Excused(d, r)'
      <4>1. CASE d = c
        <5>1. r = call[c].r
          BY <3>2, <3>3, <4>1 DEF Marks
        <5> QED BY <3>1, <3>2, <4>1, <5>1 DEF Inserted
      <4>2. CASE d # c
        <5>1. Marks(d, r) /\ call'[d] = call[d]
          BY <3>2, <3>3, <4>2 DEF Marks
        <5> QED BY <1>0, <3>1, <5>1 DEF Inserted, RowKept, Excused
      <4> QED BY <4>1, <4>2
    <3>4. \A r \in Requests : row'[r].there /\ row'[r].file # 0 =>
          (\E f \in files' : f.id = row'[r].file) \/ Had("removed", r)'
      BY <1>0, <2>1, <3>1 DEF RowKept
    <3> QED BY <3>3, <3>4 DEF RowKept, Inserted, Excused
  <2> QED BY <1>3, <2>2, <2>3, CreateFileDoes
<1>4. ASSUME NEW c \in Calls, MarkSigned(c) PROVE RowKept'
  <2>1. UNCHANGED files /\ CallQuiet /\ call[c].op = "sign"
    BY <1>4, MarkSignedDoes, OverQuiet DEF MarkSigned, At
  <2>2. ASSUME NEW r \in Requests, row'[r].there, row'[r].file # 0
        PROVE  (\E f \in files' : f.id = row'[r].file) \/ Had("removed", r)'
    <3>1. CASE r = call[c].r
      <4>1. Marks(c, r) /\ row'[r].file \in {row[r].file, FileOf(c)}
            /\ (row'[r].file = row[r].file \/ row[r].there) /\ row[r].there
        BY <1>4, <2>2, <3>1, MarkSignedRows
      <4>2. (\E f \in files : f.id = FileOf(c)) \/ Had("removed", r)
        BY <2>1, <4>1 DEF RowKept
      <4>3. row'[r].file = row[r].file => (\E f \in files : f.id = row'[r].file) \/ Had("removed", r)
        BY <2>2, <4>1 DEF RowKept
      <4> QED BY <1>0, <2>1, <4>1, <4>2, <4>3
    <3>2. CASE r # call[c].r
      BY <1>0, <1>4, <2>1, <2>2, <3>2, MarkSignedRows DEF RowKept
    <3> QED BY <3>1, <3>2
  <2> QED BY <1>1, <2>1, <2>2 DEF RowKept, Inserted, Excused
<1>5. ASSUME NEW c \in Calls, DeleteRows(c) PROVE RowKept'
  <2>1. CallQuiet
    <3>1. call[c].pc = "delete"
      BY <1>5 DEF DeleteRows, At
    <3> QED BY <1>5, <3>1, DeleteRowsDoes, OverQuiet, PlaceQuiet
  <2>2. ASSUME NEW r \in Requests, row'[r].there, row'[r].file # 0
        PROVE  (\E f \in files' : f.id = row'[r].file) \/ Had("removed", r)'
    <3>1. row'[r] = row[r] /\ r \notin call[c].ids /\ 0 \notin call[c].ids
      BY <1>5, <2>2, DeleteRowsDone, RequestsNat DEF NoRow
    <3> QED BY <1>0, <1>5, <2>2, <3>1, DeleteRowsDone DEF RowKept, FileInv, FileRefers
  <2>3. ASSUME NEW d \in Calls, NEW r \in Requests, Marks(d, r)'
        PROVE  Inserted(d, r)' \/ Excused(d, r)'
    <3>1. Marks(d, r) /\ call'[d] = call[d]
      BY <2>1, <2>3 DEF CallQuiet
    <3>2. CASE r \in call[c].ids
      BY <1>5, <3>2, DeleteRowsDone DEF Excused
    <3>3. CASE r \notin call[c].ids
      BY <1>0, <1>5, <3>1, <3>3, DeleteRowsDone DEF RowKept, Inserted, Excused
    <3> QED BY <3>2, <3>3
  <2> QED BY <2>2, <2>3 DEF RowKept, Inserted, Excused
<1>6. CASE /\ UNCHANGED files
           /\ \A r \in Requests : row'[r].there = row[r].there /\ row'[r].file = row[r].file
           /\ CallQuiet
  <2>1. \A r \in Requests : row'[r].there /\ row'[r].file # 0 =>
          (\E f \in files' : f.id = row'[r].file) \/ Had("removed", r)'
    BY <1>0, <1>6 DEF RowKept
  <2> QED BY <1>1, <1>6, <2>1 DEF RowKept, Inserted, Excused
<1>7. ASSUME NEW c \in Calls, InsertMissed(c) PROVE RowKept'
  <2>1. UNCHANGED <<row, files>>
    BY <1>7, InsertMissedDoes
  <2>2. \A r \in Requests : row'[r].there /\ row'[r].file # 0 =>
          (\E f \in files' : f.id = row'[r].file) \/ Had("removed", r)'
    BY <1>0, <2>1 DEF RowKept
  <2>3. ASSUME NEW d \in Calls, NEW r \in Requests, Marks(d, r)'
        PROVE  Inserted(d, r)' \/ Excused(d, r)'
    <3>1. CASE d = c
      BY <1>7, <2>3, <3>1, InsertMissedDoes DEF Marks, Excused
    <3>2. CASE d # c
      <4>1. Marks(d, r) /\ call'[d] = call[d]
        BY <1>7, <2>3, <3>2, InsertMissedDoes DEF Marks
      <4> QED BY <1>0, <2>1, <4>1 DEF RowKept, Inserted, Excused
    <3> QED BY <3>1, <3>2
  <2> QED BY <2>2, <2>3 DEF RowKept, Inserted, Excused
<1> QED BY <1>2, <1>3, <1>4, <1>5, <1>6, <1>7, RowsAlike, NextQuiet

-----------------------------------------------------------------------------
(* The objects of what was signed are kept.                                 *)

LEMMA InitObjects == Init => ObjectInv
<1> SUFFICES ASSUME Init PROVE ObjectInv
  OBVIOUS
<1>1. \A c \in Calls : call[c].op = None
  BY IdleType DEF Init
<1>2. DocumentKept
  <2>1. <<Document, 0>> \in Object(Document)
    BY DEF Init, Object
  <2> QED BY <2>1 DEF DocumentKept
<1>3. \A r \in Requests : RowBacked(r)
  BY DEF Init, NoRow, RowBacked
<1>4. \A c \in Calls : CallBacked(c)
  BY <1>1, Operates DEF CallBacked
<1> QED BY <1>2, <1>3, <1>4 DEF ObjectInv

\* What is uploaded stays, and what was to be uploaded is, or is lost.
ObjectsStay ==
  /\ happened \subseteq happened'
  /\ \A key : Object(key) # {} => Object(key)' # {}
  /\ \A r \in uploads :
        r \in uploads' \/ Object(CopyKey(r, "company"))' # {} \/ Had("uploadLost", r)'

LEMMA RowsBacked ==
  ASSUME Types, ObjectInv, ObjectsStay, files \subseteq files', NEW r \in Requests,
         row'[r].there /\ row'[r].status = "signed" =>
            row[r].there /\ row[r].status = "signed" /\ row'[r].file = row[r].file
  PROVE  RowBacked(r)'
<1> SUFFICES ASSUME row'[r].there, row'[r].status = "signed"
             PROVE  /\ (\E f \in Copies(r)' : Backed(f)')
                       \/ Had("signed", r)' \/ Had("uploadLost", r)' \/ Gone(r)'
                    /\ row'[r].file # 1 \/ Had("signed", r)'
  BY DEF RowBacked
<1> USE DEF Had, Gone
<1>1. RowBacked(r) /\ row[r].there /\ row[r].status = "signed" /\ row'[r].file = row[r].file
  BY DEF ObjectInv
<1>2. ASSUME NEW f \in Copies(r), Backed(f)
      PROVE  f \in Copies(r)' /\ (Backed(f)' \/ Had("uploadLost", r)')
  <2>1. f \in files /\ f.of = r /\ f \in Copies(r)'
    BY <1>2 DEF Copies
  <2>2. CASE Object(f.key) # {}
    BY <2>1, <2>2 DEF ObjectsStay, Backed
  <2>3. CASE f.key = CopyKey(r, "company") /\ r \in uploads
    BY <2>1, <2>3 DEF ObjectsStay, Backed
  <2> QED BY <1>2, <2>1, <2>2, <2>3 DEF Backed
<1> QED BY <1>1, <1>2 DEF RowBacked, ObjectsStay

LEMMA CallsBacked ==
  ASSUME Types, ObjectInv, ObjectsStay, NEW c \in Calls, call'[c] = call[c]
  PROVE  CallBacked(c)'
<1> USE DEF Had, Gone
<1>1. CallBacked(c)
  BY DEF ObjectInv
<1>2. happened \subseteq happened'
  BY DEF ObjectsStay
<1>3. Takes(c) => Takes(c)'
  BY <1>2 DEF Takes
<1>4. \A r : Uploaded(r) => Uploaded(r)'
  BY <1>2 DEF Uploaded, HasObject, ObjectsStay
<1>5. \A r, p : HasObject(r, p) => HasObject(r, p)'
  BY DEF HasObject, ObjectsStay
<1> QED BY <1>1, <1>2, <1>3, <1>4, <1>5 DEF CallBacked

LEMMA DocumentStays ==
  ASSUME ObjectInv, ObjectsStay
  PROVE  DocumentKept'
BY DEF ObjectInv, ObjectsStay, DocumentKept, Had, Gone

\* A step of c that only adds to the objects and the rows of files.
LEMMA ObjectFrame ==
  ASSUME Types, ObjectInv, ObjectsStay, files \subseteq files', NEW c \in Calls, Steps(c),
         CallBacked(c)',
         \A r \in Requests : row'[r].there /\ row'[r].status = "signed" =>
            row[r].there /\ row[r].status = "signed" /\ row'[r].file = row[r].file
  PROVE  ObjectInv'
<1>1. \A r \in Requests : RowBacked(r)'
  BY RowsBacked
<1>2. \A d \in Calls : CallBacked(d)'
  BY CallsBacked DEF Steps
<1> QED BY <1>1, <1>2, DocumentStays DEF ObjectInv

LEMMA ObjectFrameAll ==
  ASSUME Types, ObjectInv, ObjectsStay, files \subseteq files', UNCHANGED call,
         \A r \in Requests : row'[r].there /\ row'[r].status = "signed" =>
            row[r].there /\ row[r].status = "signed" /\ row'[r].file = row[r].file
  PROVE  ObjectInv'
<1>1. \A r \in Requests : RowBacked(r)'
  BY RowsBacked
<1>2. \A d \in Calls : CallBacked(d)'
  BY CallsBacked
<1> QED BY <1>1, <1>2, DocumentStays DEF ObjectInv

LEMMA StoredStays ==
  ASSUME happened \subseteq happened', UNCHANGED stored, uploads \subseteq uploads'
  PROVE  ObjectsStay
BY DEF ObjectsStay, Object

LEMMA PutStays ==
  ASSUME NEW key, NEW pages, Put(key, pages)
  PROVE  /\ Object(key)' # {}
         /\ \A k : Object(k) # {} => Object(k)' # {}
<1>1. <<key, pages>> \in Object(key)'
  BY DEF Put, Object
<1>2. ASSUME NEW k, k # key, NEW o \in Object(k) PROVE o \in Object(k)'
  BY <1>2 DEF Put, Object
<1> QED BY <1>1, <1>2

LEMMA OverBacked ==
  ASSUME NEW c \in Calls, call'[c].op \notin {"delete", "copy", "sign"}
  PROVE  CallBacked(c)'
BY DEF CallBacked

LEMMA FlightObjects ==
  ASSUME Types, ObjectInv,
         \/ SendSimple \/ SendHelloSign \/ InsertLands \/ InsertLost
         \/ SignAtHelloSign \/ Redelivered \/ CancelLands \/ UploadLands \/ UploadLost
  PROVE  ObjectInv'
<1> USE DEF tables, flying
<1>0. happened \subseteq happened'
  BY HistoryGrows DEF Next
<1>1. CASE SendSimple \/ SendHelloSign \/ SignAtHelloSign \/ Redelivered \/ CancelLands \/ InsertLost
  <2>1. UNCHANGED <<row, files, stored, uploads, call>>
    BY <1>1 DEF SendSimple, SendHelloSign, SignAtHelloSign, Redelivered, CancelLands, InsertLost
  <2> QED BY <1>0, <2>1, StoredStays, ObjectFrameAll
<1>2. CASE InsertLands
  <2>1. UNCHANGED <<files, stored, uploads, call>>
    BY <1>2 DEF InsertLands
  <2>2. PICK batch \in inserts :
             \A r \in Requests : /\ r \in batch => row'[r] = Sent(r)
                                 /\ r \notin batch => row'[r] = row[r]
    BY <1>2, LandsDoes
  <2>3. \A r \in Requests : Sent(r).status # "signed"
    BY DEF Sent
  <2>4. \A r \in Requests : row'[r].there /\ row'[r].status = "signed" =>
            row[r].there /\ row[r].status = "signed" /\ row'[r].file = row[r].file
    BY <2>2, <2>3
  <2> QED BY <1>0, <2>1, <2>4, StoredStays, ObjectFrameAll
<1>3. CASE UploadLands
  <2> PICK r \in uploads : Put(CopyKey(r, "company"), 0) /\ uploads' = uploads \ {r}
    BY <1>3 DEF UploadLands
  <2>1. UNCHANGED <<row, files, call>>
    BY <1>3 DEF UploadLands
  <2>2. ObjectsStay
    BY <1>0, PutStays DEF ObjectsStay
  <2> QED BY <2>1, <2>2, ObjectFrameAll
<1>4. CASE UploadLost
  <2> PICK r \in uploads : Note("uploadLost", {r}) /\ uploads' = uploads \ {r}
    BY <1>4 DEF UploadLost
  <2>1. UNCHANGED <<row, files, stored, call>>
    BY <1>4 DEF UploadLost
  <2>2. ObjectsStay
    BY <1>0, <2>1 DEF ObjectsStay, Object, Note, Had, Gone
  <2> QED BY <2>1, <2>2, ObjectFrameAll
<1> QED BY <1>1, <1>2, <1>3, <1>4

LEMMA SigningObjects ==
  ASSUME Types, FileInv, RowKept, ObjectInv, NEW c \in Calls,
         \/ Callback(c) \/ CheckForDuplicate(c) \/ CreateFileMetadata(c) \/ MarkCopied(c)
         \/ Sign(c) \/ ReadDocument(c) \/ GetObject(c) \/ UploadSigned(c) \/ MarkSigned(c)
  PROVE  ObjectInv'
<1> USE DEF tables, flying
<1>0. happened \subseteq happened'
  BY HistoryGrows DEF Next, CallStep
<1>a. CallBacked(c)
  BY DEF ObjectInv
<1>1. CASE Callback(c)
  <2> PICK r \in events : Began(c, "copy", "check", r) /\ uploads' = uploads \cup {r}
    BY <1>1, CallbackDoes
  <2>1. UNCHANGED <<row, files, stored>>
    BY <1>1 DEF Callback
  <2>2. Steps(c) /\ call'[c].op = "copy" /\ call'[c].r = r
    BY DEF Began
  <2>3. CallBacked(c)'
    BY <2>2 DEF CallBacked, Uploaded
  <2> QED BY <1>0, <2>1, <2>2, <2>3, StoredStays, ObjectFrame
<1>2. CASE CheckForDuplicate(c)
  <2>1. UNCHANGED <<row, files, stored, uploads>> /\ call[c].op = "copy"
    BY <1>2 DEF CheckForDuplicate, At
  <2>2. ObjectsStay
    BY <1>0, <2>1, StoredStays
  <2>3. Over(c) \/ Place(c, "insert")
    BY <1>2, CheckDoes
  <2>4. CallBacked(c)'
    <3>1. CASE Over(c)
      BY <3>1, OverBacked, Operates DEF Over
    <3>2. CASE Place(c, "insert")
      BY <1>0, <1>a, <2>1, <3>2 DEF Place, CallBacked, Uploaded, HasObject, Object, Had, Gone
    <3> QED BY <2>3, <3>1, <3>2
  <2> QED BY <2>1, <2>2, <2>3, <2>4, ObjectFrame DEF Over, Place
<1>3. CASE CreateFileMetadata(c)
  <2>1. UNCHANGED <<row, stored, uploads>> /\ call[c].op \in {"copy", "sign"}
        /\ call[c].pc = "insert" /\ files \subseteq files'
    BY <1>3 DEF CreateFileMetadata
  <2>2. ObjectsStay
    BY <1>0, <2>1, StoredStays
  <2>3. Over(c) \/ Place(c, "mark")
    BY <1>3, CreateFileDoes
  <2>4. CallBacked(c)'
    <3>1. CASE Over(c)
      BY <3>1, OverBacked, Operates DEF Over
    <3>2. CASE Place(c, "mark")
      BY <1>0, <1>a, <2>1, <3>2 DEF Place, CallBacked, Uploaded, HasObject, Object, Had, Gone
    <3> QED BY <2>3, <3>1, <3>2
  <2> QED BY <2>1, <2>2, <2>3, <2>4, ObjectFrame DEF Over, Place
<1>4. CASE MarkCopied(c)
  <2> PICK r : r = call[c].r
    OBVIOUS
  <2>1. UNCHANGED <<files, stored, uploads>> /\ Over(c) /\ Steps(c) /\ CallBacked(c)'
    BY <1>4, MarkCopiedDoes, OverBacked, Operates DEF MarkCopied, Over
  <2>2. ObjectsStay
    BY <1>0, <2>1, StoredStays
  <2>3. r \in Requests /\ Marks(c, r) /\ call[c].op = "copy" /\ call[c].r = r
    BY <1>4, LocalType DEF MarkCopied, At, CallType, Marks
  <2>4. \A s \in Requests : row'[s].there = row[s].there /\ row'[s].file = row[s].file
    BY <1>4, StatusRows
  <2>5. \A s \in Requests \ {r} : row'[s] = row[s]
    BY <1>4 DEF MarkCopied, Types, StoreType
  <2>6. Kind(r) = "helloSign"
    <3>1. hs[r] = "complete"
      BY <2>3, LocalType DEF CallType
    <3> QED BY <2>3, <3>1 DEF Types, RequestType
  <2>7. ASSUME row'[r].there PROVE RowBacked(r)'
    <3>1. row'[r].file # 1
      BY <2>3, <2>4, <2>6, <2>7 DEF FileInv, FileRefers
    <3>2. Inserted(c, r) \/ Gone(r)
      BY <2>3 DEF RowKept, Inserted, Gone
    <3>3. Uploaded(r) \/ Gone(r)
      BY <1>a, <2>3 DEF CallBacked
    <3>4. ASSUME Inserted(c, r), Uploaded(r)
          PROVE  (\E f \in Copies(r) : Backed(f)) \/ Had("uploadLost", r)
      <4>1. PICK f \in files : f.of = r /\ f.key = CopyKey(r, "company")
        BY <2>3, <3>4 DEF Inserted
      <4> QED BY <3>4, <4>1 DEF Uploaded, Backed, Copies, HasObject
    <3>5. (\E f \in Copies(r)' : Backed(f)') \/ Had("uploadLost", r)' \/ Gone(r)'
      BY <1>0, <2>1, <3>2, <3>3, <3>4 DEF Copies, Backed, Object, Had, Gone
    <3> QED BY <3>1, <3>5 DEF RowBacked
  <2>8. \A s \in Requests : RowBacked(s)'
    <3>1. ASSUME NEW s \in Requests, s # r PROVE RowBacked(s)'
      BY <2>1, <2>2, <2>5, <3>1, RowsBacked
    <3>2. ~ row'[r].there => RowBacked(r)'
      BY DEF RowBacked
    <3> QED BY <2>7, <3>1, <3>2
  <2>9. \A d \in Calls : CallBacked(d)'
    BY <2>1, <2>2, CallsBacked DEF Steps
  <2> QED BY <2>2, <2>8, <2>9, DocumentStays DEF ObjectInv
<1>5. CASE Sign(c)
  <2> PICK r \in Created : Began(c, "sign", "read", r)
    BY <1>5, SignDoes
  <2>1. UNCHANGED <<row, files, stored, uploads>>
    BY <1>5 DEF Sign
  <2>2. Steps(c) /\ CallBacked(c)'
    BY DEF Began, CallBacked
  <2> QED BY <1>0, <2>1, <2>2, StoredStays, ObjectFrame
<1>6. CASE ReadDocument(c) \/ GetObject(c)
  <2>1. UNCHANGED <<row, files, stored, uploads>>
    BY <1>6 DEF ReadDocument, GetObject
  <2>2. Over(c) \/ (Steps(c) /\ call'[c].op = "sign" /\ call'[c].pc \in {"get", "upload"})
    BY <1>6, ReadDoes, GetDoes
  <2>3. Steps(c) /\ CallBacked(c)'
    BY <2>2, OverBacked, Operates DEF CallBacked, Over
  <2> QED BY <1>0, <2>1, <2>3, StoredStays, ObjectFrame
<1>7. CASE UploadSigned(c)
  <2> PICK key, pages : key = CopyKey(call[c].r, call[c].path) /\ pages = call[c].pages
    OBVIOUS
  <2>1. UNCHANGED <<row, files, uploads>> /\ call[c].op = "sign" /\ Put(key, pages)
    BY <1>7 DEF UploadSigned, At
  <2>2. call'[c].op = "sign" /\ call'[c].r = call[c].r /\ call'[c].path = call[c].path /\ Steps(c)
    BY <1>7, <2>1, UploadSignedDoes DEF Place
  <2>3. CopyKey(call'[c].r, call'[c].path) = key
    BY <2>2
  <2>4. Object(key)' # {} /\ ObjectsStay
    BY <1>0, <2>1, PutStays DEF ObjectsStay
  <2>5. CallBacked(c)'
    <3>1. HasObject(call[c].r, call[c].path)'
      BY <2>3, <2>4 DEF HasObject, Object
    <3> QED BY <2>2, <3>1 DEF CallBacked
  <2> QED BY <2>1, <2>2, <2>4, <2>5, ObjectFrame
<1>8. CASE MarkSigned(c)
  <2> PICK r, path : r = call[c].r /\ path = call[c].path
    OBVIOUS
  <2>1. UNCHANGED <<files, stored, uploads>> /\ Over(c) /\ Steps(c) /\ CallBacked(c)'
    BY <1>8, MarkSignedDoes, OverBacked, Operates DEF MarkSigned, Over
  <2>2. ObjectsStay
    BY <1>0, <2>1, StoredStays
  <2>3. r \in Requests /\ Marks(c, r) /\ call[c].op = "sign" /\ call[c].r = r /\ call[c].path = path
        /\ call[c].pc = "mark"
    BY <1>8, MarkSignedRows DEF MarkSigned, At
  <2>4. /\ \A s \in Requests \ {r} : row'[s] = row[s]
        /\ row[r].there => row'[r].file = FileOf(c)
        /\ ~ row[r].there => row'[r] = row[r]
    BY <1>8, MarkSignedRows
  <2>5. ASSUME row[r].there PROVE RowBacked(r)'
    <3>1. row'[r].file # 1
      BY <2>4, <2>5, FileIds
    <3>2. Inserted(c, r) \/ Gone(r)
      BY <2>3 DEF RowKept, Inserted, Gone
    <3>3. HasObject(r, path) \/ Gone(r)
      BY <1>a, <2>3 DEF CallBacked
    <3>4. ASSUME Inserted(c, r), HasObject(r, path)
          PROVE  \E f \in Copies(r) : Backed(f)
      <4>1. PICK f \in files : f.of = r /\ f.key = CopyKey(r, path)
        BY <2>3, <3>4 DEF Inserted
      <4> QED BY <3>4, <4>1 DEF Backed, Copies, HasObject
    <3>5. (\E f \in Copies(r)' : Backed(f)') \/ Gone(r)'
      BY <1>0, <2>1, <3>2, <3>3, <3>4 DEF Copies, Backed, Object, Had, Gone
    <3> QED BY <3>1, <3>5 DEF RowBacked
  <2>6. \A s \in Requests : RowBacked(s)'
    <3>1. ASSUME NEW s \in Requests, row'[s] = row[s] PROVE RowBacked(s)'
      BY <2>1, <2>2, <3>1, RowsBacked
    <3> QED BY <2>4, <2>5, <3>1
  <2>7. \A d \in Calls : CallBacked(d)'
    BY <2>1, <2>2, CallsBacked DEF Steps
  <2> QED BY <2>2, <2>6, <2>7, DocumentStays DEF ObjectInv
<1> QED BY <1>1, <1>2, <1>3, <1>4, <1>5, <1>6, <1>7, <1>8

\* What the deletion is to take: the objects of what it removes, by the pointers of files.
LEMMA SignedKeysTaken ==
  ASSUME Types, FileInv, RowKept, ObjectInv, NEW key \in SignedKeys
  PROVE  \/ key = Document /\ \E r \in Requests : Had("signed", r)
         \/ \E r \in ListedSimple, p \in Paths : key = CopyKey(r, p)
<1>1. PICK f \in files, r \in SignedSimple : key = f.key /\ row[r].file = f.id
  BY DEF SignedKeys
<1>2. r \in Requests /\ r \in ListedSimple /\ row[r].there /\ row[r].status = "signed"
  BY DEF SignedSimple, ListedSimple, Created
<1>3. f.of \in {0, r}
  BY <1>1, <1>2 DEF FileInv, FileRefers
<1>4. CASE f.of = 0
  <2>1. f.id = 1 /\ f.key = Document
    BY <1>4 DEF FileInv, FileRows
  <2>2. Had("signed", r)
    BY <1>1, <1>2, <2>1 DEF ObjectInv, RowBacked
  <2> QED BY <1>1, <1>2, <2>1, <2>2
<1>5. CASE f.of = r
  <2>1. \E p \in Paths : f.key = CopyKey(r, p)
    BY <1>2, <1>5, RequestsNat DEF FileInv, FileRows
  <2> QED BY <1>1, <1>2, <2>1
<1> QED BY <1>3, <1>4, <1>5

LEMMA OtherObjects ==
  ASSUME Types, FileInv, RowKept, ObjectInv, NEW c \in Calls,
         \/ Change(c) \/ CancelAtHelloSign(c)
         \/ StartOnboarding(c) \/ ListExisting(c) \/ CreateForOnboarding(c) \/ CreationFails(c)
         \/ StartDeletion(c) \/ ListHelloSign(c) \/ ListSimple(c) \/ Fail(c)
  PROVE  ObjectInv'
<1> USE DEF tables, flying
<1>0. happened \subseteq happened'
  BY HistoryGrows DEF Next, CallStep
<1>1. CASE Change(c)
  <2>1. UNCHANGED <<files, stored, uploads>>
    BY <1>1 DEF Change
  <2>2. ObjectsStay
    BY <1>0, <2>1, StoredStays
  <2>3. PICK r \in Created, op \in {"cancel"} \cup Statuses :
           /\ row' = [row EXCEPT ![r].status = IF op = "cancel" THEN "canceled" ELSE op]
           /\ happened' = happened
                 \cup (IF \E f \in files : f.of = r THEN {<<"moved", r>>} ELSE {})
                 \cup (IF op # "cancel"
                       THEN {<<IF op = "cancel" THEN "canceled" ELSE op, r>>} ELSE {})
           /\ Steps(c)
           /\ Began(c, "cancel", "tell", r) \/ Over(c)
    BY <1>1, ChangeDoes
  <2> DEFINE s == IF op = "cancel" THEN "canceled" ELSE op
  <2>4. row' = [row EXCEPT ![r].status = s] /\ (s = "signed" => Had("signed", r)')
    BY <2>3 DEF Had, Gone
  <2> HIDE DEF s
  <2>5. row \in [Requests -> Rows] /\ r \in Requests
    BY DEF Types, StoreType, Created
  <2>6. row'[r].status = s /\ \A q \in Requests \ {r} : row'[q] = row[q]
    BY <2>4, <2>5 DEF Rows
  <2>7. CallBacked(c)' /\ Steps(c)
    BY <2>3, OverBacked, Operates DEF Began, Over
  <2>8. \A q \in Requests : RowBacked(q)'
    <3>1. ASSUME NEW q \in Requests, q # r PROVE RowBacked(q)'
      BY <2>1, <2>2, <2>6, <3>1, RowsBacked
    <3>2. RowBacked(r)'
      BY <2>4, <2>6 DEF RowBacked
    <3> QED BY <3>1, <3>2
  <2>9. \A d \in Calls : CallBacked(d)'
    BY <2>2, <2>7, CallsBacked DEF Steps
  <2> QED BY <2>2, <2>8, <2>9, DocumentStays DEF ObjectInv
<1>2. CASE CancelAtHelloSign(c) \/ Fail(c)
  <2>1. UNCHANGED <<row, files, stored, uploads>>
    BY <1>2 DEF CancelAtHelloSign, Fail
  <2>2. Steps(c) /\ CallBacked(c)'
    BY <1>2, CancelDoes, FailDoes, OverBacked, Operates DEF Over
  <2> QED BY <1>0, <2>1, <2>2, StoredStays, ObjectFrame
<1>3. CASE StartOnboarding(c)
  <2>1. UNCHANGED <<row, files, stored, uploads>>
    BY <1>3 DEF StartOnboarding
  <2>2. Steps(c) /\ CallBacked(c)'
    BY <1>3, OnboardingDoes, OverBacked DEF Began
  <2> QED BY <1>0, <2>1, <2>2, StoredStays, ObjectFrame
<1>4. CASE ListExisting(c)
  <2>1. UNCHANGED <<row, files, stored, uploads>>
    BY <1>4 DEF ListExisting
  <2>2. Over(c) \/ (Steps(c) /\ call'[c].op = "onboard")
    BY <1>4, ListDoes
  <2>3. Steps(c) /\ CallBacked(c)'
    BY <2>2, OverBacked, Operates DEF Over
  <2> QED BY <1>0, <2>1, <2>3, StoredStays, ObjectFrame
<1>5. CASE CreateForOnboarding(c) \/ CreationFails(c)
  <2>1. UNCHANGED <<row, files, stored, uploads>> /\ call[c].op = "onboard"
    BY <1>5 DEF CreateForOnboarding, CreationFails, At
  <2>2. \E k : Less(c, k)
    BY <1>5, CreateForDoes, FailsDoes
  <2>3. Steps(c) /\ CallBacked(c)'
    BY <2>1, <2>2, OverBacked, Operates DEF Less, Over
  <2> QED BY <1>0, <2>1, <2>3, StoredStays, ObjectFrame
<1>6. CASE StartDeletion(c)
  <2>1. UNCHANGED <<row, files, stored, uploads>>
    BY <1>6 DEF StartDeletion
  <2>2. Steps(c) /\ CallBacked(c)'
    BY <1>6, DeletionDoes DEF Began, CallBacked
  <2> QED BY <1>0, <2>1, <2>2, StoredStays, ObjectFrame
<1>7. CASE ListHelloSign(c)
  <2>1. UNCHANGED <<row, files, stored, uploads>>
    BY <1>7 DEF ListHelloSign
  <2>2. Steps(c) /\ CallBacked(c)'
    BY <1>7, ListHelloSignDoes DEF CallBacked
  <2> QED BY <1>0, <2>1, <2>2, StoredStays, ObjectFrame
<1>8. CASE ListSimple(c)
  <2>1. UNCHANGED <<row, files, stored, uploads>>
    BY <1>8 DEF ListSimple
  <2>2. Steps(c) /\ CallBacked(c)'
    <3>1. CASE Over(c)
      BY <3>1, OverBacked, Operates DEF Over
    <3>2. CASE ~ Over(c)
      <4>1. /\ Steps(c) /\ call'[c].op = "delete" /\ call'[c].pc = "delete"
            /\ ListedSimple \subseteq call'[c].ids /\ call'[c].todo = SignedKeys
        BY <1>8, <3>2, ListSimpleDoes
      <4>2. ListedSimple \subseteq Requests
        BY DEF ListedSimple, Created
      <4>3. Takes(c)'
        BY <1>0, <4>1, <4>2, SignedKeysTaken DEF Takes, Had, Gone
      <4> QED BY <4>1, <4>3 DEF CallBacked
    <3> QED BY <3>1, <3>2
  <2> QED BY <1>0, <2>1, <2>2, StoredStays, ObjectFrame
<1> QED BY <1>1, <1>2, <1>3, <1>4, <1>5, <1>6, <1>7, <1>8

LEMMA DeletionObjects ==
  ASSUME Types, FileInv, RowKept, ObjectInv, NEW c \in Calls, DeleteRows(c) \/ DeleteObject(c)
  PROVE  ObjectInv'
<1> USE DEF tables, flying
<1>0. happened \subseteq happened'
  BY HistoryGrows DEF Next, CallStep
<1>a. CallBacked(c)
  BY DEF ObjectInv
<1>1. CASE DeleteRows(c)
  <2>1. UNCHANGED <<stored, uploads>> /\ call[c].op = "delete" /\ call[c].pc = "delete"
    BY <1>1 DEF DeleteRows, At
  <2>2. ObjectsStay
    BY <1>0, <2>1, StoredStays
  <2>3. Over(c) \/ Place(c, "objects")
    BY <1>1, DeleteRowsDoes
  <2>4. CallBacked(c)'
    <3>1. CASE Over(c)
      BY <3>1, OverBacked, Operates DEF Over
    <3>2. CASE Place(c, "objects")
      <4>1. call'[c].op = "delete" /\ call'[c].pc = "objects" /\ call'[c].todo = call[c].todo
        BY <2>1, <3>2 DEF Place
      <4>2. \A r \in call[c].ids : Gone(r)'
        BY <1>1, DeleteRowsDone DEF Gone
      <4>3. Takes(c)
        BY <1>a, <2>1 DEF CallBacked
      <4>4. Takes(c)'
        BY <1>0, <4>1, <4>2, <4>3 DEF Takes, Had, Gone
      <4> QED BY <4>1, <4>4 DEF CallBacked
    <3> QED BY <2>3, <3>1, <3>2
  <2>5. ASSUME NEW r \in Requests PROVE RowBacked(r)'
    <3>1. CASE r \in call[c].ids
      <4>1. ~ row'[r].there
        BY <1>1, <3>1, DeleteRowsDone DEF NoRow
      <4> QED BY <4>1 DEF RowBacked
    <3>2. CASE r \notin call[c].ids
      <4>1. row'[r] = row[r] /\ Copies(r)' = Copies(r)
        BY <1>1, <3>2, DeleteRowsDone DEF Copies
      <4>2. \A f : Backed(f)' <=> Backed(f)
        BY <2>1 DEF Backed, Object
      <4> QED BY <1>0, <4>1, <4>2 DEF ObjectInv, RowBacked, Had, Gone
    <3> QED BY <3>1, <3>2
  <2>6. \A d \in Calls : CallBacked(d)'
    <3>1. Steps(c)
      BY <2>3 DEF Over, Place
    <3> QED BY <2>2, <2>4, <3>1, CallsBacked DEF Steps
  <2> QED BY <2>2, <2>5, <2>6, DocumentStays DEF ObjectInv
<1>2. CASE DeleteObject(c)
  <2> PICK key \in call[c].todo : stored' = stored \ Object(key) /\ Less(c, key)
    BY <1>2, DeleteObjectDoes
  <2>1. UNCHANGED <<row, files, uploads, happened>> /\ call[c].op = "delete" /\ call[c].pc = "objects"
    BY <1>2 DEF DeleteObject, At
  <2>2. \/ key = Document /\ \E r \in Requests : Had("signed", r)
        \/ \E r \in Requests, p \in Paths : key = CopyKey(r, p) /\ Gone(r)
    BY <1>a, <2>1 DEF CallBacked, Takes
  <2>3. \A k : k # key => Object(k)' = Object(k)
    BY DEF Object
  <2>4. \A r, p : key # CopyKey(r, p) => (HasObject(r, p)' <=> HasObject(r, p))
    BY <2>3 DEF HasObject
  <2>5. ASSUME NEW r \in Requests, NEW p, key = CopyKey(r, p) PROVE Gone(r)
    <3>1. CASE key = Document
      BY <2>5, <3>1, RequestsNat DEF Document, CopyKey
    <3>2. CASE \E s \in Requests, q \in Paths : key = CopyKey(s, q) /\ Gone(s)
      BY <2>5, <3>2 DEF CopyKey
    <3> QED BY <2>2, <3>1, <3>2
  <2>6. DocumentKept'
    <3>1. CASE key = Document
      BY <2>1, <2>2, <3>1, RequestsNat DEF DocumentKept, Document, CopyKey, Had, Gone
    <3>2. CASE key # Document
      BY <2>1, <2>3, <3>2 DEF ObjectInv, DocumentKept, Had, Gone
    <3> QED BY <3>1, <3>2
  <2>7. ASSUME NEW r \in Requests PROVE RowBacked(r)'
    <3>1. ASSUME NEW f \in Copies(r), Backed(f)
          PROVE  f \in Copies(r)' /\ (Backed(f)' \/ Gone(r))
      <4>1. f \in files /\ f.of = r /\ f \in Copies(r)'
        BY <2>1, <3>1 DEF Copies
      <4>2. \E p \in Paths : f.key = CopyKey(r, p)
        BY <4>1, RequestsNat DEF FileInv, FileRows
      <4>3. f.key = key => Gone(r)
        BY <2>5, <4>2
      <4> QED BY <2>1, <2>3, <3>1, <4>1, <4>3 DEF Backed
    <3>2. RowBacked(r)
      BY DEF ObjectInv
    <3> QED BY <2>1, <3>1, <3>2 DEF RowBacked, Had, Gone
  <2>8. ASSUME NEW d \in Calls PROVE CallBacked(d)'
    <3>1. CASE d = c
      <4>1. CASE Over(c)
        BY <3>1, <4>1, OverBacked, Operates DEF Over
      <4>2. CASE ~ Over(c)
        <5>1. call'[c].op = "delete" /\ call'[c].pc = "objects"
              /\ call'[c].todo \subseteq call[c].todo /\ call'[c].ids = call[c].ids
          BY <2>1, <4>2 DEF Less
        <5>2. Takes(c)'
          BY <1>a, <2>1, <5>1 DEF CallBacked, Takes, Had, Gone
        <5> QED BY <3>1, <5>1, <5>2 DEF CallBacked
      <4> QED BY <4>1, <4>2
    <3>2. CASE d # c
      <4>1. call'[d] = call[d]
        BY <3>2 DEF Less, Over, Steps
      <4>2. CallBacked(d) /\ (call[d].op \in {"copy", "sign"} => call[d].r \in Requests)
        BY LocalType DEF ObjectInv, CallType
      <4>3. Takes(d) => Takes(d)'
        BY <2>1, <4>1 DEF Takes, Had, Gone
      <4>4. \A r \in Requests : Uploaded(r) => Uploaded(r)' \/ Gone(r)'
        BY <2>1, <2>4, <2>5 DEF Uploaded, Had, Gone
      <4>5. \A r \in Requests : \A p : HasObject(r, p) => HasObject(r, p)' \/ Gone(r)'
        BY <2>1, <2>4, <2>5 DEF Had, Gone
      <4>6. Gone(call[d].r) => Gone(call[d].r)'
        BY <2>1, <4>1 DEF Had, Gone
      <4>7. call[d].op = "copy" => Uploaded(call[d].r)' \/ Gone(call[d].r)'
        BY <4>1, <4>2, <4>4, <4>6 DEF CallBacked, Uploaded, HasObject, Object, CopyKey, Had, Gone
      <4>8. call[d].op = "sign" /\ call[d].pc \in {"insert", "mark"} =>
               HasObject(call[d].r, call[d].path)' \/ Gone(call[d].r)'
        BY <4>1, <4>2, <4>5, <4>6 DEF CallBacked, HasObject, Object, CopyKey, Had, Gone
      <4> QED BY <4>1, <4>2, <4>3, <4>7, <4>8 DEF CallBacked
    <3> QED BY <3>1, <3>2
  <2> QED BY <2>6, <2>7, <2>8 DEF ObjectInv
<1> QED BY <1>1, <1>2

LEMMA MissedObjects ==
  ASSUME Types, ObjectInv, NEW c \in Calls, Missed(c) \/ CancelMissed(c)
  PROVE  ObjectInv'
<1>1. UNCHANGED <<row, files, stored, uploads>> /\ happened \subseteq happened'
  BY MissedDoes, CancelMissedDoes
<1>2. CallBacked(c)
  BY DEF ObjectInv
<1>3. Steps(c) /\ CallBacked(c)'
  <2>1. CASE Over(c)
    BY <2>1, OverBacked, Operates DEF Over
  <2>2. CASE \E r : Began(c, "cancel", "tell", r)
    BY <2>2, OverBacked DEF Began
  <2>3. CASE call[c].op = "copy" /\ Place(c, "mark")
    BY <1>1, <1>2, <2>3 DEF Place, CallBacked, Uploaded, HasObject, Object, Had, Gone
  <2>4. CASE /\ call[c].op = "delete" /\ call[c].pc = "delete" /\ Place(c, "objects")
             /\ \A r \in call[c].ids : Had("missed", r)'
    <3>1. call'[c].op = "delete" /\ call'[c].pc = "objects" /\ call'[c].todo = call[c].todo
          /\ Steps(c)
      BY <2>4 DEF Place
    <3>2. Takes(c)
      BY <1>2, <2>4 DEF CallBacked
    <3>3. Takes(c)'
      BY <1>1, <2>4, <3>1, <3>2 DEF Takes, Had, Gone
    <3> QED BY <3>1, <3>3 DEF CallBacked
  <2> QED BY <2>1, <2>2, <2>3, <2>4, MissedDoes, CancelMissedDoes
<1>4. ObjectsStay
  BY <1>1, StoredStays
<1> QED BY <1>1, <1>3, <1>4, ObjectFrame

LEMMA ObjectKept ==
  ASSUME Types, FileInv, RowKept, ObjectInv, Next
  PROVE  ObjectInv'
BY FlightObjects, SigningObjects, OtherObjects, DeletionObjects, MissedObjects DEF Next, CallStep

-----------------------------------------------------------------------------
(* Billing counts what was made at HelloSign.                               *)

Billed(r) ==
  /\ Landed(r)
  /\ row[r].there /\ row[r].status = "notRequired" => Had("notRequired", r)
  /\ row[r].there => (row[r].file = 0 <=> Kind(r) = "helloSign") \/ Had("signedHere", r)

\* The row of r stays, or it is removed; so does the INSERT of it.
LEMMA BillFrame ==
  ASSUME BillInv, happened \subseteq happened', NEW r \in Created, about'[r] = about[r],
         row'[r].there = row[r].there, row'[r].file = row[r].file,
         row'[r].status = "notRequired" => row[r].status = "notRequired" \/ Had("notRequired", r)',
         InFlight(r) => InFlight(r)' \/ Had("insertLost", r)'
  PROVE  Billed(r)'
<1> USE DEF Had
<1>1. Billed(r)
  BY DEF BillInv, Billed
<1>2. Landed(r)'
  BY <1>1 DEF Billed, Landed
<1> QED BY <1>1, <1>2 DEF Billed, Kind

LEMMA AddsBills ==
  ASSUME Types, BillInv, happened \subseteq happened',
         NEW new, NEW kind \in Kinds, NEW onboarding, Adds(new, kind, onboarding), UNCHANGED row
  PROVE  BillInv'
<1> SUFFICES ASSUME NEW r \in Created' PROVE Billed(r)'
  BY DEF BillInv, Billed
<1>1. CASE r \in new
  <2>1. about[r] = None /\ InFlight(r)' /\ r \in Requests
    BY <1>1 DEF Adds, InFlight
  <2>2. ~ row'[r].there
    BY <2>1 DEF Types, RequestType
  <2> QED BY <2>1, <2>2 DEF Billed, Landed
<1>2. CASE r \notin new
  <2>1. r \in Created /\ about'[r] = about[r]
    BY <1>2 DEF Adds, Created
  <2>2. InFlight(r) => InFlight(r)'
    BY DEF InFlight, Adds
  <2> QED BY <2>1, <2>2, BillFrame
<1> QED BY <1>1, <1>2

LEMMA InitBills == Init => BillInv
BY DEF Init, BillInv, Created

LEMMA BillKept ==
  ASSUME Types, FileInv, BillInv, Next
  PROVE  BillInv'
<1> USE DEF tables, flying
<1>0. happened \subseteq happened'
  BY HistoryGrows
<1>1. CASE SendSimple \/ SendHelloSign
  <2>1. UNCHANGED row
    BY <1>1 DEF SendSimple, SendHelloSign
  <2> QED BY <1>0, <1>1, <2>1, SendDoes, AddsBills
<1>2. ASSUME NEW c \in Calls, CreateForOnboarding(c) PROVE BillInv'
  <2>1. UNCHANGED row
    BY <1>2 DEF CreateForOnboarding
  <2> QED BY <1>0, <1>2, <2>1, CreateForDoes, AddsBills
<1>3. ASSUME UNCHANGED about, \A r \in Created : Billed(r)' PROVE BillInv'
  BY <1>3 DEF BillInv, Billed, Created
<1>4. CASE InsertLands
  <2>1. UNCHANGED about
    BY <1>4 DEF InsertLands
  <2>2. PICK batch \in inserts :
           \A r \in Requests : /\ r \in batch => row'[r] = Sent(r) /\ InFlight(r)
                               /\ r \notin batch => row'[r] = row[r] /\ (InFlight(r)' <=> InFlight(r))
    BY <1>4, LandsDoes
  <2>3. ASSUME NEW r \in Created PROVE Billed(r)'
    <3>0. r \in Requests /\ about[r].kind \in Kinds
      BY DEF Created, Types, RequestType, About
    <3>1. CASE r \in batch
      <4>1. row'[r] = [there |-> TRUE, status |-> "pending",
                       file |-> IF about[r].kind = "simple" THEN 1 ELSE 0]
        BY <2>2, <3>0, <3>1 DEF Sent
      <4> QED BY <2>1, <3>0, <4>1 DEF Billed, Landed, Kind, Kinds
    <3>2. CASE r \notin batch
      BY <1>0, <2>1, <2>2, <3>0, <3>2, BillFrame
    <3> QED BY <3>1, <3>2
  <2> QED BY <1>3, <2>1, <2>3
<1>5. CASE InsertLost
  <2> PICK batch \in inserts : Note("insertLost", batch) /\ inserts' = inserts \ {batch}
    BY <1>5 DEF InsertLost
  <2>1. UNCHANGED <<about, row>>
    BY <1>5 DEF InsertLost
  <2>2. \A r : InFlight(r) => InFlight(r)' \/ Had("insertLost", r)'
    BY DEF InFlight, Had, Note
  <2> QED BY <1>0, <1>3, <2>1, <2>2, BillFrame
<1>6. ASSUME NEW c \in Calls, MarkSigned(c) PROVE BillInv'
  <2>1. UNCHANGED <<about, inserts>>
    BY <1>6 DEF MarkSigned
  <2>2. ASSUME NEW r \in Created PROVE Billed(r)'
    <3>0. r \in Requests /\ about[r].kind \in Kinds /\ Billed(r)
      BY DEF Created, Types, RequestType, About, BillInv, Billed
    <3>1. CASE row'[r] = row[r]
      BY <1>0, <2>1, <3>1, BillFrame DEF InFlight
    <3>2. CASE row'[r] # row[r]
      <4>1. r = call[c].r /\ row[r].there /\ row'[r].there /\ row'[r].status = "signed"
            /\ row'[r].file = FileOf(c)
        BY <1>6, <3>0, <3>2, MarkSignedRows
      <4>2. FileOf(c) # 0
        BY FileIds
      <4>3. about[r].kind = "helloSign" => Had("signedHere", r)'
        BY <1>6, <4>1 DEF MarkSigned, Note, Had
      <4> QED BY <2>1, <3>0, <4>1, <4>2, <4>3 DEF Billed, Landed, Kind
    <3> QED BY <3>1, <3>2
  <2> QED BY <1>3, <2>1, <2>2
<1>7. ASSUME NEW c \in Calls, DeleteRows(c) PROVE BillInv'
  <2>1. UNCHANGED <<about, inserts>>
    BY <1>7 DEF DeleteRows
  <2>2. ASSUME NEW r \in Created PROVE Billed(r)'
    <3>0. r \in Requests
      BY DEF Created
    <3>1. CASE r \in call[c].ids
      <4>1. ~ row'[r].there /\ Had("removed", r)'
        BY <1>7, <3>0, <3>1, DeleteRowsDone DEF NoRow
      <4> QED BY <4>1 DEF Billed, Landed
    <3>2. CASE r \notin call[c].ids
      <4>1. row'[r] = row[r]
        BY <1>7, <3>0, <3>2, DeleteRowsDone
      <4> QED BY <1>0, <2>1, <4>1, BillFrame DEF InFlight
    <3> QED BY <3>1, <3>2
  <2> QED BY <1>3, <2>1, <2>2
<1>8. ASSUME NEW c \in Calls, MarkCopied(c) PROVE BillInv'
  <2>1. UNCHANGED <<about, inserts>>
    BY <1>8 DEF MarkCopied
  <2>2. \A r \in Requests : row'[r].there = row[r].there /\ row'[r].file = row[r].file
    BY <1>8, StatusRows
  <2>3. \A r \in Requests : row'[r].status = row[r].status \/ row'[r].status = "signed"
    BY <1>8 DEF MarkCopied, Types, StoreType, Rows
  <2>4. ASSUME NEW r \in Created PROVE Billed(r)'
    BY <1>0, <2>1, <2>2, <2>3, BillFrame DEF Created, InFlight
  <2> QED BY <1>3, <2>1, <2>4
<1>9. ASSUME NEW c \in Calls, Change(c) PROVE BillInv'
  <2>1. UNCHANGED <<about, inserts>>
    BY <1>9 DEF Change
  <2>2. \A r \in Requests : row'[r].there = row[r].there /\ row'[r].file = row[r].file
    BY <1>9, StatusRows
  <2>3. \A r \in Requests : row'[r].status = "notRequired" =>
              row[r].status = "notRequired" \/ Had("notRequired", r)'
    <3>1. PICK r \in Created, op \in {"cancel"} \cup Statuses :
           /\ row' = [row EXCEPT ![r].status = IF op = "cancel" THEN "canceled" ELSE op]
           /\ happened' = happened
                 \cup (IF \E f \in files : f.of = r THEN {<<"moved", r>>} ELSE {})
                 \cup (IF op # "cancel"
                       THEN {<<IF op = "cancel" THEN "canceled" ELSE op, r>>} ELSE {})
      BY <1>9, ChangeDoes
    <3> DEFINE s == IF op = "cancel" THEN "canceled" ELSE op
    <3>2. row' = [row EXCEPT ![r].status = s] /\ (s = "notRequired" => Had("notRequired", r)')
      BY <3>1 DEF Had
    <3> HIDE DEF s
    <3>3. row \in [Requests -> Rows] /\ r \in Requests
      BY DEF Types, StoreType, Created
    <3> QED BY <3>2, <3>3 DEF Rows
  <2>4. ASSUME NEW r \in Created PROVE Billed(r)'
    BY <1>0, <2>1, <2>2, <2>3, BillFrame DEF Created, InFlight
  <2> QED BY <1>3, <2>1, <2>4
<1>10. CASE UNCHANGED <<about, row, inserts>>
  BY <1>0, <1>3, <1>10, BillFrame DEF InFlight
<1>11. \/ SendSimple \/ SendHelloSign \/ InsertLands \/ InsertLost
       \/ \E c \in Calls : CreateForOnboarding(c) \/ MarkSigned(c) \/ DeleteRows(c) \/ MarkCopied(c)
                           \/ Change(c)
       \/ UNCHANGED <<about, row, inserts>>
  BY DEF Next, CallStep, SignAtHelloSign,
       Redelivered, CancelLands, UploadLands, UploadLost, Callback, CheckForDuplicate, Sign,
       ReadDocument, GetObject, UploadSigned, CancelAtHelloSign, StartOnboarding, ListExisting,
       CreationFails, StartDeletion, ListHelloSign, ListSimple, DeleteObject, CreateFileMetadata,
       Fail, Missed, CancelMissed
<1> QED BY <1>1, <1>2, <1>4, <1>5, <1>6, <1>7, <1>8, <1>9, <1>10, <1>11

LEMMA BillsRight ==
  ASSUME Types, BillInv
  PROVE  BilledIfAtHelloSign
<1> SUFFICES ASSUME AtRest, NEW r \in Created
             PROVE  \/ (row[r].there /\ row[r].status # "notRequired" /\ row[r].file = 0)
                          <=> (hs[r] # "none")
                    \/ Had("insertLost", r) \/ Had("removed", r) \/ Had("notRequired", r)
                    \/ Had("signedHere", r)
  BY DEF BilledIfAtHelloSign
<1>1. ~ InFlight(r)
  BY DEF AtRest, InFlight
<1>2. hs[r] # "none" <=> Kind(r) = "helloSign"
  BY DEF Types, RequestType, Created
<1> QED BY <1>1, <1>2 DEF BillInv, Landed

-----------------------------------------------------------------------------
(* What was completed at HelloSign is recorded.                             *)

RecordFor(r) ==
  /\ Followed(r) /\ MarkedRow(r)
  /\ hs[r] = "complete" =>
        \/ Awaited(r)
        \/ Signed(r) /\ Copies(r) # {}
        \/ Had("early", r) \/ Slipped(r) \/ Had("removed", r) \/ Had("moved", r)

LEMMA InitRecords == Init => RecordInv
<1> SUFFICES ASSUME Init PROVE RecordInv
  OBVIOUS
<1>1. ASSUME NEW r \in Requests PROVE Copies(r) = {} /\ ~ Marking(r) /\ hs[r] # "complete"
  <2>1. \A c \in Calls : call[c].pc = "idle"
    BY IdleType DEF Init
  <2> QED BY <2>1, RequestsNat DEF Init, Copies, Marking, Marks
<1> QED BY <1>1 DEF RecordInv, Followed, MarkedRow

\* Where r is as it was.
LEMMA RecordFrame ==
  ASSUME RecordInv, happened \subseteq happened', NEW r \in Requests,
         row'[r].there = row[r].there, row'[r].status = row[r].status,
         Copies(r)' = Copies(r), Marking(r)' <=> Marking(r), Awaited(r) => Awaited(r)',
         hs'[r] = "complete" => hs[r] = "complete"
  PROVE  RecordFor(r)'
<1> USE DEF Had, Gone, Slipped
<1>1. RecordFor(r)
  BY DEF RecordInv, RecordFor
<1>2. Followed(r)' /\ MarkedRow(r)'
  BY <1>1 DEF RecordFor, Followed, MarkedRow
<1> QED BY <1>1, <1>2 DEF RecordFor, Signed

\* A step of c that neither marks nor copies r.
LEMMA MarkingFrame ==
  ASSUME NEW c \in Calls, Steps(c), NEW r \in Requests, ~ Marks(c, r), ~ Marks(c, r)',
         call[c].op = "copy" /\ call[c].r = r => call'[c].op = "copy" /\ call'[c].r = r,
         r \in events => r \in events' \/ (call'[c].op = "copy" /\ call'[c].r = r)
  PROVE  (Marking(r)' <=> Marking(r)) /\ (Awaited(r) => Awaited(r)')
<1>1. \A d \in Calls \ {c} : Marks(d, r)' <=> Marks(d, r)
  BY DEF Steps, Marks
<1>2. Marking(r)' <=> Marking(r)
  BY <1>1 DEF Marking
<1>3. (\E d \in Calls : call[d].op = "copy" /\ call[d].r = r) =>
         \E d \in Calls : call'[d].op = "copy" /\ call'[d].r = r
  BY DEF Steps
<1> QED BY <1>2, <1>3 DEF Awaited

LEMMA MarkingSame ==
  ASSUME UNCHANGED call, events \subseteq events', NEW r
  PROVE  (Marking(r)' <=> Marking(r)) /\ (Awaited(r) => Awaited(r)')
BY DEF Marking, Marks, Awaited

\* A step of c that is of another request, or neither marks nor copies.
LEMMA RecordStep ==
  ASSUME RecordInv, happened \subseteq happened', NEW c \in Calls, Steps(c), NEW r \in Requests,
         UNCHANGED <<hs, events>>,
         row'[r].there = row[r].there, row'[r].status = row[r].status, Copies(r)' = Copies(r),
         call[c].r # r \/ (call[c].op # "copy" /\ call[c].pc # "mark"),
         call'[c].op \notin {"copy", "sign"} \/ (call'[c].r # r) \/ call'[c].pc # "mark"
  PROVE  RecordFor(r)'
<1>1. ~ Marks(c, r) /\ ~ Marks(c, r)'
  BY DEF Marks
<1>2. (Marking(r)' <=> Marking(r)) /\ (Awaited(r) => Awaited(r)')
  BY <1>1, MarkingFrame
<1> QED BY <1>2, RecordFrame

LEMMA FlightRecords ==
  ASSUME Types, RecordInv,
         \/ SendSimple \/ SendHelloSign \/ InsertLands \/ InsertLost
         \/ SignAtHelloSign \/ Redelivered \/ CancelLands \/ UploadLands \/ UploadLost
  PROVE  RecordInv'
<1> USE DEF tables, flying
<1>0. happened \subseteq happened'
  BY HistoryGrows DEF Next
<1>a. ASSUME \A r \in Requests : RecordFor(r)' PROVE RecordInv'
  BY <1>a DEF RecordInv, RecordFor
<1>b. UNCHANGED <<call, files>> /\ events \subseteq events'
  BY DEF SendSimple, SendHelloSign, InsertLands, InsertLost, SignAtHelloSign, Redelivered,
         CancelLands, UploadLands, UploadLost
<1>c. \A r : (Marking(r)' <=> Marking(r)) /\ (Awaited(r) => Awaited(r)') /\ Copies(r)' = Copies(r)
  BY <1>b, MarkingSame DEF Copies
<1>1. CASE SendSimple \/ SendHelloSign
  <2>1. UNCHANGED row
    BY <1>1 DEF SendSimple, SendHelloSign
  <2>2. \A r \in Requests : hs'[r] = "complete" => hs[r] = "complete"
    BY <1>1, SendDoes DEF Adds
  <2> QED BY <1>0, <1>a, <1>c, <2>1, <2>2, RecordFrame
<1>2. CASE InsertLands
  <2>1. UNCHANGED <<hs, events>>
    BY <1>2 DEF InsertLands
  <2>2. PICK batch \in inserts :
           \A r \in Requests : /\ r \in batch => row'[r] = Sent(r) /\ InFlight(r)
                               /\ r \notin batch => row'[r] = row[r]
    BY <1>2, LandsDoes
  <2>3. ASSUME NEW r \in Requests PROVE RecordFor(r)'
    <3>1. CASE r \in batch
      <4>1. row'[r].there /\ ~ row[r].there
        <5>1. row'[r] = Sent(r) /\ InFlight(r)
          BY <2>2, <3>1
        <5>2. ~ row[r].there
          BY <5>1 DEF Types, RequestType
        <5> QED BY <5>1, <5>2 DEF Sent
      <4>2. RecordFor(r)
        BY DEF RecordInv, RecordFor
      <4>3. Followed(r)' /\ MarkedRow(r)'
        BY <1>0, <1>c, <4>1, <4>2 DEF RecordFor, Followed, MarkedRow, Had, Gone, Slipped
      <4> QED BY <1>0, <1>c, <2>1, <4>1, <4>2, <4>3 DEF RecordFor, Signed, Had, Gone, Slipped
    <3>2. CASE r \notin batch
      BY <1>0, <1>c, <2>1, <2>2, <3>2, RecordFrame
    <3> QED BY <3>1, <3>2
  <2> QED BY <1>a, <2>3
<1>3. CASE InsertLost \/ Redelivered \/ UploadLands \/ UploadLost
  <2>1. UNCHANGED <<hs, row>>
    BY <1>3 DEF InsertLost, Redelivered, UploadLands, UploadLost
  <2> QED BY <1>0, <1>a, <1>c, <2>1, RecordFrame
<1>4. CASE SignAtHelloSign
  <2> PICK s \in Requests : /\ hs' = [hs EXCEPT ![s] = "complete"]
                            /\ events' = events \cup {s}
    BY <1>4 DEF SignAtHelloSign
  <2>1. UNCHANGED row
    BY <1>4 DEF SignAtHelloSign
  <2>2. ASSUME NEW r \in Requests PROVE RecordFor(r)'
    <3>1. CASE r # s
      <4>1. hs'[r] = hs[r]
        BY <3>1 DEF Types, StoreType
      <4> QED BY <1>0, <1>c, <2>1, <4>1, RecordFrame
    <3>2. CASE r = s
      <4>1. RecordFor(r)
        BY DEF RecordInv, RecordFor
      <4>2. Followed(r)' /\ MarkedRow(r)'
        BY <1>0, <1>c, <2>1, <4>1 DEF RecordFor, Followed, MarkedRow, Had, Gone, Slipped
      <4>3. Awaited(r)'
        BY <3>2 DEF Awaited
      <4> QED BY <4>2, <4>3 DEF RecordFor
    <3> QED BY <3>1, <3>2
  <2> QED BY <1>a, <2>2
<1>5. CASE CancelLands
  <2>1. UNCHANGED row
    BY <1>5 DEF CancelLands
  <2>2. \A r \in Requests : hs'[r] = "complete" => hs[r] = "complete"
    BY <1>5 DEF CancelLands, Types, StoreType
  <2> QED BY <1>0, <1>a, <1>c, <2>1, <2>2, RecordFrame
<1> QED BY <1>1, <1>2, <1>3, <1>4, <1>5

LEMMA CallbackRecords ==
  ASSUME Types, RecordInv, NEW c \in Calls, Callback(c)
  PROVE  RecordInv'
<1>0. happened \subseteq happened'
  BY HistoryGrows DEF Next, CallStep
<1> PICK s \in events : Began(c, "copy", "check", s) /\ events' = events \ {s}
  BY CallbackDoes
<1>1. UNCHANGED <<hs, row, files>>
  BY DEF Callback, tables
<1>2. /\ Steps(c) /\ call[c].op = None /\ call[c].pc = "idle"
      /\ call'[c].op = "copy" /\ call'[c].pc = "check" /\ call'[c].r = s
  BY DEF Began
<1>3. ASSUME NEW r \in Requests PROVE RecordFor(r)'
  <2>1. ~ Marks(c, r) /\ ~ Marks(c, r)'
    BY <1>2 DEF Marks
  <2>2. (Marking(r)' <=> Marking(r)) /\ (Awaited(r) => Awaited(r)')
    BY <1>2, <2>1, MarkingFrame, Operates
  <2>3. Copies(r)' = Copies(r)
    BY <1>1 DEF Copies
  <2> QED BY <1>0, <1>1, <2>2, <2>3, RecordFrame
<1> QED BY <1>3 DEF RecordInv, RecordFor

\* Whoever finds the row of the copy leaves it to the one that wrote it.
LEMMA CheckRecords ==
  ASSUME Types, FileInv, RecordInv, NEW c \in Calls, CheckForDuplicate(c)
  PROVE  RecordInv'
<1>0. happened \subseteq happened'
  BY HistoryGrows DEF Next, CallStep
<1>1. UNCHANGED <<hs, row, files, events>> /\ call[c].op = "copy" /\ call[c].pc = "check"
  BY DEF CheckForDuplicate, At, tables, flying
<1>2. \A r : Copies(r)' = Copies(r)
  BY <1>1 DEF Copies
<1>3. CASE Place(c, "insert")
  <2>1. ASSUME NEW r \in Requests PROVE RecordFor(r)'
    <3>1. ~ Marks(c, r) /\ ~ Marks(c, r)'
      BY <1>1, <1>3 DEF Marks, Place
    <3>2. (Marking(r)' <=> Marking(r)) /\ (Awaited(r) => Awaited(r)')
      BY <1>1, <1>3, <3>1, MarkingFrame DEF Place
    <3> QED BY <1>0, <1>1, <1>2, <3>2, RecordFrame
  <2> QED BY <2>1 DEF RecordInv, RecordFor
<1>4. CASE (\E f \in files : f.key = CopyKey(call[c].r, "company")) /\ Over(c)
  <2> PICK q : q = call[c].r
    OBVIOUS
  <2>1. q \in Requests
    BY <1>1, LocalType DEF CallType
  <2>2. Copies(q) # {}
    <3>1. PICK f \in files : f.key = CopyKey(q, "company")
      BY <1>4
    <3>2. f.of = 0 => f.key = Document
      BY DEF FileInv, FileRows
    <3>3. f.of # 0
      BY <2>1, <3>1, <3>2, RequestsNat DEF CopyKey, Document
    <3>4. f.of = q
      BY <3>1, <3>3 DEF FileInv, FileRows, CopyKey
    <3> QED BY <3>4 DEF Copies
  <2>3. ASSUME NEW r \in Requests PROVE RecordFor(r)'
    <3>1. ~ Marks(c, r) /\ ~ Marks(c, r)' /\ Steps(c)
      BY <1>1, <1>4 DEF Marks, Over
    <3>2. CASE r # q
      BY <1>0, <1>1, <1>2, <1>4, <3>1, <3>2, RecordStep, Operates DEF Over
    <3>3. CASE r = q
      <4>1. \A d \in Calls : Marks(d, r)' <=> Marks(d, r)
        BY <3>1 DEF Steps, Marks
      <4>2. Marking(r)' <=> Marking(r)
        BY <4>1 DEF Marking
      <4>3. RecordFor(r)
        BY DEF RecordInv, RecordFor
      <4>4. Followed(r)' /\ MarkedRow(r)'
        BY <1>0, <1>1, <1>2, <4>2, <4>3 DEF RecordFor, Followed, MarkedRow, Had, Gone, Slipped
      <4>5. Marking(r)' => Awaited(r)'
        BY DEF Awaited
      <4> QED BY <1>0, <1>1, <1>2, <2>2, <3>3, <4>2, <4>3, <4>4, <4>5
              DEF RecordFor, Followed, Signed, Had, Gone, Slipped
    <3> QED BY <3>2, <3>3
  <2> QED BY <2>3 DEF RecordInv, RecordFor
<1> QED BY <1>3, <1>4, CheckDoes

LEMMA CreateFileRecords ==
  ASSUME Types, FileInv, RecordInv, NEW c \in Calls, CreateFileMetadata(c)
  PROVE  RecordInv'
<1>0. happened \subseteq happened'
  BY HistoryGrows DEF Next, CallStep
<1> PICK q : q = call[c].r
  OBVIOUS
<1>1. UNCHANGED <<hs, row, events>> /\ call[c].op \in {"copy", "sign"} /\ call[c].pc = "insert"
      /\ q \in Requests
  BY LocalType DEF CreateFileMetadata, tables, flying, CallType
<1>2. row[q].there \/ Had("early", q)'
  BY DEF CreateFileMetadata, Note, Had, Gone, Slipped
<1>3. Steps(c)
  BY CreateFileDoes DEF Over, Place
<1>4. \A r \in Requests \ {q} : Copies(r)' = Copies(r)
  BY CreateFileDoes DEF Copies
<1>5. (Over(c) /\ ~ row[q].there) \/ (Place(c, "mark") /\ Marks(c, q)')
  BY <1>1, CreateFileDoes DEF Place, Marks
<1>6. ASSUME NEW r \in Requests \ {q} PROVE RecordFor(r)'
  <2>1. call'[c].op \notin {"copy", "sign"} \/ call'[c].r # r
    BY <1>5, <1>6, Operates DEF Over, Place
  <2> QED BY <1>0, <1>1, <1>3, <1>4, <1>6, <2>1, RecordStep
<1>7. RecordFor(q)'
  <2>1. Marks(c, q)' => Marking(q)' /\ Awaited(q)'
    BY DEF Marking, Awaited
  <2>2. Had("early", q)' \/ (row'[q].there /\ Marking(q)' /\ Awaited(q)')
    BY <1>1, <1>2, <1>5, <2>1
  <2> QED BY <2>2 DEF RecordFor, Followed, MarkedRow
<1> QED BY <1>6, <1>7 DEF RecordInv, RecordFor

LEMMA MarkRecords ==
  ASSUME Types, FileInv, RowKept, RecordInv, NEW c \in Calls, MarkCopied(c) \/ MarkSigned(c)
  PROVE  RecordInv'
<1>0. happened \subseteq happened'
  BY HistoryGrows DEF Next, CallStep
<1> PICK q : q = call[c].r
  OBVIOUS
<1>1. UNCHANGED <<hs, files, events>> /\ call[c].pc = "mark" /\ q \in Requests /\ Marks(c, q)
  BY LocalType DEF MarkCopied, MarkSigned, At, tables, flying, CallType, Marks
<1>2. \A r : Copies(r)' = Copies(r)
  BY <1>1 DEF Copies
<1>3. Over(c) /\ Steps(c)
  BY MarkCopiedDoes, MarkSignedDoes DEF Over
<1>4. /\ \A r \in Requests \ {q} : row'[r] = row[r]
      /\ row[q].there => row'[q].there /\ row'[q].status = "signed"
      /\ ~ row[q].there => ~ row'[q].there
  <2>1. CASE MarkCopied(c)
    BY <1>1, <2>1 DEF MarkCopied, Types, StoreType, Rows
  <2>2. CASE MarkSigned(c)
    BY <2>2, MarkSignedRows
  <2> QED BY <2>1, <2>2
<1>5. ASSUME NEW r \in Requests \ {q} PROVE RecordFor(r)'
  BY <1>0, <1>1, <1>2, <1>3, <1>4, <1>5, RecordStep, Operates DEF Over
<1>6. RecordFor(q)'
  <2>1. RecordFor(q)
    BY <1>1 DEF RecordInv, RecordFor
  <2>2. Copies(q) # {} \/ Gone(q)
    BY <1>1 DEF RowKept, Copies, Gone
  <2>3. Marking(q)
    BY <1>1 DEF Marking
  <2>4. CASE row[q].there
    BY <1>0, <1>2, <1>4, <2>2, <2>4 DEF RecordFor, Followed, MarkedRow, Signed, Had, Gone, Slipped
  <2>5. CASE ~ row[q].there
    <3>1. Had("early", q) \/ Gone(q)
      BY <2>1, <2>3, <2>5 DEF RecordFor, MarkedRow
    <3> QED BY <1>0, <1>2, <1>4, <2>1, <2>5, <3>1 DEF RecordFor, Followed, MarkedRow, Had, Gone, Slipped
  <2> QED BY <2>4, <2>5
<1> QED BY <1>5, <1>6 DEF RecordInv, RecordFor

LEMMA ChangeRecords ==
  ASSUME Types, FileInv, RecordInv, NEW c \in Calls, Change(c)
  PROVE  RecordInv'
<1>0. happened \subseteq happened'
  BY HistoryGrows DEF Next, CallStep
<1>1. UNCHANGED <<hs, files, events>>
  BY DEF Change, flying
<1>2. PICK q \in Created :
         /\ (\E f \in files : f.of = q) => Had("moved", q)'
         /\ \A r \in Requests \ {q} : row'[r] = row[r]
         /\ Steps(c) /\ call[c].op = None /\ call[c].pc = "idle"
         /\ Began(c, "cancel", "tell", q) \/ Over(c)
  <2>1. PICK q \in Created, op \in {"cancel"} \cup Statuses :
           /\ row' = [row EXCEPT ![q].status = IF op = "cancel" THEN "canceled" ELSE op]
           /\ happened' = happened
                 \cup (IF \E f \in files : f.of = q THEN {<<"moved", q>>} ELSE {})
                 \cup (IF op # "cancel"
                       THEN {<<IF op = "cancel" THEN "canceled" ELSE op, q>>} ELSE {})
           /\ Steps(c) /\ call[c].op = None /\ call[c].pc = "idle"
           /\ Began(c, "cancel", "tell", q) \/ Over(c)
    BY ChangeDoes
  <2>2. \A r \in Requests \ {q} : row'[r] = row[r]
    BY <2>1 DEF Types, StoreType
  <2>3. (\E f \in files : f.of = q) => Had("moved", q)'
    BY <2>1 DEF Had, Gone, Slipped
  <2> QED BY <2>1, <2>2, <2>3
<1>3. \A r \in Requests : row'[r].there = row[r].there
  BY StatusRows
<1>4. \A r : Copies(r)' = Copies(r)
  BY <1>1 DEF Copies
<1>5. call'[c].pc \in {"tell", "ended"}
  BY <1>2 DEF Began, Over
<1>6. ASSUME NEW r \in Requests \ {q} PROVE RecordFor(r)'
  BY <1>0, <1>1, <1>2, <1>4, <1>5, <1>6, RecordStep, Operates
<1>7. RecordFor(q)'
  <2>0. q \in Requests
    BY DEF Created
  <2>1. RecordFor(q)
    BY <2>0 DEF RecordInv, RecordFor
  <2>2. ~ Marks(c, q) /\ ~ Marks(c, q)'
    BY <1>2, <1>5, Operates DEF Marks
  <2>3. (Marking(q)' <=> Marking(q)) /\ (Awaited(q) => Awaited(q)')
    BY <1>1, <1>2, <2>0, <2>2, MarkingFrame, Operates
  <2>4. Had("moved", q)' \/ Copies(q)' = {}
    BY <1>2, <1>4 DEF Copies
  <2> QED BY <1>0, <1>1, <1>3, <1>4, <2>0, <2>1, <2>3, <2>4
          DEF RecordFor, Followed, MarkedRow, Signed, Had, Gone, Slipped
<1> QED BY <1>6, <1>7 DEF RecordInv, RecordFor

LEMMA DeleteRowsRecords ==
  ASSUME Types, FileInv, RecordInv, NEW c \in Calls, DeleteRows(c)
  PROVE  RecordInv'
<1>0. happened \subseteq happened'
  BY HistoryGrows DEF Next, CallStep
<1>1. UNCHANGED <<hs, events>> /\ call[c].op = "delete" /\ call[c].pc = "delete"
  BY DEF DeleteRows, At, flying
<1>2. Steps(c) /\ call'[c].pc \in {"ended", "objects"}
  BY DeleteRowsDoes DEF Over, Place
<1>3. ASSUME NEW r \in Requests PROVE RecordFor(r)'
  <2>1. CASE r \in call[c].ids
    <3>1. Copies(r)' = {} /\ Had("removed", r)'
      BY <2>1, DeleteRowsDone DEF Copies
    <3> QED BY <3>1 DEF RecordFor, Followed, MarkedRow, Gone
  <2>2. CASE r \notin call[c].ids
    <3>1. row'[r] = row[r] /\ Copies(r)' = Copies(r)
      BY <2>2, DeleteRowsDone DEF Copies
    <3> QED BY <1>0, <1>1, <1>2, <3>1, RecordStep
  <2> QED BY <2>1, <2>2
<1> QED BY <1>3 DEF RecordInv, RecordFor

LEMMA FailRecords ==
  ASSUME Types, FileInv, RecordInv, NEW c \in Calls, Fail(c)
  PROVE  RecordInv'
<1>0. happened \subseteq happened'
  BY HistoryGrows DEF Next, CallStep
<1>1. UNCHANGED <<hs, row, files, events>>
  BY DEF Fail, tables, flying
<1>2. Over(c)
  BY FailDoes
<1>3. \A r : Copies(r)' = Copies(r)
  BY <1>1 DEF Copies
<1>4. ASSUME NEW r \in Requests PROVE RecordFor(r)'
  <2>1. CASE r # call[c].r
    BY <1>0, <1>1, <1>2, <1>3, <2>1, RecordStep, Operates DEF Over
  <2>2. CASE r = call[c].r
    <3>1. Slipped(r)'
      BY <2>2, RequestsNat DEF Fail, Note, Had, Gone, Slipped
    <3>2. MarkedRow(r)'
      <4>1. Marking(r)' => Marking(r)
        <5>1. CallQuiet
          BY <1>2, OverQuiet
        <5> QED BY <5>1 DEF CallQuiet, Marking
      <4> QED BY <1>0, <1>1, <4>1 DEF RecordInv, MarkedRow, Had, Gone, Slipped
    <3> QED BY <3>1, <3>2 DEF RecordFor, Followed
  <2> QED BY <2>1, <2>2
<1> QED BY <1>4 DEF RecordInv, RecordFor

\* The operations that neither mark nor copy.
LEMMA OtherRecords ==
  ASSUME Types, FileInv, RecordInv, NEW c \in Calls,
         \/ Sign(c) \/ ReadDocument(c) \/ GetObject(c) \/ UploadSigned(c) \/ CancelAtHelloSign(c)
         \/ StartOnboarding(c) \/ ListExisting(c) \/ CreateForOnboarding(c) \/ CreationFails(c)
         \/ StartDeletion(c) \/ ListHelloSign(c) \/ ListSimple(c) \/ DeleteObject(c)
  PROVE  RecordInv'
<1> USE DEF tables, flying
<1>0. happened \subseteq happened'
  BY HistoryGrows DEF Next, CallStep
<1>1. UNCHANGED <<row, files, events>>
  BY DEF Sign, ReadDocument, GetObject, UploadSigned, CancelAtHelloSign, StartOnboarding,
         ListExisting, CreateForOnboarding, CreationFails, StartDeletion, ListHelloSign,
         ListSimple, DeleteObject
<1>2. \A r : Copies(r)' = Copies(r)
  BY <1>1 DEF Copies
<1>3. call[c].op # "copy" /\ call[c].pc # "mark"
  <2>1. CASE Sign(c) \/ StartOnboarding(c) \/ StartDeletion(c)
    BY <2>1, SignDoes, OnboardingDoes, DeletionDoes, Operates DEF Began
  <2>2. CASE ~ (Sign(c) \/ StartOnboarding(c) \/ StartDeletion(c))
    BY <2>2 DEF ReadDocument, GetObject, UploadSigned, CancelAtHelloSign, ListExisting,
                CreateForOnboarding, CreationFails, ListHelloSign, ListSimple, DeleteObject, At
  <2> QED BY <2>1, <2>2
<1>4. Steps(c) /\ call'[c].pc # "mark"
  <2>1. CASE Sign(c) \/ StartOnboarding(c) \/ StartDeletion(c)
    BY <2>1, SignDoes, OnboardingDoes, DeletionDoes DEF Began
  <2>2. CASE ReadDocument(c) \/ GetObject(c) \/ UploadSigned(c) \/ CancelAtHelloSign(c)
    BY <2>2, ReadDoes, GetDoes, UploadSignedDoes, CancelDoes DEF Over, Place
  <2>3. CASE ListExisting(c)
    BY <2>3, ListDoes DEF Over
  <2>4. CASE CreateForOnboarding(c) \/ CreationFails(c) \/ DeleteObject(c)
    <3>1. \E k : Less(c, k)
      BY <2>4, CreateForDoes, FailsDoes, DeleteObjectDoes
    <3> QED BY <1>3, <3>1 DEF Less, Over
  <2>5. CASE ListHelloSign(c) \/ ListSimple(c)
    BY <2>5, ListHelloSignDoes, ListSimpleDoes DEF Over
  <2> QED BY <2>1, <2>2, <2>3, <2>4, <2>5
<1>5. ASSUME NEW r \in Requests PROVE RecordFor(r)'
  <2>1. ~ Marks(c, r) /\ ~ Marks(c, r)'
    BY <1>3, <1>4 DEF Marks
  <2>2. (Marking(r)' <=> Marking(r)) /\ (Awaited(r) => Awaited(r)')
    BY <1>1, <1>3, <1>4, <2>1, MarkingFrame
  <2>3. hs'[r] = "complete" => hs[r] = "complete"
    <3>1. CASE CreateForOnboarding(c)
      BY <3>1, CreateForDoes DEF Adds
    <3>2. CASE ~ CreateForOnboarding(c)
      BY <3>2 DEF Sign, ReadDocument, GetObject, UploadSigned, CancelAtHelloSign, StartOnboarding,
         ListExisting, CreationFails, StartDeletion, ListHelloSign, ListSimple, DeleteObject
    <3> QED BY <3>1, <3>2
  <2> QED BY <1>0, <1>1, <1>2, <2>2, <2>3, RecordFrame
<1> QED BY <1>5 DEF RecordInv, RecordFor

\* A statement that misses leaves a note of each request it was about; the others are as
\* they were.
LEMMA MissedRecords ==
  ASSUME Types, RecordInv, NEW c \in Calls, Missed(c) \/ CancelMissed(c)
  PROVE  RecordInv'
<1>1. UNCHANGED <<hs, row, files, events>> /\ happened \subseteq happened'
  BY MissedDoes, CancelMissedDoes
<1>2. \A r : Copies(r)' = Copies(r)
  BY <1>1 DEF Copies
<1>3. ASSUME NEW r \in Requests, Had("missed", r)' PROVE RecordFor(r)'
  BY <1>3 DEF RecordFor, Followed, MarkedRow, Slipped, Gone
<1>4. CASE CancelMissed(c)
  <2> PICK s \in Requests : Began(c, "cancel", "tell", s)
    BY <1>4, CancelMissedDoes
  <2>1. ASSUME NEW r \in Requests PROVE RecordFor(r)'
    BY <1>1, <1>2, <2>1, RecordStep, Operates DEF Began
  <2> QED BY <2>1 DEF RecordInv, RecordFor
<1>5. CASE Missed(c)
  <2>1. Steps(c)
    BY <1>5, MissedDoes DEF Over, Place
  <2>2. CASE call[c].op \in {"copy", "sign"} /\ <<"missed", call[c].r>> \in happened'
    <3>1. call'[c].op \notin {"copy", "sign"} \/ call'[c].r = call[c].r
      BY <1>5, MissedDoes, Operates DEF Over, Place
    <3>2. ASSUME NEW r \in Requests PROVE RecordFor(r)'
      <4>1. CASE r = call[c].r
        BY <1>3, <2>2, <4>1 DEF Had
      <4>2. CASE r # call[c].r
        BY <1>1, <1>2, <2>1, <3>1, <4>2, RecordStep
      <4> QED BY <4>1, <4>2
    <3> QED BY <3>2 DEF RecordInv, RecordFor
  <2>3. CASE call[c].op = "delete" /\ call[c].pc = "delete"
    <3>1. call'[c].pc # "mark"
      BY <1>5, <2>3, MissedDoes DEF Over, Place
    <3>2. ASSUME NEW r \in Requests PROVE RecordFor(r)'
      BY <1>1, <1>2, <2>1, <2>3, <3>1, RecordStep
    <3> QED BY <3>2 DEF RecordInv, RecordFor
  <2> QED BY <1>5, <2>2, <2>3, MissedDoes
<1> QED BY <1>4, <1>5

LEMMA RecordKept ==
  ASSUME Types, FileInv, RowKept, RecordInv, Next
  PROVE  RecordInv'
BY FlightRecords, CallbackRecords, CheckRecords, CreateFileRecords, MarkRecords, ChangeRecords,
   DeleteRowsRecords, FailRecords, MissedRecords, OtherRecords DEF Next, CallStep

LEMMA RecordsRight ==
  ASSUME Types, RecordInv
  PROVE  CompletedIsRecorded
<1> SUFFICES ASSUME AtRest, NEW r \in Created, hs[r] = "complete"
             PROVE  \/ row[r].there /\ row[r].status = "signed" /\ Copies(r) # {}
                    \/ Had("early", r) \/ Slipped(r)
                    \/ Had("removed", r) \/ Had("moved", r)
  BY DEF CompletedIsRecorded, Slipped
<1>1. ~ Awaited(r)
  BY Operates DEF AtRest, Awaited, Marking, Marks, Active
<1> QED BY <1>1 DEF RecordInv, Signed, Created

-----------------------------------------------------------------------------
(* Nothing is signed twice.                                                 *)

LEMMA InitOnce == Init => OnceInv
BY DEF Init, OnceInv, Created

\* What a call that makes a copy of r is to hold, at each of its steps.
Single(c, r) ==
  /\ call[c].op = "sign" /\ call[c].pc # "read" => Kind(r) = "simple"
  /\ call[c].pc \in {"get", "upload", "insert"} => Copies(r) = {}
  /\ call[c].pc = "get" => call[c].key = Document
  /\ call[c].pc = "upload" => call[c].pages <= 1

LEMMA OnceForms ==
  ASSUME NEW r
  PROVE  OnceFor(r) <=>
           /\ \A c, d \in Copying(r) : c = d
           /\ \A f, g \in Copies(r) : f = g
           /\ \A o \in stored : o[1][1] = r => o[2] <= 1
           /\ \A c \in Copying(r) : Single(c, r)
           /\ Kind(r) = "helloSign" => \A f \in Copies(r) : f.key = CopyKey(r, "company")
BY DEF OnceFor, Single

LEMMA CleanBefore ==
  ASSUME happened \subseteq happened', NEW r, Clean(r)'
  PROVE  Clean(r)
BY DEF Clean, Slipped, Had

\* No object of r is new, but one with at most one page.
ObjectsOnce(r) == \A o \in stored' : o[1][1] = r => o \in stored \/ o[2] <= 1

\* The calls that make a copy of r go on as they were.
LEMMA OnceFrame ==
  ASSUME OnceInv, happened \subseteq happened', NEW r \in Created, about'[r] = about[r], Clean(r)',
         \A d \in Calls : call'[d].op \in {"copy", "sign"} /\ call'[d].r = r => call'[d] = call[d],
         Copies(r)' \subseteq Copies(r), ObjectsOnce(r)
  PROVE  OnceFor(r)'
<1>1. OnceFor(r)
  BY CleanBefore DEF OnceInv
<1>2. Kind(r)' = Kind(r)
  BY DEF Kind
<1>3. ASSUME NEW d \in Copying(r)' PROVE d \in Copying(r) /\ call'[d] = call[d]
  BY DEF Copying
<1>4. \A c, d \in Copying(r)' : c = d
  BY <1>1, <1>3 DEF OnceFor
<1>5. \A f, g \in Copies(r)' : f = g
  BY <1>1 DEF OnceFor
<1>6. \A o \in stored' : o[1][1] = r => o[2] <= 1
  BY <1>1 DEF OnceFor, ObjectsOnce
<1>7. ASSUME NEW c \in Copying(r)' PROVE Single(c, r)'
  <2>1. Single(c, r) /\ call'[c] = call[c]
    BY <1>1, <1>3 DEF OnceFor, Single
  <2> QED BY <1>2, <2>1 DEF Single
<1>8. Kind(r)' = "helloSign" => \A f \in Copies(r)' : f.key = CopyKey(r, "company")
  BY <1>1, <1>2 DEF OnceFor
<1> QED BY <1>4, <1>5, <1>6, <1>7, <1>8 DEF OnceFor, Single

\* c makes a copy of r, and goes on.
LEMMA OnceMove ==
  ASSUME OnceInv, happened \subseteq happened', NEW r \in Created, UNCHANGED about, Clean(r)',
         NEW c \in Calls, Steps(c), call[c].op \in {"copy", "sign"}, call[c].r = r,
         call'[c].op = call[c].op, call'[c].r = r, Single(c, r)',
         \A f, g \in Copies(r)' : f = g,
         Kind(r) = "helloSign" => \A f \in Copies(r)' : f.key = CopyKey(r, "company"),
         ObjectsOnce(r)
  PROVE  OnceFor(r)'
<1>1. OnceFor(r)
  BY CleanBefore DEF OnceInv
<1>2. \A d \in Copying(r) : d = c
  BY <1>1 DEF OnceFor, Copying
<1>3. ASSUME NEW d \in Copying(r)' PROVE d = c
  <2>1. d # c => d \in Copying(r)
    BY DEF Copying, Steps
  <2> QED BY <1>2, <2>1
<1>4. \A o \in stored' : o[1][1] = r => o[2] <= 1
  BY <1>1 DEF OnceFor, ObjectsOnce
<1>5. \A d \in Copying(r)' : Single(d, r)'
  BY <1>3
<1>6. \A d, e \in Copying(r)' : d = e
  BY <1>3
<1> QED BY <1>4, <1>5, <1>6 DEF OnceFor, Single, Kind

LEMMA AddsOnce ==
  ASSUME Types, FileInv, OnceInv, happened \subseteq happened',
         NEW new, NEW kind \in Kinds, NEW onboarding, Adds(new, kind, onboarding),
         UNCHANGED <<files, stored>>,
         \A d \in Calls : call'[d].op \in {"copy", "sign"} => call'[d] = call[d]
  PROVE  OnceInv'
<1>1. ASSUME NEW r \in Created', Clean(r)' PROVE OnceFor(r)'
  <2>0. r \in Requests
    BY DEF Created
  <2>1. CASE r \in new
    <3>1. about[r] = None /\ r # 0
      BY <2>0, <2>1, RequestsNat DEF Adds
    <3>2. Copies(r)' = {}
      BY <3>1 DEF Copies, FileInv, FileRows
    <3>3. Copying(r)' = {}
      <4>1. ASSUME NEW d \in Calls, call'[d].op \in {"copy", "sign"}, call'[d].r = r PROVE FALSE
        <5>1. call'[d] = call[d] /\ CallType(call[d])
          BY <4>1, LocalType
        <5>2. about[r] # None
          BY <2>0, <4>1, <5>1 DEF CallType, Types, RequestType
        <5> QED BY <3>1, <5>2
      <4> QED BY <4>1 DEF Copying
    <3>4. \A o \in stored' : o[1][1] # r
      BY <3>1 DEF Types, StoreType
    <3> QED BY <3>2, <3>3, <3>4 DEF OnceFor
  <2>2. CASE r \notin new
    <3>1. r \in Created /\ about'[r] = about[r]
      BY <2>0, <2>2 DEF Adds, Created
    <3>2. Copies(r)' \subseteq Copies(r)
      BY DEF Copies
    <3> QED BY <1>1, <3>1, <3>2, OnceFrame DEF ObjectsOnce
  <2> QED BY <2>1, <2>2
<1> QED BY <1>1 DEF OnceInv

\* Where no request is added.
LEMMA OnceAll ==
  ASSUME UNCHANGED about, \A o \in stored' : o[1] = Document => o[2] = 0,
         \A r \in Created : Clean(r)' => OnceFor(r)'
  PROVE  OnceInv'
BY DEF OnceInv, Created

LEMMA PutOnce ==
  ASSUME NEW r, NEW p, NEW pages, Put(CopyKey(r, p), pages)
  PROVE  /\ \A o \in stored' : o \in stored \/ (o[1][1] = r /\ o[1] = CopyKey(r, p) /\ o[2] = pages)
<1>1. \A o \in stored' : o \in stored \/ o = <<CopyKey(r, p), pages>>
  BY DEF Put
<1> QED BY <1>1 DEF CopyKey

\* The steps that make no copy, and put nothing in the bucket.
LEMMA OnceQuiet ==
  ASSUME OnceInv, happened \subseteq happened', UNCHANGED about,
         files' \subseteq files, stored' \subseteq stored,
         \A d \in Calls : call'[d].op \in {"copy", "sign"} => call'[d] = call[d]
  PROVE  OnceInv'
<1>1. ASSUME NEW r \in Created, Clean(r)' PROVE OnceFor(r)'
  <2>1. Copies(r)' \subseteq Copies(r) /\ ObjectsOnce(r)
    BY DEF Copies, ObjectsOnce
  <2> QED BY <1>1, <2>1, OnceFrame
<1>2. \A o \in stored' : o[1] = Document => o[2] = 0
  BY DEF OnceInv
<1> QED BY <1>1, <1>2, OnceAll

LEMMA FlightOnce ==
  ASSUME Types, FileInv, OnceInv,
         \/ SendSimple \/ SendHelloSign \/ InsertLands \/ InsertLost
         \/ SignAtHelloSign \/ Redelivered \/ CancelLands \/ UploadLands \/ UploadLost
  PROVE  OnceInv'
<1> USE DEF tables, flying
<1>0. happened \subseteq happened'
  BY HistoryGrows DEF Next
<1>1. CASE SendSimple \/ SendHelloSign
  <2>1. UNCHANGED <<files, stored, call>>
    BY <1>1 DEF SendSimple, SendHelloSign
  <2> QED BY <1>0, <1>1, <2>1, SendDoes, AddsOnce
<1>2. CASE \/ InsertLands \/ InsertLost \/ SignAtHelloSign \/ Redelivered \/ CancelLands
           \/ UploadLost
  <2>1. UNCHANGED <<about, files, stored, call>>
    BY <1>2 DEF InsertLands, InsertLost, SignAtHelloSign, Redelivered, CancelLands, UploadLost
  <2> QED BY <1>0, <2>1, OnceQuiet
<1>3. CASE UploadLands
  <2> PICK s \in uploads : Put(CopyKey(s, "company"), 0)
    BY <1>3 DEF UploadLands
  <2>1. UNCHANGED <<about, files, call>>
    BY <1>3 DEF UploadLands
  <2>2. s \in Requests
    BY DEF Types, StoreType
  <2>3. \A o \in stored' : o \in stored \/ (o[1][1] = s /\ o[1] = CopyKey(s, "company") /\ o[2] = 0)
    BY PutOnce
  <2>4. \A o \in stored' : o[1] = Document => o[2] = 0
    BY <2>3 DEF OnceInv
  <2>5. ASSUME NEW r \in Created, Clean(r)' PROVE OnceFor(r)'
    <3>1. Copies(r)' \subseteq Copies(r) /\ ObjectsOnce(r)
      BY <2>1, <2>3 DEF Copies, ObjectsOnce
    <3> QED BY <1>0, <2>1, <2>5, <3>1, OnceFrame
  <2> QED BY <2>1, <2>4, <2>5, OnceAll
<1> QED BY <1>1, <1>2, <1>3

\* A call that starts to copy r is the only one, or it raced.
LEMMA BeganOnce ==
  ASSUME Types, OnceInv, happened \subseteq happened', NEW c \in Calls, NEW q \in Created,
         NEW op \in {"copy", "sign"}, NEW pc \in {"check", "read"}, op = "sign" => pc = "read",
         Began(c, op, pc, q), Overlapped(q), UNCHANGED <<about, files, stored>>
  PROVE  OnceInv'
<1>1. Steps(c) /\ call'[c].op = op /\ call'[c].pc = pc /\ call'[c].r = q /\ call[c].op = None
  BY DEF Began
<1>2. ASSUME NEW r \in Created, Clean(r)' PROVE OnceFor(r)'
  <2>1. Copies(r)' = Copies(r) /\ ObjectsOnce(r)
    BY DEF Copies, ObjectsOnce
  <2>2. CASE r # q
    <3>1. \A d \in Calls : call'[d].op \in {"copy", "sign"} /\ call'[d].r = r => call'[d] = call[d]
      BY <1>1, <2>2 DEF Steps
    <3> QED BY <1>2, <2>1, <3>1, OnceFrame
  <2>3. CASE r = q
    <3>1. Copying(r) = {}
      BY <1>2, <2>3 DEF Overlapped, Clean, Slipped, Had
    <3>2. OnceFor(r)
      BY <1>2, CleanBefore DEF OnceInv
    <3>3. \A d \in Copying(r)' : d = c
      BY <1>1, <3>1 DEF Copying, Steps
    <3>4. Single(c, r)'
      BY <1>1 DEF Single
    <3>5. \A d \in Copying(r)' : Single(d, r)'
      BY <3>3, <3>4
    <3>6. \A d, e \in Copying(r)' : d = e
      BY <3>3
    <3> QED BY <2>1, <3>2, <3>5, <3>6 DEF OnceFor, Single, Kind
  <2> QED BY <2>2, <2>3
<1>3. \A o \in stored' : o[1] = Document => o[2] = 0
  BY DEF OnceInv
<1> QED BY <1>2, <1>3, OnceAll

LEMMA StartsOnce ==
  ASSUME Types, OnceInv, NEW c \in Calls, Callback(c) \/ Sign(c)
  PROVE  OnceInv'
<1> USE DEF tables, flying
<1>0. happened \subseteq happened'
  BY HistoryGrows DEF Next, CallStep
<1>1. CASE Callback(c)
  <2>1. UNCHANGED <<about, files, stored>>
    BY <1>1 DEF Callback
  <2>2. PICK q \in events : Began(c, "copy", "check", q) /\ Overlapped(q)
    BY <1>1, CallbackDoes
  <2>3. q \in Created
    BY DEF Types, StoreType, RequestType, Created
  <2> QED BY <1>0, <2>1, <2>2, <2>3, BeganOnce
<1>2. CASE Sign(c)
  <2>1. UNCHANGED <<about, files, stored>>
    BY <1>2 DEF Sign
  <2>2. PICK q \in Created : Began(c, "sign", "read", q) /\ Overlapped(q)
    BY <1>2, SignDoes
  <2> QED BY <1>0, <2>1, <2>2, BeganOnce
<1> QED BY <1>1, <1>2

\* The steps of c that make a copy of q, as they concern other requests.
LEMMA OthersOnce ==
  ASSUME OnceInv, happened \subseteq happened', UNCHANGED about, NEW c \in Calls, Steps(c),
         NEW q \in Created, \A r \in Created \ {q} : Copies(r)' = Copies(r) /\ ObjectsOnce(r),
         call'[c].op \in {"copy", "sign"} => call'[c].r = q,
         \A o \in stored' : o[1] = Document => o[2] = 0,
         Clean(q)' => OnceFor(q)'
  PROVE  OnceInv'
<1>1. ASSUME NEW r \in Created, r # q, Clean(r)' PROVE OnceFor(r)'
  <2>1. \A d \in Calls : call'[d].op \in {"copy", "sign"} /\ call'[d].r = r => call'[d] = call[d]
    BY <1>1 DEF Steps
  <2> QED BY <1>1, <2>1, OnceFrame
<1> QED BY <1>1, OnceAll

\* c makes a copy of a request that was created.
LEMMA CopyingCreated ==
  ASSUME Types, NEW c \in Calls, call[c].op \in {"copy", "sign"}
  PROVE  call[c].r \in Created /\ (call[c].op = "copy" => Kind(call[c].r) = "helloSign")
BY LocalType DEF CallType, Types, RequestType, Created

LEMMA CheckOnce ==
  ASSUME Types, FileInv, OnceInv, NEW c \in Calls, CheckForDuplicate(c)
  PROVE  OnceInv'
<1>0. happened \subseteq happened'
  BY HistoryGrows DEF Next, CallStep
<1>1. UNCHANGED <<about, files, stored>> /\ call[c].op = "copy" /\ call[c].pc = "check"
  BY DEF CheckForDuplicate, At, tables
<1>2. CASE Over(c)
  <2>1. \A d \in Calls : call'[d].op \in {"copy", "sign"} => call'[d] = call[d]
    BY <1>2, Operates DEF Over, Steps
  <2> QED BY <1>0, <1>1, <2>1, OnceQuiet
<1>3. CASE Place(c, "insert") /\ ~ \E f \in files : f.key = CopyKey(call[c].r, "company")
  <2> PICK q : q = call[c].r
    OBVIOUS
  <2>1. q \in Created /\ Kind(q) = "helloSign"
    BY <1>1, CopyingCreated
  <2>2. /\ Steps(c) /\ call'[c].op = "copy" /\ call'[c].r = q /\ call'[c].pc = "insert"
    BY <1>1, <1>3 DEF Place
  <2>3. \A r : Copies(r)' = Copies(r) /\ ObjectsOnce(r)
    BY <1>1 DEF Copies, ObjectsOnce
  <2>4. ASSUME Clean(q)' PROVE OnceFor(q)'
    <3>1. OnceFor(q)
      BY <1>0, <2>1, <2>4, CleanBefore DEF OnceInv
    <3>2. Copies(q) = {}
      BY <1>3, <2>1, <3>1 DEF OnceFor, Copies
    <3>3. Single(c, q)'
      BY <2>2, <2>3, <3>2 DEF Single
    <3> QED BY <1>0, <1>1, <2>1, <2>2, <2>3, <2>4, <3>2, <3>3, OnceMove
  <2>5. \A o \in stored' : o[1] = Document => o[2] = 0
    BY <1>1 DEF OnceInv
  <2> QED BY <1>0, <1>1, <2>1, <2>2, <2>3, <2>4, <2>5, OthersOnce
<1> QED BY <1>2, <1>3, CheckDoes

LEMMA CreateFileOnce ==
  ASSUME Types, FileInv, OnceInv, NEW c \in Calls, CreateFileMetadata(c)
  PROVE  OnceInv'
<1>0. happened \subseteq happened'
  BY HistoryGrows DEF Next, CallStep
<1>1. UNCHANGED <<about, stored>> /\ call[c].op \in {"copy", "sign"} /\ call[c].pc = "insert"
  BY DEF CreateFileMetadata
<1>2. CASE Over(c) /\ UNCHANGED files
  <2>1. \A d \in Calls : call'[d].op \in {"copy", "sign"} => call'[d] = call[d]
    BY <1>2, Operates DEF Over, Steps
  <2> QED BY <1>0, <1>1, <1>2, <2>1, OnceQuiet
<1>3. CASE /\ Place(c, "mark")
           /\ \E key \in Keys :
                  /\ files' = files \cup {[id |-> FileOf(c), of |-> call[c].r, key |-> key]}
                  /\ call[c].op = "copy" => key = CopyKey(call[c].r, "company")
                  /\ call[c].op = "sign" => key = CopyKey(call[c].r, call[c].path)
  <2> PICK q : q = call[c].r
    OBVIOUS
  <2> PICK key \in Keys :
                  /\ files' = files \cup {[id |-> FileOf(c), of |-> q, key |-> key]}
                  /\ call[c].op = "copy" => key = CopyKey(q, "company")
    BY <1>3
  <2> DEFINE g == [id |-> FileOf(c), of |-> q, key |-> key]
  <2>1. q \in Created
    BY <1>1, CopyingCreated
  <2>2. /\ Steps(c) /\ call'[c].op = call[c].op /\ call'[c].r = q /\ call'[c].pc = "mark"
    BY <1>3 DEF Place
  <2>3. g.of = q /\ g.key = key /\ files' = files \cup {g}
    OBVIOUS
  <2> HIDE DEF g
  <2>4. \A r \in Created \ {q} : Copies(r)' = Copies(r) /\ ObjectsOnce(r)
    BY <1>1, <2>3 DEF Copies, ObjectsOnce
  <2>5. ASSUME Clean(q)' PROVE OnceFor(q)'
    <3>1. OnceFor(q)
      BY <1>0, <2>1, <2>5, CleanBefore DEF OnceInv
    <3>2. c \in Copying(q)
      BY <1>1 DEF Copying
    <3>3. Copies(q) = {} /\ (call[c].op = "sign" => Kind(q) = "simple")
      BY <1>1, <3>1, <3>2 DEF OnceFor
    <3>4. Copies(q)' = {g}
      BY <2>3, <3>3 DEF Copies
    <3>5. Single(c, q)'
      BY <1>1, <2>2, <3>3 DEF Single, Kind
    <3>6. Kind(q) = "helloSign" => g.key = CopyKey(q, "company")
      BY <1>1, <2>3, <3>3
    <3>7. ObjectsOnce(q)
      BY <1>1 DEF ObjectsOnce
    <3>8. /\ \A f, h \in Copies(q)' : f = h
          /\ Kind(q) = "helloSign" => \A f \in Copies(q)' : f.key = CopyKey(q, "company")
      BY <3>4, <3>6
    <3> QED BY <1>0, <1>1, <2>1, <2>2, <2>5, <3>5, <3>7, <3>8, OnceMove
  <2>6. \A o \in stored' : o[1] = Document => o[2] = 0
    BY <1>1 DEF OnceInv
  <2> QED BY <1>0, <1>1, <2>1, <2>2, <2>4, <2>5, <2>6, OthersOnce
<1> QED BY <1>2, <1>3, CreateFileDoes

\* What is clean has a copy only if it is signed, or about to be by the call that made it.
LEMMA ReadFinds ==
  ASSUME Types, FileInv, RecordInv, OnceInv, NEW c \in Calls, NEW q \in Created, Clean(q),
         call[c].op = "sign", call[c].pc = "read", call[c].r = q,
         row[q].status # "signed", NEW f \in FilesOf(q)
  PROVE  f.key = Document /\ Copies(q) = {} /\ Kind(q) = "simple"
<1>0. q \in Requests /\ OnceFor(q) /\ f \in files /\ row[q].there
  BY DEF OnceInv, Created, FilesOf
<1>1. Copies(q) = {}
  <2>1. ~ Marking(q)
    <3>1. ASSUME NEW d \in Calls, Marks(d, q) PROVE FALSE
      <4>1. d \in Copying(q) /\ c \in Copying(q)
        BY <3>1 DEF Copying, Marks
      <4>2. d = c
        BY <1>0, <4>1 DEF OnceFor
      <4> QED BY <3>1, <4>2 DEF Marks
    <3> QED BY <3>1 DEF Marking
  <2> QED BY <1>0, <2>1 DEF RecordInv, Followed, Clean, Slipped
<1>2. f.of # q
  BY <1>0, <1>1 DEF Copies
<1>3. f.id = row[q].file
  BY <1>2 DEF FilesOf
<1>4. f.of = 0 /\ f.id = 1 /\ f.key = Document
  BY <1>0, <1>2, <1>3 DEF FileInv, FileRefers, FileRows
<1>5. Kind(q) # "helloSign"
  BY <1>0, <1>3, <1>4 DEF FileInv, FileRefers
<1>6. Kind(q) \in Kinds
  BY <1>0 DEF Created, Types, RequestType, About, Kind
<1> QED BY <1>1, <1>4, <1>5, <1>6 DEF Kinds

LEMMA ReadOnce ==
  ASSUME Types, FileInv, RecordInv, OnceInv, NEW c \in Calls, ReadDocument(c) \/ GetObject(c)
  PROVE  OnceInv'
<1>0. happened \subseteq happened'
  BY HistoryGrows DEF Next, CallStep
<1>1. UNCHANGED <<about, files, stored>> /\ call[c].op = "sign"
  BY DEF ReadDocument, GetObject, At, tables
<1> PICK q : q = call[c].r
  OBVIOUS
<1>2. q \in Created /\ c \in Copying(q)
  BY <1>1, CopyingCreated DEF Copying
<1>3. \A r : Copies(r)' = Copies(r) /\ ObjectsOnce(r)
  BY <1>1 DEF Copies, ObjectsOnce
<1>4. \A o \in stored' : o[1] = Document => o[2] = 0
  BY <1>1 DEF OnceInv
<1>5. CASE Over(c)
  <2>1. \A d \in Calls : call'[d].op \in {"copy", "sign"} => call'[d] = call[d]
    BY <1>5, Operates DEF Over, Steps
  <2> QED BY <1>0, <1>1, <2>1, OnceQuiet
<1>6. CASE ReadDocument(c) /\ ~ Over(c)
  <2>1. call[c].pc = "read"
    BY <1>6 DEF ReadDocument, At
  <2>2. PICK f \in FilesOf(q) :
                /\ row[q].status # "signed"
                /\ Steps(c) /\ call'[c].pc = "get" /\ call'[c].key = f.key
                /\ call'[c].op = "sign" /\ call'[c].r = q
    BY <1>6, ReadDoes
  <2>3. ASSUME Clean(q)' PROVE OnceFor(q)'
    <3>1. Clean(q) /\ OnceFor(q)
      BY <1>0, <1>2, <2>3, CleanBefore DEF OnceInv
    <3>2. f.key = Document /\ Copies(q) = {} /\ Kind(q) = "simple"
      BY <1>1, <1>2, <2>1, <2>2, <3>1, ReadFinds
    <3>3. Single(c, q)'
      BY <1>1, <1>3, <2>2, <3>2 DEF Single, Kind
    <3> QED BY <1>0, <1>1, <1>2, <1>3, <2>2, <2>3, <3>2, <3>3, OnceMove
  <2> QED BY <1>0, <1>1, <1>2, <1>3, <1>4, <2>2, <2>3, OthersOnce
<1>7. CASE GetObject(c) /\ ~ Over(c)
  <2>1. call[c].pc = "get"
    BY <1>7 DEF GetObject, At
  <2>2. PICK o \in Object(call[c].key) :
                /\ Steps(c) /\ call'[c].pc = "upload" /\ call'[c].pages = o[2] + 1
                /\ call'[c].op = "sign" /\ call'[c].r = q
    BY <1>7, GetDoes
  <2>3. ASSUME Clean(q)' PROVE OnceFor(q)'
    <3>1. OnceFor(q)
      BY <1>0, <1>2, <2>3, CleanBefore DEF OnceInv
    <3>2. call[c].key = Document /\ Copies(q) = {} /\ Kind(q) = "simple"
      BY <1>1, <1>2, <2>1, <3>1 DEF OnceFor
    <3>3. o[2] = 0
      BY <2>2, <3>2 DEF OnceInv, Object
    <3>4. Single(c, q)'
      BY <1>1, <1>3, <2>2, <3>2, <3>3 DEF Single, Kind
    <3> QED BY <1>0, <1>1, <1>2, <1>3, <2>2, <2>3, <3>2, <3>4, OnceMove
  <2> QED BY <1>0, <1>1, <1>2, <1>3, <1>4, <2>2, <2>3, OthersOnce
<1> QED BY <1>5, <1>6, <1>7

LEMMA UploadOnce ==
  ASSUME Types, OnceInv, NEW c \in Calls, UploadSigned(c)
  PROVE  OnceInv'
<1>0. happened \subseteq happened'
  BY HistoryGrows DEF Next, CallStep
<1> PICK q, path, pages : q = call[c].r /\ path = call[c].path /\ pages = call[c].pages
  OBVIOUS
<1>1. UNCHANGED <<about, files>> /\ call[c].op = "sign" /\ call[c].pc = "upload"
      /\ Put(CopyKey(q, path), pages)
  BY DEF UploadSigned, At, tables
<1>2. q \in Created /\ c \in Copying(q)
  BY <1>1, CopyingCreated DEF Copying
<1>3. \A o \in stored' : o \in stored \/ (o[1][1] = q /\ o[1] = CopyKey(q, path) /\ o[2] = pages)
  BY <1>1, PutOnce
<1>4. /\ Steps(c) /\ call'[c].op = "sign" /\ call'[c].r = q /\ call'[c].pc = "insert"
  BY <1>1, UploadSignedDoes DEF Place
<1>5. q # 0
  BY <1>2, RequestsNat DEF Created
<1>6. \A o \in stored' : o[1] = Document => o[2] = 0
  BY <1>3, <1>5, DocumentKey DEF OnceInv
<1>7. \A r : Copies(r)' = Copies(r)
  BY <1>1 DEF Copies
<1>8. \A r \in Created \ {q} : ObjectsOnce(r)
  BY <1>3 DEF ObjectsOnce
<1>9. ASSUME Clean(q)' PROVE OnceFor(q)'
  <2>1. OnceFor(q)
    BY <1>0, <1>2, <1>9, CleanBefore DEF OnceInv
  <2>2. Copies(q) = {} /\ pages <= 1 /\ Kind(q) = "simple"
    BY <1>1, <1>2, <2>1 DEF OnceFor
  <2>3. ObjectsOnce(q)
    BY <1>3, <2>2 DEF ObjectsOnce
  <2>4. Single(c, q)'
    BY <1>1, <1>4, <1>7, <2>2 DEF Single, Kind
  <2> QED BY <1>0, <1>1, <1>2, <1>4, <1>7, <1>9, <2>2, <2>3, <2>4, OnceMove
<1> QED BY <1>0, <1>1, <1>2, <1>4, <1>6, <1>7, <1>8, <1>9, OthersOnce

\* The operations that make no copy, or end.
LEMMA OtherOnce ==
  ASSUME Types, FileInv, OnceInv, NEW c \in Calls,
         \/ MarkCopied(c) \/ MarkSigned(c) \/ Change(c) \/ CancelAtHelloSign(c)
         \/ StartOnboarding(c) \/ ListExisting(c) \/ CreateForOnboarding(c) \/ CreationFails(c)
         \/ StartDeletion(c) \/ ListHelloSign(c) \/ ListSimple(c) \/ DeleteRows(c)
         \/ DeleteObject(c) \/ Fail(c)
  PROVE  OnceInv'
<1> USE DEF tables, flying
<1>0. happened \subseteq happened'
  BY HistoryGrows DEF Next, CallStep
<1>1. Steps(c) /\ call'[c].op \notin {"copy", "sign"}
  <2>1. CASE MarkCopied(c) \/ MarkSigned(c) \/ CancelAtHelloSign(c) \/ Fail(c)
    BY <2>1, MarkCopiedDoes, MarkSignedDoes, CancelDoes, FailDoes, Operates DEF Over
  <2>2. CASE Change(c)
    <3>1. PICK r \in Created : Began(c, "cancel", "tell", r) \/ Over(c)
      BY <2>2, ChangeDoes
    <3> QED BY <3>1, Operates DEF Began, Over
  <2>3. CASE StartOnboarding(c) \/ StartDeletion(c)
    BY <2>3, OnboardingDoes, DeletionDoes DEF Began
  <2>4. CASE ListExisting(c)
    <3>1. Over(c) \/ (Steps(c) /\ call'[c].op = "onboard")
      BY <2>4, ListDoes
    <3> QED BY <3>1, Operates DEF Over
  <2>5. CASE CreateForOnboarding(c) \/ CreationFails(c) \/ DeleteObject(c)
    <3>1. \E k : Less(c, k)
      BY <2>5, CreateForDoes, FailsDoes, DeleteObjectDoes
    <3>2. call[c].op \notin {"copy", "sign"}
      BY <2>5 DEF CreateForOnboarding, CreationFails, DeleteObject, At
    <3> QED BY <3>1, <3>2, Operates DEF Less, Over
  <2>6. CASE ListHelloSign(c) \/ ListSimple(c)
    <3>1. Over(c) \/ (Steps(c) /\ call'[c].op = "delete")
      BY <2>6, ListHelloSignDoes, ListSimpleDoes
    <3> QED BY <3>1, Operates DEF Over
  <2>7. CASE DeleteRows(c)
    <3>1. call[c].op = "delete"
      BY <2>7 DEF DeleteRows, At
    <3> QED BY <2>7, <3>1, DeleteRowsDoes, Operates DEF Over, Place
  <2> QED BY <2>1, <2>2, <2>3, <2>4, <2>5, <2>6, <2>7
<1>2. \A d \in Calls : call'[d].op \in {"copy", "sign"} => call'[d] = call[d]
  BY <1>1 DEF Steps
<1>3. CASE CreateForOnboarding(c)
  <2>1. UNCHANGED <<files, stored>>
    BY <1>3 DEF CreateForOnboarding
  <2> QED BY <1>0, <1>2, <1>3, <2>1, CreateForDoes, AddsOnce
<1>4. CASE DeleteRows(c)
  <2>1. UNCHANGED <<about, stored>> /\ files' \subseteq files
    BY <1>4 DEF DeleteRows
  <2> QED BY <1>0, <1>2, <2>1, OnceQuiet
<1>5. CASE DeleteObject(c)
  <2>1. UNCHANGED <<about, files>> /\ stored' \subseteq stored
    BY <1>5 DEF DeleteObject
  <2> QED BY <1>0, <1>2, <2>1, OnceQuiet
<1>6. CASE ~ (CreateForOnboarding(c) \/ DeleteRows(c) \/ DeleteObject(c))
  <2>1. UNCHANGED <<about, files, stored>>
    BY <1>6 DEF MarkCopied, MarkSigned, Change, CancelAtHelloSign, StartOnboarding, ListExisting,
                CreationFails, StartDeletion, ListHelloSign, ListSimple, Fail
  <2> QED BY <1>0, <1>2, <2>1, OnceQuiet
<1> QED BY <1>3, <1>4, <1>5, <1>6

LEMMA MissedOnce ==
  ASSUME Types, OnceInv, NEW c \in Calls, Missed(c) \/ CancelMissed(c)
  PROVE  OnceInv'
<1>1. UNCHANGED <<about, files, stored>> /\ happened \subseteq happened'
  BY MissedDoes, CancelMissedDoes
<1>2. CASE Steps(c) /\ call'[c].op \notin {"copy", "sign"}
  BY <1>1, <1>2, OnceQuiet DEF Steps
<1>3. CASE call[c].op = "copy" /\ Place(c, "mark") /\ <<"missed", call[c].r>> \in happened'
  <2> PICK q : q = call[c].r
    OBVIOUS
  <2>1. q \in Created
    BY <1>3, CopyingCreated
  <2>2. Steps(c) /\ call'[c].r = q /\ ~ Clean(q)'
    BY <1>3 DEF Place, Clean, Slipped, Had
  <2>3. \A r : Copies(r)' = Copies(r) /\ ObjectsOnce(r)
    BY <1>1 DEF Copies, ObjectsOnce
  <2>4. \A o \in stored' : o[1] = Document => o[2] = 0
    BY <1>1 DEF OnceInv
  <2> QED BY <1>1, <2>1, <2>2, <2>3, <2>4, OthersOnce
<1>4. CASE CancelMissed(c)
  BY <1>2, <1>4, CancelMissedDoes DEF Began
<1>5. CASE Missed(c)
  BY <1>2, <1>3, <1>5, MissedDoes, Operates DEF Over, Place
<1> QED BY <1>4, <1>5

LEMMA OnceKept ==
  ASSUME Types, FileInv, RecordInv, OnceInv, Next
  PROVE  OnceInv'
BY FlightOnce, StartsOnce, CheckOnce, CreateFileOnce, ReadOnce, UploadOnce, OtherOnce,
   MissedOnce
   DEF Next, CallStep

LEMMA AtMostOne ==
  ASSUME NEW S, \A x, y \in S : x = y
  PROVE  Cardinality(S) <= 1
<1>1. CASE S = {}
  BY <1>1, FS_EmptySet
<1>2. CASE S # {}
  <2>1. PICK x : S = {x}
    BY <1>2
  <2> QED BY <2>1, FS_Singleton
<1> QED BY <1>1, <1>2

LEMMA OnceRight ==
  ASSUME Types, FileInv, OnceInv
  PROVE  SignedOnce
<1> SUFFICES ASSUME NEW r \in Requests, Clean(r)
             PROVE  Cardinality(Copies(r)) <= 1 /\ \A o \in stored : o[1][1] = r => o[2] <= 1
  BY DEF SignedOnce, Clean, Slipped
<1>1. CASE about[r] = None
  <2>1. Copies(r) = {} /\ \A o \in stored : o[1][1] # r
    BY <1>1, RequestsNat DEF Copies, FileInv, FileRows, Types, StoreType
  <2>2. Cardinality(Copies(r)) <= 1
    BY <2>1, AtMostOne
  <2> QED BY <2>1, <2>2
<1>2. CASE about[r] # None
  <2>1. OnceFor(r)
    BY <1>2 DEF OnceInv, Created
  <2>2. Cardinality(Copies(r)) <= 1
    BY <2>1, AtMostOne DEF OnceFor
  <2> QED BY <2>1, <2>2 DEF OnceFor
<1> QED BY <1>1, <1>2

-----------------------------------------------------------------------------
(* The onboarding is done once.                                             *)

\* What a call of the onboarding knows of the requests that were created for it.
Lists(c, r) ==
  /\ call[c].pc = "create" => Kind(r) \notin call[c].todo
  /\ call[c].pc = "list" => /\ ~ InFlight(r)
                            /\ Kind(r) \in call[c].todo \/ call[c].ids # {}

Undisturbed ==
  /\ \A r, s \in Onboarded : Kind(r) = Kind(s) => r = s
  /\ \A c, d \in Calls : call[c].op = "onboard" /\ call[d].op = "onboard" => c = d
  /\ \A c \in Calls : call[c].op = "onboard" => \A r \in Onboarded : Lists(c, r)

LEMMA OnboardForms ==
  OnboardInv <=> (\A r \in Onboarded : about[r].to = Hire) /\ (Disturbed \/ Undisturbed)
BY DEF OnboardInv, Undisturbed, Lists

LEMMA InitOnboard ==
  ASSUME Init
  PROVE  OnboardInv
<1>1. Onboarded = {}
  BY DEF Init, Onboarded, Created
<1>2. \A c \in Calls : call[c].op # "onboard"
  BY IdleType, Operates DEF Init
<1> QED BY <1>1, <1>2 DEF OnboardInv

\* No request is created for the onboarding.
Settled ==
  /\ happened \subseteq happened'
  /\ Onboarded' = Onboarded
  /\ \A r \in Onboarded : about'[r] = about[r] /\ (InFlight(r)' => InFlight(r))

LEMMA DisturbedStays ==
  ASSUME Settled, Disturbed
  PROVE  Disturbed'
BY DEF Settled, Disturbed, Had

\* The calls of the onboarding go on as they were.
LEMMA OnboardFrame ==
  ASSUME OnboardInv, Settled, \A d \in Calls : call'[d].op = "onboard" => call'[d] = call[d]
  PROVE  OnboardInv'
<1>1. \A r \in Onboarded' : about'[r].to = Hire
  BY DEF Settled, OnboardInv
<1>2. ASSUME Undisturbed PROVE Undisturbed'
  <2>1. \A r, s \in Onboarded' : Kind(r)' = Kind(s)' => r = s
    BY <1>2 DEF Settled, Undisturbed, Kind
  <2>2. \A c, d \in Calls : call'[c].op = "onboard" /\ call'[d].op = "onboard" => c = d
    BY <1>2 DEF Undisturbed
  <2>3. ASSUME NEW c \in Calls, call'[c].op = "onboard", NEW r \in Onboarded' PROVE Lists(c, r)'
    <3>1. call'[c] = call[c] /\ r \in Onboarded /\ Lists(c, r)
      BY <1>2, <2>3 DEF Undisturbed, Settled
    <3> QED BY <3>1 DEF Lists, Settled, Kind
  <2> QED BY <2>1, <2>2, <2>3 DEF Undisturbed
<1>3. Disturbed \/ Undisturbed
  BY OnboardForms
<1>4. Disturbed' \/ Undisturbed'
  BY <1>2, <1>3, DisturbedStays
<1> QED BY <1>1, <1>4 DEF OnboardInv, Undisturbed, Lists

\* c is the call of the onboarding, and goes on.
LEMMA OnboardStep ==
  ASSUME OnboardInv, Settled, NEW c \in Calls, Steps(c), call[c].op = "onboard",
         Undisturbed /\ ~ Disturbed' => \A r \in Onboarded : Lists(c, r)'
  PROVE  OnboardInv'
<1>1. \A r \in Onboarded' : about'[r].to = Hire
  BY DEF Settled, OnboardInv
<1>2. ASSUME Undisturbed, ~ Disturbed' PROVE Undisturbed'
  <2>1. \A r, s \in Onboarded' : Kind(r)' = Kind(s)' => r = s
    BY <1>2 DEF Settled, Undisturbed, Kind
  <2>2. \A d \in Calls : call'[d].op = "onboard" => d = c
    BY <1>2 DEF Undisturbed, Steps
  <2>3. ASSUME NEW d \in Calls, call'[d].op = "onboard", NEW r \in Onboarded' PROVE Lists(d, r)'
    <3>1. d = c /\ r \in Onboarded
      BY <2>2, <2>3 DEF Settled
    <3> QED BY <1>2, <2>3, <3>1
  <2> QED BY <2>1, <2>2, <2>3 DEF Undisturbed
<1>3. Disturbed \/ Undisturbed
  BY OnboardForms
<1>4. Disturbed' \/ Undisturbed'
  BY <1>2, <1>3, DisturbedStays
<1> QED BY <1>1, <1>4 DEF OnboardInv, Undisturbed, Lists

LEMMA SettledAdds ==
  ASSUME Types, happened \subseteq happened',
         NEW new, NEW kind, Adds(new, kind, FALSE)
  PROVE  Settled
<1>1. Onboarded' = Onboarded
  <2>1. ASSUME NEW r \in Requests PROVE r \in Onboarded' <=> r \in Onboarded
    <3>1. CASE r \in new
      BY <3>1 DEF Adds, Onboarded, Created
    <3>2. CASE r \notin new
      <4>1. about'[r] = about[r]
        BY <3>2 DEF Adds
      <4> QED BY <4>1 DEF Onboarded, Created
    <3> QED BY <3>1, <3>2
  <2> QED BY <2>1 DEF Onboarded, Created
<1>2. ASSUME NEW r \in Onboarded PROVE about'[r] = about[r] /\ (InFlight(r)' => InFlight(r))
  <2>1. r \in Requests \ new
    BY DEF Onboarded, Created, Adds
  <2> QED BY <2>1 DEF Adds, InFlight
<1> QED BY <1>1, <1>2 DEF Settled

LEMMA SettledSame ==
  ASSUME happened \subseteq happened', UNCHANGED about, inserts' \subseteq inserts
  PROVE  Settled
BY DEF Settled, Onboarded, Created, InFlight

LEMMA FlightOnboard ==
  ASSUME Types, OnboardInv,
         \/ SendSimple \/ SendHelloSign \/ InsertLands \/ InsertLost
         \/ SignAtHelloSign \/ Redelivered \/ CancelLands \/ UploadLands \/ UploadLost
  PROVE  OnboardInv'
<1> USE DEF tables, flying
<1>0. happened \subseteq happened'
  BY HistoryGrows DEF Next
<1>1. UNCHANGED call
  BY DEF SendSimple, SendHelloSign, InsertLands, InsertLost, SignAtHelloSign, Redelivered,
         CancelLands, UploadLands, UploadLost
<1>2. CASE SendSimple \/ SendHelloSign
  <2>1. Settled
    BY <1>0, <1>2, SendDoes, SettledAdds
  <2> QED BY <1>1, <2>1, OnboardFrame
<1>3. CASE ~ (SendSimple \/ SendHelloSign)
  <2>1. UNCHANGED about /\ inserts' \subseteq inserts
    BY <1>3 DEF InsertLands, InsertLost, SignAtHelloSign, Redelivered, CancelLands, UploadLands,
                UploadLost
  <2>2. Settled
    BY <1>0, <2>1, SettledSame
  <2> QED BY <1>1, <2>2, OnboardFrame
<1> QED BY <1>2, <1>3

\* Calls that are not the onboarding's.
LEMMA OtherOnboard ==
  ASSUME Types, FileInv, OnboardInv, NEW c \in Calls,
         \/ Callback(c) \/ CheckForDuplicate(c) \/ CreateFileMetadata(c) \/ MarkCopied(c)
         \/ Sign(c) \/ ReadDocument(c) \/ GetObject(c) \/ UploadSigned(c) \/ MarkSigned(c)
         \/ Change(c) \/ CancelAtHelloSign(c) \/ StartDeletion(c) \/ ListHelloSign(c)
         \/ ListSimple(c) \/ DeleteRows(c) \/ DeleteObject(c) \/ Fail(c)
  PROVE  OnboardInv'
<1> USE DEF tables, flying
<1>0. happened \subseteq happened'
  BY HistoryGrows DEF Next, CallStep
<1>1. UNCHANGED <<about, inserts>>
  BY DEF Callback, CheckForDuplicate, CreateFileMetadata, MarkCopied, Sign, ReadDocument,
         GetObject, UploadSigned, MarkSigned, Change, CancelAtHelloSign, StartDeletion,
         ListHelloSign, ListSimple, DeleteRows, DeleteObject, Fail
<1>2. Settled
  BY <1>0, <1>1, SettledSame
<1>3. Steps(c) /\ call'[c].op # "onboard"
  <2>1. CASE MarkCopied(c) \/ MarkSigned(c) \/ CancelAtHelloSign(c) \/ Fail(c)
    BY <2>1, MarkCopiedDoes, MarkSignedDoes, CancelDoes, FailDoes, Operates DEF Over
  <2>2. CASE Change(c)
    <3>1. PICK r \in Created : Began(c, "cancel", "tell", r) \/ Over(c)
      BY <2>2, ChangeDoes
    <3> QED BY <3>1, Operates DEF Began, Over
  <2>3. CASE Callback(c) \/ Sign(c) \/ StartDeletion(c)
    BY <2>3, CallbackDoes, SignDoes, DeletionDoes DEF Began
  <2>4. CASE CheckForDuplicate(c)
    <3>1. call[c].op = "copy"
      BY <2>4 DEF CheckForDuplicate, At
    <3> QED BY <2>4, <3>1, CheckDoes, Operates DEF Over, Place
  <2>5. CASE CreateFileMetadata(c)
    <3>1. call[c].op \in {"copy", "sign"} /\ (Over(c) \/ Place(c, "mark"))
      BY <2>5, CreateFileDoes DEF CreateFileMetadata
    <3> QED BY <3>1, Operates DEF Over, Place
  <2>6. CASE ReadDocument(c) \/ GetObject(c)
    <3>1. Over(c) \/ (Steps(c) /\ call'[c].op = "sign")
      BY <2>6, ReadDoes, GetDoes
    <3> QED BY <3>1, Operates DEF Over
  <2>7. CASE UploadSigned(c)
    <3>1. call[c].op = "sign"
      BY <2>7 DEF UploadSigned, At
    <3> QED BY <2>7, <3>1, UploadSignedDoes DEF Place
  <2>8. CASE ListHelloSign(c) \/ ListSimple(c)
    <3>1. Over(c) \/ (Steps(c) /\ call'[c].op = "delete")
      BY <2>8, ListHelloSignDoes, ListSimpleDoes
    <3> QED BY <3>1, Operates DEF Over
  <2>9. CASE DeleteRows(c)
    <3>1. call[c].op = "delete"
      BY <2>9 DEF DeleteRows, At
    <3> QED BY <2>9, <3>1, DeleteRowsDoes, Operates DEF Over, Place
  <2>10. CASE DeleteObject(c)
    <3>1. call[c].op = "delete" /\ \E k : Less(c, k)
      BY <2>10, DeleteObjectDoes DEF DeleteObject, At
    <3> QED BY <3>1, Operates DEF Less, Over
  <2> QED BY <2>1, <2>2, <2>3, <2>4, <2>5, <2>6, <2>7, <2>8, <2>9, <2>10
<1>4. \A d \in Calls : call'[d].op = "onboard" => call'[d] = call[d]
  BY <1>3 DEF Steps
<1> QED BY <1>2, <1>4, OnboardFrame

LEMMA MissedOnboard ==
  ASSUME Types, OnboardInv, NEW c \in Calls, Missed(c) \/ CancelMissed(c)
  PROVE  OnboardInv'
<1>1. UNCHANGED <<about, inserts>> /\ happened \subseteq happened'
  BY MissedDoes, CancelMissedDoes
<1>2. Settled
  BY <1>1, SettledSame
<1>3. Steps(c) /\ call'[c].op # "onboard"
  <2>1. CASE CancelMissed(c)
    BY <2>1, CancelMissedDoes DEF Began
  <2>2. CASE Missed(c)
    BY <2>2, MissedDoes, Operates DEF Over, Place
  <2> QED BY <2>1, <2>2
<1>4. \A d \in Calls : call'[d].op = "onboard" => call'[d] = call[d]
  BY <1>3 DEF Steps
<1> QED BY <1>2, <1>4, OnboardFrame

\* The onboarding starts: beside another one, or before an INSERT has landed, that is noted.
LEMMA StartOnboard ==
  ASSUME Types, OnboardInv, NEW c \in Calls, StartOnboarding(c)
  PROVE  OnboardInv'
<1>0. happened \subseteq happened'
  BY HistoryGrows DEF Next, CallStep
<1>1. UNCHANGED <<about, inserts>>
  BY DEF StartOnboarding, flying
<1>2. Settled
  BY <1>0, <1>1, SettledSame
<1>3. /\ Steps(c) /\ call'[c].op = "onboard" /\ call'[c].pc = "list" /\ call'[c].todo = Kinds
  BY OnboardingDoes DEF Began
<1>4. ASSUME Undisturbed, ~ Disturbed' PROVE Undisturbed'
  <2>1. \A d \in Calls : call[d].op # "onboard"
    BY <1>4 DEF StartOnboarding, Disturbed, Had
  <2>2. (UNION inserts) \cap Onboarded = {}
    BY <1>4 DEF StartOnboarding, Disturbed, Had
  <2>3. \A d \in Calls : call'[d].op = "onboard" => d = c
    BY <1>3, <2>1 DEF Steps
  <2>4. ASSUME NEW r \in Onboarded PROVE Lists(c, r)'
    <3>1. ~ InFlight(r)'
      <4>1. \A batch \in inserts : r \notin batch
        BY <2>2
      <4> QED BY <1>1, <4>1 DEF InFlight
    <3>2. about[r].kind \in Kinds
      BY DEF Onboarded, Created, Types, RequestType, About
    <3> QED BY <1>1, <1>3, <3>1, <3>2 DEF Lists, Kind
  <2>5. \A r, s \in Onboarded' : Kind(r)' = Kind(s)' => r = s
    BY <1>2, <1>4 DEF Settled, Undisturbed, Kind
  <2>6. ASSUME NEW d \in Calls, call'[d].op = "onboard", NEW r \in Onboarded' PROVE Lists(d, r)'
    <3>1. d = c /\ r \in Onboarded
      BY <1>2, <2>3, <2>6 DEF Settled
    <3> QED BY <2>4, <3>1
  <2> QED BY <2>3, <2>5, <2>6 DEF Undisturbed
<1>5. Disturbed' \/ Undisturbed'
  BY <1>2, <1>4, OnboardForms, DisturbedStays
<1>6. \A r \in Onboarded' : about'[r].to = Hire
  BY <1>2 DEF Settled, OnboardInv
<1> QED BY <1>5, <1>6 DEF OnboardInv, Undisturbed, Lists

\* A request of the onboarding that has landed is listed.
LEMMA ListedLanded ==
  ASSUME Types, FileInv, RowKept, BillInv, OnboardInv, ~ Disturbed, NEW r \in Onboarded, ~ InFlight(r)
  PROVE  r \in (IF Kind(r) = "helloSign" THEN ListedByHelloSign ELSE ListedSimple)
<1>1. r \in Created /\ r \in Requests /\ about[r] # None /\ Kind(r) \in Kinds
  BY DEF Onboarded, Created, Types, RequestType, About, Kind
<1>2. CASE Kind(r) = "helloSign"
  BY <1>1, <1>2 DEF Types, RequestType, ListedByHelloSign
<1>3. CASE Kind(r) = "simple"
  <2>1. row[r].there
    BY <1>1 DEF BillInv, Landed, Disturbed
  <2>2. row[r].file # 0
    BY <1>1, <1>3, <2>1 DEF FileInv, FileRefers
  <2>3. \E f \in files : f.id = row[r].file
    BY <1>1, <2>1, <2>2 DEF RowKept, Disturbed
  <2>4. about[r].to = Hire
    BY DEF OnboardInv
  <2> QED BY <1>1, <1>3, <2>1, <2>2, <2>3, <2>4 DEF ListedSimple
<1> QED BY <1>1, <1>2, <1>3 DEF Kinds

LEMMA ListOnboard ==
  ASSUME Types, FileInv, RowKept, BillInv, OnboardInv, NEW c \in Calls, ListExisting(c)
  PROVE  OnboardInv'
<1>0. happened \subseteq happened'
  BY HistoryGrows DEF Next, CallStep
<1>1. UNCHANGED <<about, inserts>> /\ call[c].op = "onboard" /\ call[c].pc = "list"
  BY DEF ListExisting, At, flying
<1>2. Settled
  BY <1>0, <1>1, SettledSame
<1>3. CASE Over(c)
  <2>1. \A d \in Calls : call'[d].op = "onboard" => call'[d] = call[d]
    BY <1>3, Operates DEF Over, Steps
  <2> QED BY <1>2, <2>1, OnboardFrame
<1>4. CASE ~ Over(c)
  <2>1. PICK k, ids :
              /\ k \in call[c].todo
              /\ ids = call[c].ids \cup (IF k = "helloSign" THEN ListedByHelloSign ELSE ListedSimple)
              /\ Steps(c)
              /\ \/ call'[c].pc = "list" /\ call'[c].todo = call[c].todo \ {k} /\ call'[c].ids = ids
                 \/ call'[c].pc = "create" /\ call[c].todo = {k} /\ ids = {}
    BY <1>4, ListDoes
  <2>2. ASSUME Undisturbed, ~ Disturbed', NEW r \in Onboarded PROVE Lists(c, r)'
    <3>1. Lists(c, r) /\ ~ InFlight(r) /\ (Kind(r) \in call[c].todo \/ call[c].ids # {})
      BY <1>1, <2>2 DEF Undisturbed, Lists
    <3>2. ~ Disturbed
      BY <1>2, <2>2, DisturbedStays
    <3>3. r \in (IF Kind(r) = "helloSign" THEN ListedByHelloSign ELSE ListedSimple)
      BY <3>1, <3>2, ListedLanded
    <3>4. Kind(r) = k => ids # {}
      BY <2>1, <3>3
    <3>5. ids # {} \/ Kind(r) \in call[c].todo \ {k}
      BY <2>1, <3>1, <3>4
    <3>6. ~ InFlight(r)' /\ Kind(r)' = Kind(r)
      BY <1>1, <3>1 DEF InFlight, Kind
    <3> QED BY <2>1, <3>5, <3>6 DEF Lists
  <2> QED BY <1>1, <1>2, <2>1, <2>2, OnboardStep
<1> QED BY <1>3, <1>4

LEMMA FailsOnboard ==
  ASSUME Types, OnboardInv, NEW c \in Calls, CreationFails(c)
  PROVE  OnboardInv'
<1>0. happened \subseteq happened'
  BY HistoryGrows DEF Next, CallStep
<1>1. UNCHANGED <<about, inserts>> /\ call[c].op = "onboard" /\ call[c].pc = "create"
  BY DEF CreationFails, At, flying
<1>2. Settled
  BY <1>0, <1>1, SettledSame
<1>3. PICK k : Less(c, k)
  BY FailsDoes
<1>4. CASE Over(c)
  <2>1. \A d \in Calls : call'[d].op = "onboard" => call'[d] = call[d]
    BY <1>4, Operates DEF Over, Steps
  <2> QED BY <1>2, <2>1, OnboardFrame
<1>5. CASE ~ Over(c)
  <2>1. Steps(c) /\ call'[c].pc = "create" /\ call'[c].todo = call[c].todo \ {k}
    BY <1>1, <1>3, <1>5 DEF Less
  <2>2. ASSUME Undisturbed, NEW r \in Onboarded PROVE Lists(c, r)'
    <3>1. Kind(r) \notin call[c].todo
      BY <1>1, <2>2 DEF Undisturbed, Lists
    <3> QED BY <1>1, <2>1, <3>1 DEF Lists, Kind
  <2> QED BY <1>1, <1>2, <2>1, <2>2, OnboardStep
<1> QED BY <1>4, <1>5

LEMMA CreateOnboard ==
  ASSUME Types, OnboardInv, NEW c \in Calls, CreateForOnboarding(c)
  PROVE  OnboardInv'
<1>0. UNCHANGED happened /\ call[c].op = "onboard" /\ call[c].pc = "create"
  BY DEF CreateForOnboarding, At
<1>1. PICK k \in Kinds, q \in Requests :
            Adds({q}, k, TRUE) /\ about'[q].to = Hire /\ Less(c, k) /\ k \in call[c].todo
  BY CreateForDoes
<1>2. about[q] = None /\ about'[q] # None /\ about'[q].kind = k /\ about'[q].onboarding
  BY <1>1, NoneAssumption DEF Adds
<1>3. \A r \in Requests \ {q} : about'[r] = about[r]
  BY <1>1 DEF Adds
<1>4. Onboarded' = Onboarded \cup {q} /\ q \notin Onboarded
  BY <1>2, <1>3 DEF Onboarded, Created
<1>5. \A r \in Onboarded : about'[r] = about[r]
  BY <1>3, <1>4 DEF Onboarded, Created
<1>6. \A r \in Onboarded' : about'[r].to = Hire
  BY <1>1, <1>4, <1>5 DEF OnboardInv
<1>7. Disturbed => Disturbed'
  BY <1>0, <1>4 DEF Disturbed, Had
<1>8. ASSUME Undisturbed PROVE Undisturbed'
  <2>1. \A r \in Onboarded : Kind(r) \notin call[c].todo
    BY <1>0, <1>8 DEF Undisturbed, Lists
  <2>2. \A r \in Onboarded : about'[r].kind # k
    BY <1>1, <1>5, <2>1 DEF Kind
  <2>3. \A r, s \in Onboarded' : about'[r].kind = about'[s].kind => r = s
    BY <1>2, <1>4, <1>5, <1>8, <2>2 DEF Undisturbed, Kind
  <2>4. \A d \in Calls : call'[d].op = "onboard" => d = c /\ ~ Over(c)
    BY <1>0, <1>1, <1>8, Operates DEF Undisturbed, Less, Over, Steps
  <2>5. ASSUME NEW d \in Calls, call'[d].op = "onboard", NEW r \in Onboarded' PROVE Lists(d, r)'
    <3>1. d = c /\ call'[c].pc = "create" /\ call'[c].todo = call[c].todo \ {k}
      BY <1>0, <1>1, <2>4, <2>5 DEF Less
    <3>2. about'[r].kind \notin call'[c].todo
      BY <1>2, <1>4, <1>5, <2>1, <3>1 DEF Kind
    <3> QED BY <3>1, <3>2 DEF Lists, Kind
  <2> QED BY <2>3, <2>4, <2>5 DEF Undisturbed, Kind
<1> QED BY <1>6, <1>7, <1>8, OnboardForms DEF OnboardInv, Undisturbed, Lists

LEMMA OnboardKept ==
  ASSUME Types, FileInv, RowKept, BillInv, OnboardInv, Next
  PROVE  OnboardInv'
BY FlightOnboard, OtherOnboard, MissedOnboard, StartOnboard, ListOnboard, FailsOnboard, CreateOnboard
   DEF Next, CallStep

LEMMA OnboardRight ==
  ASSUME OnboardInv
  PROVE  OnboardedOnce
<1> SUFFICES ASSUME NEW k \in Kinds, ~ Disturbed
             PROVE  Cardinality({r \in Onboarded : about[r].kind = k}) <= 1
  BY DEF OnboardedOnce, Disturbed
<1>1. Undisturbed
  BY OnboardForms
<1>2. \A r, s \in {q \in Onboarded : about[q].kind = k} : r = s
  BY <1>1 DEF Undisturbed, Kind
<1> QED BY <1>2, AtMostOne

-----------------------------------------------------------------------------
(* The theorems.                                                            *)

IInv ==
  /\ Types /\ FileInv /\ RowKept
  /\ ObjectInv /\ BillInv /\ RecordInv /\ OnceInv /\ OnboardInv

LEMMA Inductive ==
  /\ Init => IInv
  /\ IInv /\ [Next]_vars => IInv'
<1>1. Init => IInv
  BY InitTypes, InitFiles, InitObjects, InitBills, InitRecords, InitOnce, InitOnboard DEF IInv
<1>2. ASSUME IInv, Next PROVE IInv'
  BY <1>2, TypesKept, FileKept, RowKeptKept, ObjectKept, BillKept, RecordKept, OnceKept,
     OnboardKept DEF IInv
<1>3. ASSUME IInv, UNCHANGED vars PROVE IInv'
  <2> USE <1>3 DEF IInv, vars, tables, flying
  <2>1. Types'
    BY DEF Types, StoreType, RequestType, CallType, InFlight, Kind
  <2>2. FileInv'
    BY DEF FileInv, FileRows, FileFresh, FileRefers, NotInserted, Marks, Kind
  <2>8. RowKept'
    <3>1. ASSUME NEW c \in Calls, NEW r \in Requests, Marks(c, r)'
          PROVE  Inserted(c, r)' \/ Excused(c, r)'
      <4>1. Marks(c, r) /\ (Inserted(c, r) \/ Excused(c, r))
        BY <3>1 DEF RowKept, Marks, Inserted, Excused
      <4> QED BY <4>1 DEF Inserted, Excused, Had
    <3>2. \A r \in Requests : row'[r].there /\ row'[r].file # 0 =>
            (\E f \in files' : f.id = row'[r].file) \/ Had("removed", r)'
      BY DEF RowKept, Had
    <3> QED BY <3>1, <3>2 DEF RowKept, Inserted, Excused
  <2>3. ObjectInv'
    <3>1. ObjectsStay
      BY StoredStays
    <3> QED BY <3>1, ObjectFrameAll
  <2>4. BillInv'
    BY DEF BillInv, Created, Landed, InFlight, Kind, Had
  <2>5. RecordInv'
    BY DEF RecordInv, Followed, MarkedRow, Awaited, Signed, Marking, Marks, Copies, Had, Gone, Slipped
  <2>6. OnceInv'
    BY DEF OnceInv, OnceFor, Clean, Slipped, Copying, Copies, Created, Kind, Had
  <2>7. OnboardInv'
    BY DEF OnboardInv, Onboarded, Created, Disturbed, InFlight, Kind, Had
  <2> QED BY <2>1, <2>2, <2>3, <2>4, <2>5, <2>6, <2>7, <2>8
<1> QED BY <1>1, <1>2, <1>3

LEMMA Always == Spec => []IInv
BY Inductive, PTL DEF Spec

\* What is signed has its copy in the bucket, and the company's document stays, with the
\* exceptions that ObjectsKept names (createSimpleSignDocument, uploadSignedDocument,
\* deleteOnboardingDocuments).
THEOREM CopiesAreKept == Spec => []ObjectsKept
<1>1. IInv => ObjectsKept
  BY DEF IInv, ObjectInv, RowBacked, Backed, Copies, ObjectsKept, SignedHasCopy, Gone
<1> QED BY <1>1, Always, PTL

\* Billing (getBillableSignRequests) counts the requests made at HelloSign and no other.
THEOREM BillsWhatWasMade == Spec => []BilledIfAtHelloSign
<1>1. IInv => BilledIfAtHelloSign
  BY BillsRight DEF IInv
<1> QED BY <1>1, Always, PTL

\* What was completed at HelloSign is signed here, with its copy, once nothing is under
\* way (eventCallbackDelegate, uploadSignedDocument).
THEOREM CompletedRecorded == Spec => []CompletedIsRecorded
<1>1. IInv => CompletedIsRecorded
  BY RecordsRight DEF IInv
<1> QED BY <1>1, Always, PTL

\* A document is signed once, and an onboarding creates its requests once
\* (createSimpleSignDocument, uploadSignedDocument, onboarding).
THEOREM SignedAndOnboardedOnce == Spec => []NothingTwice
<1>1. IInv => NothingTwice
  BY OnceRight, OnboardRight DEF IInv, NothingTwice
<1> QED BY <1>1, Always, PTL
=============================================================================
