------------------------ MODULE EsignDocumentProofs ------------------------
(* For any number of uploads, rows, functions and failures: an upload has one  *)
(* row, a row points to an object of the bucket, and it shows the last file.   *)
(* Each with the exceptions that its property names.                           *)
EXTENDS EsignDocument, FiniteSetTheorems, TLAPS

(* Types.                                                                  *)

Owners == {"none", "employee", "company", "onboarding"}

Metadata == [owner : Owners \ {"onboarding"}, row : 0 .. MaxRows, by : {0} \cup Uploads]

FileRecords ==
  [id : 1 .. MaxRows, owner : Owners \ {"none"}, ptr : FileKeys, by : {0} \cup Uploads]

DocPlaceNames ==
  {"head", "meta", "file", "companyFile", "current", "point", "read", "write", "upload", "drop",
   "insert", "list", "run", "idle", "ended"}

DocLocals ==
  [op : DocOperations \cup {None}, pc : DocPlaceNames, key : FileKeys, row : 0 .. MaxRows,
   ptr : FileKeys, by : {0} \cup Uploads, left : SUBSET (CompanySteps \cup SignedSteps)]

DocPlaces(op) ==
  IF op = "save" THEN {"head", "meta", "file", "companyFile", "current", "point"}
  ELSE IF op = "edit" THEN {"read", "write"}
  ELSE IF op = "replace" THEN {"read", "upload", "write"}
  ELSE IF op \in {"deleteCompany", "deleteEmployee"} THEN {"read", "drop"}
  ELSE IF op = "create" THEN {"read", "meta", "insert"}
  ELSE IF op = "onboarding" THEN {"read", "list", "run"}
  ELSE {"idle", "ended"}

\* The steps of an onboarding are taken in their order, after the signed ones were listed.
Planned(l) ==
  /\ l.left # {} => l.op = "onboarding" /\ l.pc # "read"
  /\ l.pc # "run" => l.left \cap SignedSteps = {}
  /\ "copySigned" \in l.left => "deleteSigned" \in l.left
  /\ "deleteSigned" \in l.left => "pointSigned" \in l.left
  /\ "row" \in l.left => "copyCompany" \in l.left /\ l.row = 0

DocCallType(l) ==
  /\ l \in DocLocals
  /\ l.pc \in DocPlaces(l.op)
  /\ Planned(l)
  /\ l.row <= ids
  /\ l.op \in {"edit", "replace", "deleteCompany", "deleteEmployee"} => l.row # 0
  /\ l.op = "replace" => l.row # SignedRow /\ \A r \in Row(l.row) : r.owner = "company"
  /\ l.op = "edit" => \A r \in Row(l.row) : r.owner # "onboarding"
  /\ l.op = "create" \/ (l.op = "onboarding" /\ l.pc = "read") => l.row = 0
  /\ l.op = "onboarding" => l.row \notin {CompanyRow, SignedRow}

UrlType(u) ==
  url[u] # None =>
    /\ url[u] \in Urls
    /\ url[u].key = FileKey(url[u].key[1])
    /\ url[u].key[1] \in (1 .. names) \ {2, 3}
    /\ url[u].row <= ids
    /\ url[u].row # 0 =>
         \A r \in Row(url[u].row) : (r.owner = "company") = (url[u].owner = "company")

RowsTyped ==
  /\ rows \subseteq FileRecords
  /\ \A r, s \in rows : r.id = s.id => r = s
  /\ \A r \in rows : r.id <= ids

StoredTyped ==
  /\ stored \subseteq FileKeys \X Metadata
  /\ \A o, p \in stored : o[1] = p[1] => o = p

DocStore ==
  /\ DOMAIN url = Uploads /\ \A u \in Uploads : UrlType(u)
  /\ used \subseteq {u \in Uploads : url[u] # None}
  /\ StoredTyped
  /\ RowsTyped
  /\ ids \in 2 .. MaxRows
  /\ names \in Nat \ {0, 1, 2}
  /\ raised \subseteq [key : FileKeys, by : {0} \cup Uploads]
  /\ uploads \subseteq FileKeys /\ removals \subseteq FileKeys
  /\ DOMAIN latest = 1 .. MaxRows
  /\ \A i \in 1 .. MaxRows : latest[i] # 0 => latest[i] \in used /\ url[latest[i]].row = i
  /\ 0 \in metas

DocTypes ==
  /\ DocStore
  /\ DOMAIN call = Calls /\ \A c \in Calls : DocCallType(call[c])

-----------------------------------------------------------------------------
(* Where keys come from.                                                   *)

IsUrl(n) == \E u \in Uploads : url[u] # None /\ url[u].key[1] = n

\* A key of the service: its name is that of no URL.
Service(k) == k \in FileKeys /\ k[1] <= names /\ k[1] # 1 /\ ~ IsUrl(k[1])
Plain(k) == Service(k) /\ k[1] \notin {0, 3} /\ k[2] = 0 /\ k[3] = 0

\* A key of an upload: it was used, or its object was copied from there.
Intro(k) ==
  /\ k \in FileKeys /\ IsUrl(k[1])
  /\ IF k[2] = 0 /\ k[3] = 0 THEN \E u \in used : url[u].key = k
     ELSE Had("copiedTo", k) \/ Had("again", k)

Known(k) == Service(k) \/ Intro(k)

\* Two uploads have different keys, and a new document of an upload is found at its key.
UrlsApart ==
  \A u, v \in Uploads :
    url[u] # None /\ url[v] # None /\ u # v /\ url[u].key = url[v].key => Had("sameKey", url[u].key)

AtHome(u, k) == url[u].row = 0 => k = url[u].key \/ Had("copied", u) \/ Had("sameKey", url[u].key)

\* What the metadata of an object at k say, in o, is what its URL says.
Origin(k, owner, r, u) ==
  \/ Service(k) /\ owner # "employee" /\ r = 0 /\ u = 0
  \/ /\ Intro(k) /\ u \in used
     /\ url[u].key[1] = k[1] /\ owner = url[u].owner /\ r = url[u].row
     /\ AtHome(u, k)

\* A key that row x may point to.
Pointer(x, k) ==
  /\ Known(k)
  /\ x = CompanyRow => Service(k)
  /\ x = SignedRow =>
       /\ k[1] = 3 \/ Intro(k)
       /\ \A u \in Uploads :
            url[u] # None /\ url[u].key = k /\ url[u].row # SignedRow => Had("sameKey", k)
  /\ k[1] = 3 => x = SignedRow

EventOrigin(e) ==
  /\ Known(e.key)
  /\ Intro(e.key) /\ e.key[2] = 0 /\ e.key[3] = 0 => e.by \in used /\ url[e.by].key = e.key

RowOrigin(r) ==
  /\ Pointer(r.id, r.ptr)
  /\ r.ptr[1] = 0 => r.owner = "onboarding"
  /\ r.id = CompanyRow => r.owner = "company"
  /\ r.id = SignedRow => r.owner = "employee"
  /\ r.by # 0 => r.by \in used /\ url[r.by].row = 0

SaveOwner(pc) == IF pc \in {"meta", "companyFile"} THEN "company" ELSE "employee"

SaveOrigin(l) ==
  /\ Known(l.key)
  /\ l.pc # "head" =>
       /\ Origin(l.key, SaveOwner(l.pc), l.row, l.by)
       /\ l.pc \in {"meta", "file", "companyFile"} <=> l.row = 0
       /\ Service(l.key) => l.pc = "meta"

CallOrigin(l) ==
  /\ l.op = "save" => SaveOrigin(l)
  /\ l.op = "create" /\ l.pc # "read" => Plain(l.key)
  /\ l.op = "replace" /\ l.pc = "write" => Plain(l.ptr)
  /\ (l.op = "edit" /\ l.pc = "write") \/ (l.op = "replace" /\ l.pc = "upload") =>
        Pointer(l.row, l.ptr) /\ l.ptr[1] # 0
  /\ l.op = "onboarding" =>
        /\ Service(l.key)
        /\ "pointSigned" \in l.left =>
             /\ Pointer(SignedRow, l.ptr)
             /\ Intro(l.ptr) /\ "copySigned" \notin l.left => Had("again", MovedTo(l.ptr))

CallsNow == {call[c] : c \in Calls}

OriginInv ==
  /\ UrlsApart
  /\ \A o \in stored : Origin(o[1], o[2].owner, o[2].row, o[2].by)
  /\ \A e \in raised : EventOrigin(e)
  /\ \A k \in uploads : Plain(k)
  /\ \A k \in removals : Known(k)
  /\ \A r \in rows : RowOrigin(r)
  /\ \A l \in CallsNow : CallOrigin(l)

-----------------------------------------------------------------------------
(* Whose key it is.                                                        *)

Repeated(k) == Had("again", k) \/ Had("sameKey", k)

\* An event, or a call, that will give k to a row.
Told(k) == IsUrl(k[1]) /\ \E e \in raised : e.key = k
Brings(c, k) ==
  \/ call[c].op = "save" /\ call[c].key = k /\ IsUrl(k[1])
  \/ call[c].op = "create" /\ call[c].pc # "read" /\ call[c].key = k
  \/ call[c].op = "replace" /\ call[c].pc = "write" /\ call[c].ptr = k

\* A call that read k, the pointer of row x.
Holds(c, k, x) ==
  \/ call[c].op = "edit" /\ call[c].pc = "write" /\ call[c].ptr = k /\ call[c].row = x
  \/ call[c].op = "replace" /\ call[c].pc = "upload" /\ call[c].ptr = k /\ call[c].row = x
  \/ /\ call[c].op = "onboarding" /\ "pointSigned" \in call[c].left
     /\ call[c].ptr = k /\ x = SignedRow

Holder(k, x) ==
  \/ \E r \in rows : r.ptr = k /\ r.id = x
  \/ \E c \in Calls : Holds(c, k, x)

Taken(k) == k \in removals \/ \E x \in 1 .. MaxRows : Holder(k, x)

\* A key is announced once, before it is taken; and taken by one row.
KeyOk(k) ==
  ~ Repeated(k) =>
    /\ \A e, f \in raised : e.key = k /\ f.key = k /\ Told(k) => e = f
    /\ Told(k) => \A c \in Calls : ~ Brings(c, k)
    /\ \A c, d \in Calls : Brings(c, k) /\ Brings(d, k) => c = d
    /\ Told(k) \/ (\E c \in Calls : Brings(c, k)) => ~ Taken(k)
    /\ \A x, y \in 1 .. MaxRows : Holder(k, x) /\ Holder(k, y) => x = y

KeyInv == \A k \in FileKeys : KeyOk(k)

\* An upload has one row, and then nothing announces its key.
Announced(k) == Told(k) \/ \E c \in Calls : Brings(c, k)

OnceOk(u) ==
  /\ \A r, s \in rows : r.by = u /\ s.by = u => r = s
  /\ \A r \in rows : r.by = u => ~ Announced(url[u].key)

UploadInv == \A u \in used : Had("copied", u) \/ Repeated(url[u].key) \/ OnceOk(u)

-----------------------------------------------------------------------------
(* Where a row points to.                                                  *)

Touches(c, x) ==
  \/ Active(c) /\ call[c].row = x
  \/ call[c].op = "onboarding" /\ x \in {CompanyRow, SignedRow}

BesideInv ==
  \A c, d \in Calls, x \in 1 .. MaxRows :
    Touches(c, x) /\ Touches(d, x) => c = d \/ Had("beside", x)

\* c has started the deletion of the object of row x, and will write the row.
Removing(c, x) ==
  /\ call[c].row = x
  /\ \/ call[c].op = "save" /\ call[c].pc = "point"
     \/ call[c].op = "replace" /\ call[c].pc = "write"
     \/ call[c].op \in {"deleteCompany", "deleteEmployee"} /\ call[c].pc = "drop"
Moving(c, x) ==
  /\ call[c].op = "onboarding" /\ x = SignedRow
  /\ "deleteSigned" \notin call[c].left /\ "pointSigned" \in call[c].left
CopyingCompany(c, x) ==
  /\ call[c].op = "onboarding" /\ call[c].row = x
  /\ "row" \notin call[c].left /\ "copyCompany" \in call[c].left

\* What a call read of a row is true while no other touches it.
ReadOk(l) ==
  /\ l.op = "edit" /\ l.pc = "write" =>
       Had("beside", l.row) \/ \A r \in Row(l.row) : r.ptr = l.ptr
  /\ l.op = "onboarding" /\ "pointSigned" \in l.left =>
       Had("beside", SignedRow) \/ \A r \in Row(SignedRow) : r.ptr = l.ptr
  /\ l.op = "onboarding" /\ l.row # 0 /\ "row" \notin l.left /\ "copyCompany" \in l.left =>
       Had("beside", l.row) \/ \A r \in Row(l.row) : r.ptr = EmployeeKey

ReadInv == \A c \in Calls : ReadOk(call[c])

\* The object a call brings is there, or on its way.
BringsNow(c, k) == Brings(c, k) /\ (call[c].op = "save" => call[c].pc # "head")

BroughtInv ==
  \A c \in Calls : \A k \in FileKeys :
    BringsNow(c, k) => Excused(k) \/ IsStored(k) \/ k \in uploads

\* The signed copy is not deleted while its row points to it; it is moved when it is there.
SignedGone ==
  \A r \in Row(SignedRow) : \A k \in removals :
    r.ptr[1] = 3 /\ k[1] = 3 => \E c \in Calls : Removing(c, SignedRow)
Moved(l) == l.op = "onboarding" /\ "copySigned" \notin l.left /\ "pointSigned" \in l.left
SignedMoved ==
  Row(SignedRow) # {} =>
    \A c \in Calls : Moved(call[c]) => Excused(MovedTo(call[c].ptr)) \/ IsStored(MovedTo(call[c].ptr))
SignedInv ==
  Had("beside", SignedRow) \/ Had("failed", SignedRow) \/ (SignedGone /\ SignedMoved)

PlaceOk(x, k) ==
  Had("beside", x) \/ Had("failed", x) \/ Excused(k) \/
    /\ k \in removals => \E c \in Calls : Removing(c, x)
    /\ \/ IsStored(k) \/ k \in uploads
       \/ \E c \in Calls : Removing(c, x) \/ Moving(c, x) \/ CopyingCompany(c, x)

PointInv == \A r \in rows : PlaceOk(r.id, r.ptr)

-----------------------------------------------------------------------------
(* The latest file.                                                        *)

\* What is under way for row i is its latest upload, or a copy of it.
InOrder(i) ==
  Had("reordered", i) \/
    /\ \A e \in raised, o \in stored : o[1] = e.key /\ o[2].row = i => o[2].by = latest[i]
    /\ \A c \in Calls, o \in stored :
         call[c].op = "save" /\ call[c].pc = "head" /\ o[1] = call[c].key /\ o[2].row = i =>
           o[2].by = latest[i]
    /\ \A c \in Calls :
         call[c].op = "save" /\ call[c].pc # "head" /\ call[c].row = i => call[c].by = latest[i]

Disordered(i, k) ==
  Had("reordered", i) \/ Had("beside", i) \/ Had("unsaved", k) \/ Had("sameKey", k)

\* Row r shows the upload u, or will: nothing has taken the key of u yet.
Follows(r, u) ==
  LET k == url[u].key IN
  \/ r.ptr[1] = k[1]
  \/ /\ ~ Taken(k)
     /\ \E o \in Object(k) : o[2].by = u
     /\ \/ \E e \in raised : e.key = k
        \/ \E c \in Calls : call[c].op = "save" /\ call[c].key = k

LatestOf(r) ==
  LET u == latest[r.id] IN
  u = 0 \/ url[u].owner = "company" \/ Disordered(r.id, url[u].key) \/ Follows(r, u)

LatestInv == (\A i \in 1 .. MaxRows : InOrder(i)) /\ \A r \in rows : LatestOf(r)

-----------------------------------------------------------------------------
(* What the steps do to the calls.                                         *)

LEMMA UploadsNat == Uploads \subseteq Nat \ {0}
<1>1. \A n : 1 .. n \subseteq Nat \ {0}
  OBVIOUS
<1> QED BY <1>1, UploadsAssumption, Zenon

LEMMA DocOperates ==
  /\ "save" # None /\ "edit" # None /\ "replace" # None /\ "deleteCompany" # None
  /\ "deleteEmployee" # None /\ "create" # None /\ "onboarding" # None
BY DocNoneAssumption DEF DocOperations

\* c takes a step, and the other calls none.
DocSteps(c) == DOMAIN call' = Calls /\ \A d \in Calls \ {c} : call'[d] = call[d]

Now(c, op, pc, key, id, ptr, by, left) ==
  /\ DocSteps(c)
  /\ call'[c] \in DocLocals
  /\ call'[c].op = op /\ call'[c].pc = pc /\ call'[c].key = key /\ call'[c].row = id
  /\ call'[c].ptr = ptr /\ call'[c].by = by /\ call'[c].left = left

DocOver(c) == Now(c, None, "ended", NoKey, 0, NoKey, 0, {})

\* Apart from its place, c is as it was.
DocPlace(c, pc) ==
  Now(c, call[c].op, pc, call[c].key, call[c].row, call[c].ptr, call[c].by, call[c].left)

LEMMA Becomes ==
  ASSUME DocTypes, NEW c \in Calls, NEW l \in DocLocals, call' = [call EXCEPT ![c] = l]
  PROVE  Now(c, l.op, l.pc, l.key, l.row, l.ptr, l.by, l.left)
<1>1. DOMAIN call = Calls
  BY DEF DocTypes, DocStore, StoredTyped
<1>2. call'[c] = l /\ DocSteps(c)
  BY <1>1 DEF DocSteps
<1> QED BY <1>2 DEF Now

LEMMA DocLocalType ==
  ASSUME DocTypes, NEW c \in Calls
  PROVE  /\ call[c] \in DocLocals /\ DocCallType(call[c])
         /\ call[c].op # "onboarding" => call[c].left = {}
         /\ call[c].op # None <=> call[c].pc \notin {"idle", "ended"}
<1>1. DocCallType(call[c])
  BY DEF DocTypes, DocStore, StoredTyped
<1>2. call[c].op \in DocOperations \cup {None} /\ call[c].pc \in DocPlaces(call[c].op)
  BY <1>1 DEF DocCallType, DocLocals
<1>3. call[c].op # None <=> call[c].pc \notin {"idle", "ended"}
  BY <1>2, DocOperates DEF DocPlaces, DocOperations
<1> QED BY <1>1, <1>3 DEF DocCallType, Planned

LEMMA SmallKeys ==
  /\ NoKey \in FileKeys /\ CompanyName \in FileKeys /\ SignedName \in FileKeys
  /\ EmployeeKey \in FileKeys
  /\ \A n \in Nat : FileKey(n) \in FileKeys
  /\ \A k \in FileKeys : MovedTo(k) \in FileKeys /\ PatchedTo(k) \in FileKeys
BY DEF FileKeys, FileKey, NoKey, CompanyName, SignedName, EmployeeKey, MovedTo, PatchedTo

LEMMA DocIdleType ==
  /\ DocIdle \in DocLocals /\ DocIdle.op = None /\ DocIdle.pc = "idle" /\ DocIdle.key = NoKey
  /\ DocIdle.row = 0 /\ DocIdle.ptr = NoKey /\ DocIdle.by = 0 /\ DocIdle.left = {}
  /\ DocEnded \in DocLocals /\ DocEnded.op = None /\ DocEnded.pc = "ended"
  /\ DocEnded.key = NoKey /\ DocEnded.row = 0 /\ DocEnded.ptr = NoKey /\ DocEnded.by = 0
  /\ DocEnded.left = {}
BY SmallKeys, RowsAssumption DEF DocIdle, DocEnded, DocLocals, DocPlaceNames

LEMMA DocEndOver ==
  ASSUME DocTypes, NEW c \in Calls, DocEnd(c)
  PROVE  DocOver(c)
BY Becomes, DocIdleType DEF DocEnd, DocOver

LEMMA DocGotoPlace ==
  ASSUME DocTypes, NEW c \in Calls, NEW pc \in DocPlaceNames, Goto(c, pc)
  PROVE  DocPlace(c, pc)
<1> DEFINE l == call[c]
<1>1. l \in DocLocals
  BY DocLocalType
<1>2. call' = [call EXCEPT ![c] = [l EXCEPT !.pc = pc]]
  BY DEF Goto
<1> HIDE DEF l
<1> DEFINE k == [l EXCEPT !.pc = pc]
<1>3. /\ k \in DocLocals /\ k.op = l.op /\ k.pc = pc /\ k.key = l.key /\ k.row = l.row
      /\ k.ptr = l.ptr /\ k.by = l.by /\ k.left = l.left
  BY <1>1 DEF DocLocals
<1> HIDE DEF k
<1>4. Now(c, k.op, k.pc, k.key, k.row, k.ptr, k.by, k.left)
  BY <1>2, <1>3, Becomes DEF k
<1> QED BY <1>3, <1>4 DEF DocPlace, l

LEMMA FinishNow ==
  ASSUME DocTypes, NEW c \in Calls, NEW steps, Finish(c, steps)
  PROVE  Now(c, call[c].op, call[c].pc, call[c].key, call[c].row, call[c].ptr, call[c].by,
             call[c].left \ steps)
<1> DEFINE l == call[c]
           k == [l EXCEPT !.left = @ \ steps]
<1>1. l \in DocLocals
  BY DocLocalType
<1>2. call' = [call EXCEPT ![c] = k]
  BY DEF Finish
<1> HIDE DEF l
<1>3. /\ k \in DocLocals /\ k.op = l.op /\ k.pc = l.pc /\ k.key = l.key /\ k.row = l.row
      /\ k.ptr = l.ptr /\ k.by = l.by /\ k.left = l.left \ steps
  BY <1>1 DEF DocLocals
<1> HIDE DEF k
<1>4. Now(c, k.op, k.pc, k.key, k.row, k.ptr, k.by, k.left)
  BY <1>2, <1>3, Becomes
<1> QED BY <1>3, <1>4 DEF l

LEMMA DocStarts ==
  ASSUME DocTypes, NEW c \in Calls, NEW l \in DocLocals, DocStart(c, l)
  PROVE  call[c].op = None /\ Now(c, l.op, l.pc, l.key, l.row, l.ptr, l.by, l.left)
<1>1. call[c].pc = "idle" /\ call' = [call EXCEPT ![c] = l]
  BY DEF DocStart, First
<1>2. call[c].op = None
  BY <1>1, DocLocalType
<1> QED BY <1>1, <1>2, Becomes

\* c starts the operation op, maybe on a row.
Starts(c, op, pc, key, id) == call[c].op = None /\ Now(c, op, pc, key, id, NoKey, 0, {})

LEMMA StartOnDoes ==
  ASSUME DocTypes, NEW c \in Calls, NEW op \in DocOperations, NEW id \in 0 .. MaxRows,
         StartOn(c, op, id)
  PROVE  Starts(c, op, "read", NoKey, id) /\ DocBeside({id})
<1> DEFINE l == [DocIdle EXCEPT !.op = op, !.pc = "read", !.row = id]
<1>1. /\ l \in DocLocals /\ l.op = op /\ l.pc = "read" /\ l.key = NoKey /\ l.row = id
      /\ l.ptr = NoKey /\ l.by = 0 /\ l.left = {}
  BY DocIdleType DEF DocLocals, DocPlaceNames
<1>2. DocStart(c, l) /\ DocBeside({id})
  BY DEF StartOn
<1> HIDE DEF l
<1> QED BY <1>1, <1>2, DocStarts DEF Starts

LEMMA DeliverDoes ==
  ASSUME DocTypes, NEW c \in Calls, Deliver(c)
  PROVE  \E e \in raised :
            /\ Starts(c, "save", "head", e.key, 0)
            /\ \/ raised' = raised \ {e}
               \/ raised' = raised /\ <<"again", e.key>> \in happened'
            /\ happened \cup With({}) \subseteq happened'
<1> PICK e \in raised :
       /\ DocStart(c, [DocIdle EXCEPT !.op = "save", !.pc = "head", !.key = e.key])
       /\ \/ raised' = raised \ {e} /\ DocBeside({})
          \/ /\ happened' = happened \cup {<<"again", e.key>>} \cup With({})
             /\ UNCHANGED raised
  BY DEF Deliver
<1> DEFINE l == [DocIdle EXCEPT !.op = "save", !.pc = "head", !.key = e.key]
<1>0. e.key \in FileKeys
  BY DEF DocTypes, DocStore, StoredTyped
<1>1. /\ l \in DocLocals /\ l.op = "save" /\ l.pc = "head" /\ l.key = e.key /\ l.row = 0
      /\ l.ptr = NoKey /\ l.by = 0 /\ l.left = {}
  BY <1>0, DocIdleType DEF DocLocals, DocPlaceNames, DocOperations
<1> HIDE DEF l
<1>2. Starts(c, "save", "head", e.key, 0)
  BY <1>1, DocStarts DEF Starts, l
<1> QED BY <1>2 DEF DocBeside

LEMMA ObjectKeys ==
  ASSUME DocTypes, NEW k, NEW o \in Object(k)
  PROVE  o \in stored /\ o[1] = k /\ o[2] \in Metadata
BY DEF DocTypes, DocStore, StoredTyped, Object

LEMMA HeadDoes ==
  ASSUME DocTypes, NEW c \in Calls, HeadObject(c)
  PROVE  \/ \E o \in Object(call[c].key) :
              /\ Handled(o[2])
              /\ Now(c, "save", NextStep(o[2]), call[c].key, o[2].row, call[c].ptr, o[2].by, {})
              /\ happened \subseteq happened'
              /\ (\E d \in Calls \ {c} : Active(d)) => <<"beside", o[2].row>> \in happened'
         \/ /\ \A o \in Object(call[c].key) : ~ Handled(o[2])
            /\ DocOver(c) /\ UNCHANGED happened
<1>1. CASE /\ \A o \in Object(call[c].key) : ~ Handled(o[2])
           /\ DocEnd(c) /\ UNCHANGED happened
  BY <1>1, DocEndOver
<1>2. ASSUME NEW o \in Object(call[c].key), Handled(o[2]),
             call' = [call EXCEPT ![c].pc = NextStep(o[2]), ![c].row = o[2].row, ![c].by = o[2].by]
      PROVE  Now(c, "save", NextStep(o[2]), call[c].key, o[2].row, call[c].ptr, o[2].by, {})
  <2> DEFINE l == call[c]
             pc == NextStep(o[2])
             k == [l EXCEPT !.pc = pc, !.row = o[2].row, !.by = o[2].by]
  <2>1. l \in DocLocals /\ l.op = "save" /\ l.left = {}
    BY DocLocalType DEF HeadObject, At
  <2>2. call' = [call EXCEPT ![c] = k]
    BY <1>2
  <2>3. pc \in DocPlaceNames
    BY DEF NextStep, DocPlaceNames
  <2>4. o[2].row \in 0 .. MaxRows /\ o[2].by \in {0} \cup Uploads
    BY ObjectKeys DEF Metadata
  <2> HIDE DEF l, pc
  <2>5. /\ k \in DocLocals /\ k.op = l.op /\ k.pc = pc /\ k.key = l.key /\ k.row = o[2].row
        /\ k.ptr = l.ptr /\ k.by = o[2].by /\ k.left = l.left
    BY <2>1, <2>3, <2>4 DEF DocLocals
  <2> HIDE DEF k
  <2>6. Now(c, k.op, k.pc, k.key, k.row, k.ptr, k.by, k.left)
    BY <2>2, <2>5, Becomes
  <2> QED BY <2>1, <2>5, <2>6 DEF l, pc
<1> QED BY <1>1, <1>2 DEF HeadObject

\* A generic form of the steps that read a pointer.
LEMMA ReadPointer ==
  ASSUME DocTypes, NEW c \in Calls, NEW k \in FileKeys, NEW pc \in DocPlaceNames,
         call' = [call EXCEPT ![c].ptr = k, ![c].pc = pc]
  PROVE  Now(c, call[c].op, pc, call[c].key, call[c].row, k, call[c].by, call[c].left)
<1> DEFINE l == call[c]
           m == [l EXCEPT !.ptr = k, !.pc = pc]
<1>1. l \in DocLocals
  BY DocLocalType
<1>2. call' = [call EXCEPT ![c] = m]
  OBVIOUS
<1> HIDE DEF l
<1>3. /\ m \in DocLocals /\ m.op = l.op /\ m.pc = pc /\ m.key = l.key /\ m.row = l.row
      /\ m.ptr = k /\ m.by = l.by /\ m.left = l.left
  BY <1>1 DEF DocLocals
<1> HIDE DEF m
<1>4. Now(c, m.op, m.pc, m.key, m.row, m.ptr, m.by, m.left)
  BY <1>2, <1>3, Becomes
<1> QED BY <1>3, <1>4 DEF l

LEMMA RowPointer ==
  ASSUME DocTypes, NEW id, NEW r \in Row(id)
  PROVE  r \in rows /\ r \in FileRecords /\ r.ptr \in FileKeys /\ r.id = id
BY DEF DocTypes, DocStore, StoredTyped, RowsTyped, FileRecords, Row

LEMMA MetaDoes ==
  ASSUME DocTypes, NEW c \in Calls, CreateEsignatureMetadata(c)
  PROVE  \/ DocOver(c) /\ UNCHANGED metas
         \/ /\ call[c].by \notin metas /\ metas' = metas \cup {call[c].by}
            /\ DocPlace(c, "companyFile")
BY DocEndOver, DocGotoPlace DEF CreateEsignatureMetadata, DocPlaceNames

LEMMA LoadDoes ==
  ASSUME DocTypes, NEW c \in Calls, NEW pc \in DocPlaceNames,
         IF Row(call[c].row) = {} THEN DocEnd(c) /\ UNCHANGED removals
         ELSE \E r \in Row(call[c].row) :
                /\ removals' = removals \cup {r.ptr}
                /\ Goto(c, pc)
  PROVE  \/ DocOver(c) /\ UNCHANGED removals /\ Row(call[c].row) = {}
         \/ /\ DocPlace(c, pc)
            /\ \E r \in Row(call[c].row) : removals' = removals \cup {r.ptr}
BY DocEndOver, DocGotoPlace

LEMMA LoadCurrentDoes ==
  ASSUME DocTypes, NEW c \in Calls, LoadCurrent(c)
  PROVE  \/ DocOver(c) /\ UNCHANGED removals /\ Row(call[c].row) = {}
         \/ /\ DocPlace(c, "point")
            /\ \E r \in Row(call[c].row) : removals' = removals \cup {r.ptr}
BY LoadDoes DEF LoadCurrent, DocPlaceNames

LEMMA LoadForDeleteDoes ==
  ASSUME DocTypes, NEW c \in Calls, LoadForDelete(c)
  PROVE  \/ DocOver(c) /\ UNCHANGED removals /\ Row(call[c].row) = {}
         \/ /\ DocPlace(c, "drop")
            /\ \E r \in Row(call[c].row) : removals' = removals \cup {r.ptr}
BY LoadDoes DEF LoadForDelete, DocPlaceNames

LEMMA RequestDoes ==
  ASSUME DocTypes, NEW c \in Calls, Request(c)
  PROVE  \E r \in rows, op \in {"edit", "replace", "deleteCompany", "deleteEmployee"} :
            /\ Starts(c, op, "read", NoKey, r.id)
            /\ DocBeside({r.id})
            /\ op = "replace" => r.owner = "company"
            /\ op = "edit" => r.owner # "onboarding"
<1> PICK r \in rows :
           \/ r.owner # "onboarding" /\ StartOn(c, "edit", r.id)
           \/ r.owner # "onboarding" /\ StartOn(c, "deleteEmployee", r.id)
           \/ StartOn(c, "deleteCompany", r.id)
           \/ r.owner = "company" /\ StartOn(c, "replace", r.id)
  BY DEF Request
<1>1. r.id \in 0 .. MaxRows
  BY RowsAssumption DEF DocTypes, DocStore, StoredTyped, RowsTyped, FileRecords
<1>2. ASSUME NEW op \in DocOperations, StartOn(c, op, r.id)
      PROVE  Starts(c, op, "read", NoKey, r.id) /\ DocBeside({r.id})
  BY <1>1, <1>2, StartOnDoes
<1> QED BY <1>2 DEF DocOperations

LEMMA ReadForEditDoes ==
  ASSUME DocTypes, NEW c \in Calls, ReadForEdit(c)
  PROVE  \/ DocOver(c)
         \/ \E r \in Row(call[c].row) :
              Now(c, "edit", "write", call[c].key, call[c].row, r.ptr, call[c].by, {})
<1>1. CASE DocEnd(c)
  BY <1>1, DocEndOver
<1>2. CASE \E r \in Row(call[c].row) : call' = [call EXCEPT ![c].ptr = r.ptr, ![c].pc = "write"]
  <2> PICK r \in Row(call[c].row) : call' = [call EXCEPT ![c].ptr = r.ptr, ![c].pc = "write"]
    BY <1>2
  <2>1. Now(c, call[c].op, "write", call[c].key, call[c].row, r.ptr, call[c].by, call[c].left)
    BY ReadPointer, RowPointer DEF DocPlaceNames
  <2> QED BY <2>1, DocLocalType DEF ReadForEdit, At
<1> QED BY <1>1, <1>2 DEF ReadForEdit

LEMMA ReadForReplaceDoes ==
  ASSUME DocTypes, NEW c \in Calls, ReadForReplace(c)
  PROVE  \/ DocOver(c)
         \/ \E r \in Row(call[c].row) :
              Now(c, "replace", "upload", call[c].key, call[c].row, r.ptr, call[c].by, {})
<1>1. CASE DocEnd(c)
  BY <1>1, DocEndOver
<1>2. CASE \E r \in Row(call[c].row) : call' = [call EXCEPT ![c].ptr = r.ptr, ![c].pc = "upload"]
  <2> PICK r \in Row(call[c].row) : call' = [call EXCEPT ![c].ptr = r.ptr, ![c].pc = "upload"]
    BY <1>2
  <2>1. Now(c, call[c].op, "upload", call[c].key, call[c].row, r.ptr, call[c].by, call[c].left)
    BY ReadPointer, RowPointer DEF DocPlaceNames
  <2> QED BY <2>1, DocLocalType DEF ReadForReplace, At
<1> QED BY <1>1, <1>2 DEF ReadForReplace

LEMMA FreshType ==
  ASSUME DocTypes
  PROVE  FreshKey \in FileKeys /\ FreshKey[1] = names + 1 /\ FreshKey[2] = 0 /\ FreshKey[3] = 0
BY DEF DocTypes, DocStore, StoredTyped, FreshKey, FileKey, FileKeys

LEMMA KeyForType ==
  ASSUME DocTypes
  PROVE  /\ KeyFor(CompanyName) \in FileKeys
         /\ KeyFor(CompanyName) = FileKey(2) \/ KeyFor(CompanyName) = FileKey(names + 1)
         /\ IsStored(CompanyName) => KeyFor(CompanyName) = FileKey(names + 1)
         /\ ~ IsStored(CompanyName) => KeyFor(CompanyName) = FileKey(2)
BY FreshType, SmallKeys DEF KeyFor, CompanyName, FreshKey

\* The object that is written for a row is stored under k from now on.
Replaced(c, k) ==
  /\ k = KeyFor(CompanyName) \/ k = FreshKey
  /\ Given(k) /\ uploads' = uploads \cup {k}
  /\ InUse(k) => Note("sameKey", {k})
  /\ Now(c, "replace", "write", call[c].key, call[c].row, k, call[c].by, {})

LEMMA ReplaceFileDoes ==
  ASSUME DocTypes, NEW c \in Calls, ReplaceFile(c)
  PROVE  \E k \in FileKeys : Replaced(c, k)
<1> PICK k \in {KeyFor(CompanyName), FreshKey} :
           /\ uploads' = uploads \cup {k} /\ Given(k)
           /\ call' = [call EXCEPT ![c].ptr = k, ![c].pc = "write"]
           /\ IF InUse(k) THEN Note("sameKey", {k}) ELSE UNCHANGED happened
  BY DEF ReplaceFile
<1>1. call[c].op = "replace"
  BY DEF ReplaceFile, At
<1>2. k \in FileKeys
  BY FreshType, KeyForType
<1>3. Now(c, call[c].op, "write", call[c].key, call[c].row, k, call[c].by, call[c].left)
  BY <1>2, ReadPointer DEF DocPlaceNames
<1>4. Now(c, "replace", "write", call[c].key, call[c].row, k, call[c].by, {})
  BY <1>1, <1>3, DocLocalType
<1>5. k = KeyFor(CompanyName) \/ k = FreshKey
  OBVIOUS
<1>6. Replaced(c, k)
  BY <1>4, <1>5, Zenon DEF Replaced
<1> QED BY <1>2, <1>6

LEMMA DropDoes ==
  ASSUME DocTypes, NEW c \in Calls, NEW op, DropRow(c, op)
  PROVE  DocOver(c) /\ rows' = rows \ Row(call[c].row)
BY DocEndOver DEF DropRow

LEMMA CreationDoes ==
  ASSUME DocTypes, NEW c \in Calls, CreateCompanyDocument(c)
  PROVE  Starts(c, "create", "read", NoKey, 0) /\ DocBeside({})
<1> DEFINE l == [DocIdle EXCEPT !.op = "create", !.pc = "read"]
<1>1. /\ l \in DocLocals /\ l.op = "create" /\ l.pc = "read" /\ l.key = NoKey /\ l.row = 0
      /\ l.ptr = NoKey /\ l.by = 0 /\ l.left = {}
  BY DocIdleType DEF DocLocals, DocPlaceNames, DocOperations
<1>2. DocStart(c, l) /\ DocBeside({})
  BY DEF CreateCompanyDocument
<1> HIDE DEF l
<1> QED BY <1>1, <1>2, DocStarts DEF Starts

LEMMA ChooseKeyDoes ==
  ASSUME DocTypes, NEW c \in Calls, ChooseKey(c)
  PROVE  Now(c, "create", "meta", KeyFor(CompanyName), 0, call[c].ptr, call[c].by, {})
<1> DEFINE key == KeyFor(CompanyName)
           l == call[c]
           m == [l EXCEPT !.key = key, !.pc = "meta"]
<1>1. call' = [call EXCEPT ![c] = m] /\ l.op = "create" /\ l.pc = "read"
  BY DEF ChooseKey, At
<1>2. key \in FileKeys
  BY FreshType, SmallKeys DEF KeyFor
<1>3. l \in DocLocals /\ l.left = {} /\ l.row = 0
  BY <1>1, DocLocalType DEF DocCallType
<1> HIDE DEF l, key
<1>4. /\ m \in DocLocals /\ m.op = l.op /\ m.pc = "meta" /\ m.key = key /\ m.row = l.row
      /\ m.ptr = l.ptr /\ m.by = l.by /\ m.left = l.left
  BY <1>2, <1>3 DEF DocLocals, DocPlaceNames
<1> HIDE DEF m
<1>5. Now(c, m.op, m.pc, m.key, m.row, m.ptr, m.by, m.left)
  BY <1>1, <1>4, Becomes
<1> QED BY <1>1, <1>3, <1>4, <1>5 DEF l, key

LEMMA SaveOnboardingDoes ==
  ASSUME DocTypes, NEW c \in Calls, SaveOnboarding(c)
  PROVE  Starts(c, "onboarding", "read", NoKey, 0) /\ DocBeside({CompanyRow, SignedRow})
<1> DEFINE l == [DocIdle EXCEPT !.op = "onboarding", !.pc = "read"]
<1>1. /\ l \in DocLocals /\ l.op = "onboarding" /\ l.pc = "read" /\ l.key = NoKey /\ l.row = 0
      /\ l.ptr = NoKey /\ l.by = 0 /\ l.left = {}
  BY DocIdleType DEF DocLocals, DocPlaceNames, DocOperations
<1>2. DocStart(c, l) /\ DocBeside({CompanyRow, SignedRow})
  BY DEF SaveOnboarding
<1> HIDE DEF l
<1> QED BY <1>1, <1>2, DocStarts DEF Starts

LEMMA ListTaskDoes ==
  ASSUME DocTypes, NEW c \in Calls, ListTaskList(c)
  PROVE  \/ DocPlace(c, "list") /\ call[c].left = {}
         \/ \E r \in Row(CompanyRow) :
              /\ Now(c, "onboarding", "list", r.ptr, 0, call[c].ptr, call[c].by, CompanySteps)
<1>0. call[c].op = "onboarding" /\ call[c].pc = "read" /\ call[c].left = {} /\ call[c].row = 0
  BY DocLocalType DEF ListTaskList, At, DocCallType, Planned
<1>1. CASE Goto(c, "list")
  BY <1>0, <1>1, DocGotoPlace DEF DocPlaceNames
<1>2. CASE \E r \in Row(CompanyRow) :
              call' = [call EXCEPT ![c].key = r.ptr, ![c].left = CompanySteps, ![c].pc = "list"]
  <2> PICK r \in Row(CompanyRow) :
              call' = [call EXCEPT ![c].key = r.ptr, ![c].left = CompanySteps, ![c].pc = "list"]
    BY <1>2
  <2> DEFINE l == call[c]
             m == [l EXCEPT !.key = r.ptr, !.left = CompanySteps, !.pc = "list"]
  <2>1. call' = [call EXCEPT ![c] = m]
    OBVIOUS
  <2>2. l \in DocLocals /\ r.ptr \in FileKeys
    BY DocLocalType, RowPointer
  <2> HIDE DEF l
  <2>3. /\ m \in DocLocals /\ m.op = l.op /\ m.pc = "list" /\ m.key = r.ptr /\ m.row = l.row
        /\ m.ptr = l.ptr /\ m.by = l.by /\ m.left = CompanySteps
    BY <2>2 DEF DocLocals, DocPlaceNames
  <2> HIDE DEF m
  <2>4. Now(c, m.op, m.pc, m.key, m.row, m.ptr, m.by, m.left)
    BY <2>1, <2>3, Becomes
  <2> QED BY <1>0, <2>3, <2>4 DEF l
<1> QED BY <1>1, <1>2 DEF ListTaskList

LEMMA ListSignedDoes ==
  ASSUME DocTypes, NEW c \in Calls, ListSigned(c)
  PROVE  /\ call[c].left \cap SignedSteps = {}
         /\ \/ DocPlace(c, "run")
            \/ \E r \in Row(SignedRow) :
                 Now(c, "onboarding", "run", call[c].key, call[c].row, r.ptr, call[c].by,
                     call[c].left \cup SignedSteps)
<1>0. call[c].op = "onboarding" /\ call[c].pc = "list" /\ call[c].left \cap SignedSteps = {}
  BY DocLocalType DEF ListSigned, At, DocCallType, Planned
<1>1. CASE Goto(c, "run")
  BY <1>0, <1>1, DocGotoPlace DEF DocPlaceNames
<1>2. CASE \E r \in Row(SignedRow) :
              call' = [call EXCEPT ![c].ptr = r.ptr, ![c].pc = "run", ![c].left = @ \cup SignedSteps]
  <2> PICK r \in Row(SignedRow) :
              call' = [call EXCEPT ![c].ptr = r.ptr, ![c].pc = "run", ![c].left = @ \cup SignedSteps]
    BY <1>2
  <2> DEFINE l == call[c]
             m == [l EXCEPT !.ptr = r.ptr, !.pc = "run", !.left = @ \cup SignedSteps]
  <2>1. call' = [call EXCEPT ![c] = m]
    OBVIOUS
  <2>2. l \in DocLocals /\ r.ptr \in FileKeys
    BY DocLocalType, RowPointer
  <2> HIDE DEF l
  <2>3. /\ m \in DocLocals /\ m.op = l.op /\ m.pc = "run" /\ m.key = l.key /\ m.row = l.row
        /\ m.ptr = r.ptr /\ m.by = l.by /\ m.left = l.left \cup SignedSteps
    BY <2>2 DEF DocLocals, DocPlaceNames
  <2> HIDE DEF m
  <2>4. Now(c, m.op, m.pc, m.key, m.row, m.ptr, m.by, m.left)
    BY <2>1, <2>3, Becomes
  <2> QED BY <1>0, <2>3, <2>4 DEF l
<1> QED BY <1>0, <1>1, <1>2 DEF ListSigned

LEMMA EmployeeRowDoes ==
  ASSUME DocTypes, NEW c \in Calls, RowForEmployee(c)
  PROVE  /\ Insert("onboarding", EmployeeKey, 0)
         /\ Now(c, "onboarding", call[c].pc, call[c].key, ids + 1, call[c].ptr, call[c].by,
                call[c].left \ {"row"})
<1> DEFINE l == call[c]
           n == ids + 1
           m == [l EXCEPT !.left = @ \ {"row"}, !.row = n]
<1>0. n \in 0 .. MaxRows
  BY RowsAssumption DEF RowForEmployee, Insert, DocTypes, DocStore, StoredTyped
<1>1. /\ l.op = "onboarding" /\ Insert("onboarding", EmployeeKey, 0)
      /\ call' = [call EXCEPT ![c].left = @ \ {"row"}, ![c].row = ids']
  BY DEF RowForEmployee, Ready
<1>5. ids' = n
  BY <1>1 DEF Insert
<1>6. call' = [call EXCEPT ![c] = m]
  BY <1>1, <1>5
<1>2. l \in DocLocals
  BY DocLocalType
<1> HIDE DEF l, n
<1>3. /\ m \in DocLocals /\ m.op = l.op /\ m.pc = l.pc /\ m.key = l.key /\ m.row = n
      /\ m.ptr = l.ptr /\ m.by = l.by /\ m.left = l.left \ {"row"}
  BY <1>0, <1>2 DEF DocLocals
<1> HIDE DEF m
<1>4. Now(c, m.op, m.pc, m.key, m.row, m.ptr, m.by, m.left)
  BY <1>3, <1>6, Becomes
<1> QED BY <1>1, <1>3, <1>4 DEF l, n
-----------------------------------------------------------------------------
(* Types.                                                                  *)

\* Rows keep their owner, and ids are not given twice.
RowsKeep ==
  /\ RowsTyped'
  /\ ids' \in ids .. MaxRows
  /\ \A r \in rows' : (r.id > ids /\ r.id = ids') \/ \E s \in rows : s.id = r.id /\ s.owner = r.owner

\* The pointer of row id is written.
Pointed(id, k) ==
  /\ UNCHANGED ids
  /\ \A r \in rows' : \E s \in rows : /\ s.id = r.id /\ s.owner = r.owner /\ s.by = r.by
                                      /\ r.ptr = IF r.id = id THEN k ELSE s.ptr
  /\ \A s \in rows : \E r \in rows' : r.id = s.id

LEMMA PointDoes ==
  ASSUME DocTypes, NEW id, NEW k \in FileKeys, Point(id, k)
  PROVE  Pointed(id, k) /\ RowsKeep
<1> DEFINE f(s) == IF s.id = id THEN [s EXCEPT !.ptr = k] ELSE s
<1>1. rows' = {f(s) : s \in rows} /\ ids' = ids
  BY DEF Point
<1>2. \A s \in rows : /\ f(s) \in FileRecords /\ f(s).id = s.id /\ f(s).owner = s.owner
                      /\ f(s).by = s.by /\ f(s).ptr = IF s.id = id THEN k ELSE s.ptr
  BY DEF DocTypes, DocStore, RowsTyped, FileRecords
<1> HIDE DEF f
<1>3. RowsTyped'
  BY <1>1, <1>2 DEF DocTypes, DocStore, RowsTyped
<1>4. Pointed(id, k)
  BY <1>1, <1>2 DEF Pointed
<1>5. \A r \in rows' : \E s \in rows : s.id = r.id /\ s.owner = r.owner
  BY <1>4 DEF Pointed
<1> QED BY <1>1, <1>3, <1>4, <1>5 DEF RowsKeep, DocTypes, DocStore

LEMMA InsertDoes ==
  ASSUME DocTypes, NEW owner \in Owners \ {"none"}, NEW k \in FileKeys,
         NEW by \in {0} \cup Uploads, Insert(owner, k, by)
  PROVE  /\ RowsKeep /\ ids' = ids + 1
         /\ \E n \in FileRecords :
              /\ rows' = rows \cup {n}
              /\ n.id = ids + 1 /\ n.owner = owner /\ n.ptr = k /\ n.by = by
<1> DEFINE n == [id |-> ids + 1, owner |-> owner, ptr |-> k, by |-> by]
<1>1. ids' = ids + 1 /\ ids < MaxRows
  BY DEF Insert
<1>2. rows' = rows \cup {n}
  BY <1>1 DEF Insert
<1>3. n \in FileRecords /\ n.id = ids + 1 /\ n.owner = owner /\ n.ptr = k /\ n.by = by
      /\ ids' \in ids .. MaxRows
  BY <1>1, RowsAssumption DEF FileRecords, DocTypes, DocStore
<1> HIDE DEF n
<1>4. \A r \in rows : r.id <= ids /\ r.id \in Nat
  BY DEF DocTypes, DocStore, RowsTyped, FileRecords
<1>5. ids \in Nat
  BY DEF DocTypes, DocStore
<1>6. RowsTyped'
  BY <1>1, <1>2, <1>3, <1>4, <1>5 DEF DocTypes, DocStore, RowsTyped
<1>7. RowsKeep
  BY <1>1, <1>2, <1>3, <1>5, <1>6 DEF RowsKeep
<1> QED BY <1>1, <1>2, <1>3, <1>7

LEMMA InsertRow ==
  ASSUME NEW owner, NEW k, NEW by, Insert(owner, k, by)
  PROVE  \E n : /\ rows' = rows \cup {n}
               /\ n.id = ids + 1 /\ n.owner = owner /\ n.ptr = k /\ n.by = by
<1> DEFINE n == [id |-> ids + 1, owner |-> owner, ptr |-> k, by |-> by]
<1>1. rows' = rows \cup {n}
  BY DEF Insert
<1>2. n.id = ids + 1 /\ n.owner = owner /\ n.ptr = k /\ n.by = by
  OBVIOUS
<1> HIDE DEF n
<1> QED BY <1>1, <1>2

LEMMA DropKeeps ==
  ASSUME DocTypes, rows' \subseteq rows, UNCHANGED ids
  PROVE  RowsKeep
BY RowsAssumption DEF RowsKeep, DocTypes, DocStore, RowsTyped

LEMMA PutTypes ==
  ASSUME DocTypes, NEW k \in FileKeys, NEW meta \in Metadata, Put(k, meta)
  PROVE  StoredTyped'
BY DEF Put, Object, DocTypes, DocStore, StoredTyped

LEMMA LessStored ==
  ASSUME DocTypes, stored' \subseteq stored
  PROVE  StoredTyped'
BY DEF DocTypes, DocStore, StoredTyped

LEMMA StoreTypesKept ==
  ASSUME DocTypes, RowsKeep, UNCHANGED <<url, used, latest>>, StoredTyped',
         names' \in Nat, names' >= names,
         raised' \subseteq [key : FileKeys, by : {0} \cup Uploads],
         uploads' \subseteq FileKeys, removals' \subseteq FileKeys, 0 \in metas'
  PROVE  DocStore'
<1>1. \A u \in Uploads : UrlType(u)'
  <2> SUFFICES ASSUME NEW u \in Uploads, url[u] # None PROVE UrlType(u)'
    BY DEF UrlType
  <2>1. UrlType(u)
    BY DEF DocTypes, DocStore
  <2>2. url[u].key[1] \in (1 .. names') \ {2, 3}
    BY <2>1 DEF UrlType, DocTypes, DocStore
  <2>3. url[u].row <= ids' /\ url[u].row \in Nat /\ url[u].row <= ids
    BY <2>1, RowsAssumption DEF UrlType, Urls, RowsKeep, DocTypes, DocStore
  <2>4. ASSUME url[u].row # 0, NEW r \in rows', r.id = url[u].row
        PROVE  (r.owner = "company") = (url[u].owner = "company")
    <3>1. ids \in Nat
      BY DEF DocTypes, DocStore
    <3>2. PICK s \in rows : s.id = r.id /\ s.owner = r.owner
      BY <2>3, <2>4, <3>1 DEF RowsKeep
    <3> QED BY <2>1, <2>4, <3>2 DEF UrlType, Row
  <2> QED BY <2>1, <2>2, <2>3, <2>4 DEF UrlType, Row
<1>2. ids' \in 2 .. MaxRows
  BY RowsAssumption DEF RowsKeep, DocTypes, DocStore
<1>3. names' \in Nat \ {0, 1, 2}
  BY DEF DocTypes, DocStore
<1> QED BY <1>1, <1>2, <1>3 DEF DocTypes, DocStore, RowsKeep

\* A call that is typed stays so when the rows change.
LEMMA CallTypeKept ==
  ASSUME DocTypes, RowsKeep, NEW l, DocCallType(l)
  PROVE  DocCallType(l)'
<1>1. l.row \in Nat /\ l.row <= ids /\ l.row <= ids' /\ ids \in Nat
  BY RowsAssumption DEF DocCallType, DocLocals, RowsKeep, DocTypes, DocStore
<1>2. \A r \in Row(l.row)' : \E s \in Row(l.row) : s.owner = r.owner
  BY <1>1 DEF RowsKeep, Row
<1> QED BY <1>1, <1>2 DEF DocCallType

LEMMA CallTypesKept ==
  ASSUME DocTypes, RowsKeep, NEW c \in Calls, DocSteps(c), DocCallType(call[c])'
  PROVE  DOMAIN call' = Calls /\ \A d \in Calls : DocCallType(call[d])'
<1>1. ASSUME NEW d \in Calls \ {c} PROVE DocCallType(call[d])'
  <2> PICK l : l = call[d]
    OBVIOUS
  <2>1. call'[d] = l /\ DocCallType(l)
    BY DEF DocSteps, DocTypes
  <2>2. DocCallType(l)'
    BY <2>1, CallTypeKept
  <2> QED BY <2>1, <2>2 DEF DocCallType
<1> QED BY <1>1 DEF DocSteps

LEMMA OverCallTypes ==
  ASSUME DocTypes, RowsKeep, NEW c \in Calls, DocOver(c)
  PROVE  DOMAIN call' = Calls /\ \A d \in Calls : DocCallType(call[d])'
<1>1. DocCallType(call[c])'
  BY DocOperates, RowsAssumption
     DEF DocOver, Now, DocCallType, DocPlaces, Planned, RowsKeep, DocTypes, DocStore, CompanyRow, SignedRow
<1> QED BY <1>1, CallTypesKept DEF DocOver, Now

\* A place of its operation.
LEMMA PlaceCallTypes ==
  ASSUME DocTypes, RowsKeep, NEW c \in Calls, NEW pc, DocPlace(c, pc),
         pc \in DocPlaces(call[c].op), call[c].op \in {"save", "create", "deleteCompany", "deleteEmployee"}
  PROVE  DOMAIN call' = Calls /\ \A d \in Calls : DocCallType(call[d])'
<1>0. DocCallType(call[c]) /\ call[c].left = {}
  BY DocLocalType
<1> DEFINE l == call[c]
<1>1. /\ call'[c] \in DocLocals
      /\ call'[c].op = l.op /\ call'[c].pc = pc /\ call'[c].row = l.row /\ call'[c].left = {}
  BY <1>0 DEF DocPlace, Now
<1>3. l.row <= ids' /\ l.row \in 0 .. MaxRows
  BY <1>0, RowsAssumption DEF RowsKeep, DocTypes, DocStore, DocCallType, DocLocals
<1>2. DocCallType(call[c])'
  BY <1>0, <1>1, <1>3 DEF DocCallType, Planned
<1> QED BY <1>2, CallTypesKept DEF DocPlace, Now

LEMMA DocInitTypes == ASSUME DocInit PROVE DocTypes
<1>1. FileKeys # {} /\ CompanyName \in FileKeys /\ SignedName \in FileKeys
  BY SmallKeys
<1>2. DocStore
  <2>1. \A u \in Uploads : UrlType(u)
    BY DEF DocInit, UrlType
  <2>2. [owner |-> "company", row |-> 0, by |-> 0] \in Metadata /\ Silent \in Metadata
    BY RowsAssumption DEF Metadata, Silent, Owners
  <2>3. CompanyName # SignedName
    BY DEF CompanyName, SignedName, FileKey
  <2>4. StoredTyped
    BY <1>1, <2>2, <2>3 DEF DocInit, StoredTyped
  <2>5. RowsTyped
    BY <1>1, RowsAssumption DEF DocInit, RowsTyped, FileRecords, CompanyRow, SignedRow, Owners
  <2> QED BY <2>1, <2>4, <2>5, RowsAssumption DEF DocInit, DocStore
<1>3. \A c \in Calls : DocCallType(call[c])
  BY DocIdleType, DocOperates, <1>2 DEF DocInit, DocCallType, DocPlaces, Planned, DocStore, CompanyRow, SignedRow
<1> QED BY <1>2, <1>3 DEF DocTypes, DocInit
-----------------------------------------------------------------------------
(* Every step keeps the types.                                             *)

LEMMA SameRows ==
  ASSUME DocTypes, UNCHANGED fileRows
  PROVE  RowsKeep
BY DropKeeps DEF fileRows

LEMMA QuietStore ==
  ASSUME DocTypes, UNCHANGED <<browser, stored, fileRows, names>>, uploads' \subseteq uploads,
         raised' \subseteq raised, removals' \subseteq FileKeys, metas \subseteq metas'
  PROVE  DocStore' /\ RowsKeep
<1>1. RowsKeep
  BY SameRows
<1>2. StoredTyped'
  BY LessStored
<1>3. names' \in Nat /\ names' >= names
  BY DEF DocTypes, DocStore
<1> QED BY <1>1, <1>2, <1>3, StoreTypesKept DEF browser, DocTypes, DocStore

LEMMA LoadedKey ==
  ASSUME DocTypes, NEW id, removals' = removals \/ \E r \in Row(id) : removals' = removals \cup {r.ptr}
  PROVE  removals' \subseteq FileKeys
BY RowPointer DEF DocTypes, DocStore

LEMMA StartTypes ==
  ASSUME DocTypes, RowsKeep, NEW c \in Calls, NEW op, NEW pc, NEW key, NEW id,
         Starts(c, op, pc, key, id), pc \in DocPlaces(op), id <= ids', id \in Nat,
         op \in {"save", "edit", "replace", "deleteCompany", "deleteEmployee", "create", "onboarding"},
         op \in {"edit", "replace", "deleteCompany", "deleteEmployee"} => id # 0,
         op = "replace" => id # SignedRow /\ \A r \in Row(id)' : r.owner = "company",
         op = "edit" => \A r \in Row(id)' : r.owner # "onboarding",
         op \in {"create", "onboarding"} => id = 0
  PROVE  DOMAIN call' = Calls /\ \A d \in Calls : DocCallType(call[d])'
<1>1. /\ call'[c] \in DocLocals /\ call'[c].op = op /\ call'[c].pc = pc
      /\ call'[c].row = id /\ call'[c].left = {}
  BY DEF Starts, Now
<1>2. Planned(call'[c])
  BY <1>1 DEF Planned
<1>3. DocCallType(call[c])'
  BY <1>1, <1>2 DEF DocCallType, Planned, CompanyRow, SignedRow
<1> QED BY <1>3, CallTypesKept DEF Starts, Now

LEMMA DeliverTypes ==
  ASSUME DocTypes, NEW c \in Calls, Deliver(c)
  PROVE  DocTypes'
<1>1. PICK e \in raised : /\ Starts(c, "save", "head", e.key, 0)
                          /\ raised' \subseteq raised
  BY DeliverDoes
<1>2. DocStore' /\ RowsKeep
  BY <1>1, QuietStore DEF Deliver, unawaited, DocTypes, DocStore
<1>3. 0 <= ids'
  BY <1>2 DEF DocStore
<1> QED BY <1>1, <1>2, <1>3, StartTypes DEF DocPlaces, DocTypes

LEMMA HeadTypes ==
  ASSUME DocTypes, OriginInv, NEW c \in Calls, HeadObject(c)
  PROVE  DocTypes'
<1>1. DocStore' /\ RowsKeep
  BY QuietStore DEF HeadObject, unawaited, DocTypes, DocStore
<1>2. CASE DocOver(c)
  BY <1>1, <1>2, OverCallTypes DEF DocTypes
<1>3. ASSUME NEW o \in Object(call[c].key),
             Now(c, "save", NextStep(o[2]), call[c].key, o[2].row, call[c].ptr, o[2].by, {})
      PROVE  DocTypes'
  <2>1. o[2].row = 0 \/ \E u \in used : o[2].row = url[u].row
    BY ObjectKeys DEF OriginInv, Origin
  <2>2. o[2].row \in Nat /\ o[2].row <= ids
    BY <2>1, ObjectKeys, RowsAssumption DEF DocTypes, DocStore, UrlType, Metadata
  <2>3. o[2].row <= ids'
    BY <2>2 DEF HeadObject, fileRows
  <2>4. DocCallType(call[c])'
    BY <1>3, <2>3 DEF Now, DocCallType, DocPlaces, Planned, NextStep
  <2> QED BY <1>1, <1>3, <2>4, CallTypesKept DEF Now, DocTypes
<1> QED BY <1>2, <1>3, HeadDoes

LEMMA MetaTypes ==
  ASSUME DocTypes, NEW c \in Calls, CreateEsignatureMetadata(c)
  PROVE  DocTypes'
<1>1. DocStore' /\ RowsKeep
  BY QuietStore DEF CreateEsignatureMetadata, unawaited, DocTypes, DocStore
<1>2. DocOver(c) \/ DocPlace(c, "companyFile")
  BY MetaDoes
<1> QED BY <1>1, <1>2, OverCallTypes, PlaceCallTypes DEF CreateEsignatureMetadata, At, DocPlaces, DocTypes

LEMMA LoadCurrentTypes ==
  ASSUME DocTypes, NEW c \in Calls, LoadCurrent(c)
  PROVE  DocTypes'
<1>1. removals' \subseteq FileKeys
  BY LoadCurrentDoes, LoadedKey
<1>2. DocStore' /\ RowsKeep
  BY <1>1, QuietStore DEF LoadCurrent, DocTypes, DocStore
<1>3. DocOver(c) \/ DocPlace(c, "point")
  BY LoadCurrentDoes
<1> QED BY <1>2, <1>3, OverCallTypes, PlaceCallTypes DEF LoadCurrent, At, DocPlaces, DocTypes

LEMMA LoadForDeleteTypes ==
  ASSUME DocTypes, NEW c \in Calls, LoadForDelete(c), call[c].op \in {"deleteCompany", "deleteEmployee"}
  PROVE  DocTypes'
<1>1. removals' \subseteq FileKeys
  BY LoadForDeleteDoes, LoadedKey
<1>2. DocStore' /\ RowsKeep
  BY <1>1, QuietStore DEF LoadForDelete, DocTypes, DocStore
<1>3. DocOver(c) \/ DocPlace(c, "drop")
  BY LoadForDeleteDoes
<1> QED BY <1>2, <1>3, OverCallTypes, PlaceCallTypes DEF DocPlaces, DocTypes

LEMMA RequestTypes ==
  ASSUME DocTypes, OriginInv, NEW c \in Calls, Request(c)
  PROVE  DocTypes'
<1>1. PICK r \in rows, op \in {"edit", "replace", "deleteCompany", "deleteEmployee"} :
            /\ Starts(c, op, "read", NoKey, r.id)
            /\ op = "replace" => r.owner = "company"
            /\ op = "edit" => r.owner # "onboarding"
  BY RequestDoes
<1>2. DocStore' /\ RowsKeep /\ rows' = rows /\ ids' = ids
  BY QuietStore DEF Request, unawaited, DocTypes, DocStore, fileRows
<1>3. r.id \in Nat \ {0} /\ r.id <= ids /\ \A s \in Row(r.id) : s = r
  BY RowsAssumption DEF DocTypes, DocStore, RowsTyped, FileRecords, Row
<1>4. r.owner = "company" => r.id # SignedRow
  BY DEF OriginInv, RowOrigin
<1>5. Row(r.id)' = Row(r.id)
  BY <1>2 DEF Row
<1>6. /\ op = "replace" => r.id # SignedRow /\ \A s \in Row(r.id)' : s.owner = "company"
      /\ op = "edit" => \A s \in Row(r.id)' : s.owner # "onboarding"
      /\ "read" \in DocPlaces(op) /\ r.id <= ids'
  BY <1>1, <1>2, <1>3, <1>4, <1>5 DEF DocPlaces
<1> QED BY <1>1, <1>2, <1>3, <1>6, StartTypes DEF DocTypes

LEMMA ReadForEditTypes ==
  ASSUME DocTypes, NEW c \in Calls, ReadForEdit(c)
  PROVE  DocTypes'
<1>1. DocStore' /\ RowsKeep /\ rows' = rows /\ ids' = ids
  BY QuietStore DEF ReadForEdit, unawaited, DocTypes, DocStore, fileRows
<1>2. CASE DocOver(c)
  BY <1>1, <1>2, OverCallTypes DEF DocTypes
<1>3. ASSUME NEW r \in Row(call[c].row),
             Now(c, "edit", "write", call[c].key, call[c].row, r.ptr, call[c].by, {})
      PROVE  DocTypes'
  <2>1. DocCallType(call[c]) /\ call[c].op = "edit"
    BY DocLocalType DEF ReadForEdit, At
  <2>2. DocCallType(call[c])'
    BY <1>1, <1>3, <2>1 DEF Now, DocCallType, DocPlaces, Planned, Row
  <2> QED BY <1>1, <1>3, <2>2, CallTypesKept DEF Now, DocTypes
<1> QED BY <1>2, <1>3, ReadForEditDoes

LEMMA ReadForReplaceTypes ==
  ASSUME DocTypes, NEW c \in Calls, ReadForReplace(c)
  PROVE  DocTypes'
<1>1. DocStore' /\ RowsKeep /\ rows' = rows /\ ids' = ids
  BY QuietStore DEF ReadForReplace, unawaited, DocTypes, DocStore, fileRows
<1>2. CASE DocOver(c)
  BY <1>1, <1>2, OverCallTypes DEF DocTypes
<1>3. ASSUME NEW r \in Row(call[c].row),
             Now(c, "replace", "upload", call[c].key, call[c].row, r.ptr, call[c].by, {})
      PROVE  DocTypes'
  <2>1. DocCallType(call[c]) /\ call[c].op = "replace"
    BY DocLocalType DEF ReadForReplace, At
  <2>2. DocCallType(call[c])'
    BY <1>1, <1>3, <2>1 DEF Now, DocCallType, DocPlaces, Planned, Row
  <2> QED BY <1>1, <1>3, <2>2, CallTypesKept DEF Now, DocTypes
<1> QED BY <1>2, <1>3, ReadForReplaceDoes

LEMMA CreationTypes ==
  ASSUME DocTypes, NEW c \in Calls, CreateCompanyDocument(c)
  PROVE  DocTypes'
<1>1. DocStore' /\ RowsKeep
  BY QuietStore DEF CreateCompanyDocument, unawaited, DocTypes, DocStore
<1>2. 0 <= ids'
  BY <1>1 DEF DocStore
<1> QED BY <1>1, <1>2, StartTypes, CreationDoes DEF DocPlaces, DocTypes

LEMMA InsertMetadataTypes ==
  ASSUME DocTypes, NEW c \in Calls, InsertMetadata(c)
  PROVE  DocTypes' /\ DocPlace(c, "insert")
<1>1. DocStore' /\ RowsKeep
  BY QuietStore DEF InsertMetadata, unawaited, DocTypes, DocStore
<1>2. DocPlace(c, "insert")
  BY DocGotoPlace DEF InsertMetadata, DocPlaceNames
<1> QED BY <1>1, <1>2, PlaceCallTypes DEF InsertMetadata, At, DocPlaces, DocTypes

LEMMA SaveOnboardingTypes ==
  ASSUME DocTypes, NEW c \in Calls, SaveOnboarding(c)
  PROVE  DocTypes'
<1>1. DocStore' /\ RowsKeep
  BY QuietStore DEF SaveOnboarding, unawaited, DocTypes, DocStore
<1>2. 0 <= ids'
  BY <1>1 DEF DocStore
<1> QED BY <1>1, <1>2, StartTypes, SaveOnboardingDoes DEF DocPlaces, DocTypes

LEMMA StepsOfOnboarding ==
  /\ CompanySteps \cap SignedSteps = {}
  /\ "copySigned" \in SignedSteps /\ "deleteSigned" \in SignedSteps /\ "pointSigned" \in SignedSteps
  /\ "row" \in CompanySteps /\ "copyCompany" \in CompanySteps
  /\ "copySigned" \notin CompanySteps /\ "deleteSigned" \notin CompanySteps
  /\ "pointSigned" \notin CompanySteps /\ "row" \notin SignedSteps /\ "copyCompany" \notin SignedSteps
BY DEF CompanySteps, SignedSteps

LEMMA ListTaskTypes ==
  ASSUME DocTypes, NEW c \in Calls, ListTaskList(c)
  PROVE  DocTypes'
<1>4. DocStore' /\ RowsKeep
  BY QuietStore DEF ListTaskList, unawaited, DocTypes, DocStore
<1>5. ids' = ids /\ ids \in Nat
  <2>1. UNCHANGED fileRows
    BY Zenon DEF ListTaskList
  <2>2. ids \in Nat
    BY RowsAssumption DEF DocTypes, DocStore
  <2> QED BY <2>1, <2>2 DEF fileRows
<1>1. DocStore' /\ RowsKeep /\ ids' = ids /\ ids \in Nat
  BY <1>4, <1>5
<1>0. call[c].op = "onboarding" /\ call[c].pc = "read" /\ DocCallType(call[c])
  BY DocLocalType DEF ListTaskList, At
<1>2. CASE DocPlace(c, "list") /\ call[c].left = {}
  <2>1. DocCallType(call[c])'
    BY <1>0, <1>1, <1>2 DEF DocPlace, Now, DocCallType, DocPlaces, Planned
  <2> QED BY <1>1, <1>2, <2>1, CallTypesKept DEF DocPlace, Now, DocTypes
<1>3. ASSUME NEW r \in Row(CompanyRow),
             Now(c, "onboarding", "list", r.ptr, 0, call[c].ptr, call[c].by, CompanySteps)
      PROVE  DocTypes'
  <2>1. Planned(call'[c])
    BY <1>3, StepsOfOnboarding DEF Now, Planned
  <2>2. DocCallType(call[c])'
    BY <1>1, <1>3, <2>1 DEF Now, DocCallType, DocPlaces, Planned, CompanyRow, SignedRow
  <2> QED BY <1>1, <1>3, <2>2, CallTypesKept DEF Now, DocTypes
<1> QED BY <1>2, <1>3, ListTaskDoes

LEMMA ListSignedTypes ==
  ASSUME DocTypes, NEW c \in Calls, ListSigned(c)
  PROVE  DocTypes'
<1>4. DocStore' /\ RowsKeep
  BY QuietStore DEF ListSigned, unawaited, DocTypes, DocStore
<1>5. ids' = ids /\ ids \in Nat
  <2>1. UNCHANGED fileRows
    BY Zenon DEF ListSigned
  <2>2. ids \in Nat
    BY RowsAssumption DEF DocTypes, DocStore
  <2> QED BY <2>1, <2>2 DEF fileRows
<1>1. DocStore' /\ RowsKeep /\ ids' = ids /\ ids \in Nat
  BY <1>4, <1>5
<1>0. call[c].op = "onboarding" /\ call[c].pc = "list" /\ DocCallType(call[c])
  BY DocLocalType DEF ListSigned, At
<1>2. CASE DocPlace(c, "run") /\ call[c].left \cap SignedSteps = {}
  <2>1. DocCallType(call[c])'
    BY <1>0, <1>1, <1>2 DEF DocPlace, Now, DocCallType, DocPlaces, Planned
  <2> QED BY <1>1, <1>2, <2>1, CallTypesKept DEF DocPlace, Now, DocTypes
<1>3. ASSUME NEW r \in Row(SignedRow),
             Now(c, "onboarding", "run", call[c].key, call[c].row, r.ptr, call[c].by,
                     call[c].left \cup SignedSteps)
      PROVE  DocTypes'
  <2>1. Planned(call'[c])
    BY <1>0, <1>3, StepsOfOnboarding DEF Now, Planned, DocCallType
  <2>2. DocCallType(call[c])'
    BY <1>0, <1>1, <1>3, <2>1 DEF Now, DocCallType, DocPlaces, Planned, CompanyRow, SignedRow
  <2> QED BY <1>1, <1>3, <2>2, CallTypesKept DEF Now, DocTypes
<1> QED BY <1>2, <1>3, ListSignedDoes

\* An onboarding that has taken some steps, in their order.
LEMMA FinishTypes ==
  ASSUME DocTypes, RowsKeep, NEW c \in Calls, call[c].op = "onboarding",
         NEW steps, Finish(c, steps),
         "deleteSigned" \in steps => "copySigned" \in steps \/ "copySigned" \notin call[c].left,
         "pointSigned" \in steps => "deleteSigned" \in steps \/ "deleteSigned" \notin call[c].left,
         "copyCompany" \in steps => "row" \in steps \/ "row" \notin call[c].left
  PROVE  DOMAIN call' = Calls /\ \A d \in Calls : DocCallType(call[d])'
<1>1. Now(c, call[c].op, call[c].pc, call[c].key, call[c].row, call[c].ptr, call[c].by,
             call[c].left \ steps)
  BY FinishNow
<1>2. DocCallType(call[c])
  BY DocLocalType
<1>3. call[c].pc # "read" \/ call[c].left = {}
  BY <1>2 DEF DocCallType, Planned
<1>4. Planned(call'[c])
  BY <1>1, <1>2, <1>3 DEF Now, Planned, DocCallType
<1>5. call[c].row <= ids' /\ call[c].row \in 0 .. MaxRows
  BY <1>2, RowsAssumption DEF RowsKeep, DocTypes, DocStore, DocCallType, DocLocals
<1>6. DocCallType(call[c])'
  BY <1>1, <1>2, <1>4, <1>5 DEF Now, DocCallType, Planned
<1> QED BY <1>1, <1>6, CallTypesKept DEF Now

LEMMA ReadySteps ==
  ASSUME NEW c, NEW step \in CompanySteps \cup SignedSteps, Ready(c, step)
  PROVE  /\ step = "deleteSigned" => "copySigned" \notin call[c].left
         /\ step = "pointSigned" => {"copySigned", "deleteSigned"} \cap call[c].left = {}
         /\ step = "copyCompany" => "row" \notin call[c].left
         /\ "deleteSigned" \in After(step) => step = "copySigned"
         /\ "pointSigned" \in After(step) => step = "deleteSigned" \/ "deleteSigned" \in After(step)
         /\ "copyCompany" \in After(step) => step = "row"
         /\ {"copySigned", "row"} \cap After(step) = {}
BY StepsOfOnboarding DEF Ready, After, Before, CompanySteps, SignedSteps

LEMMA ReadyFinishes ==
  ASSUME DocTypes, RowsKeep, NEW c \in Calls, NEW step \in CompanySteps \cup SignedSteps,
         Ready(c, step), Finish(c, {step}) \/ Finish(c, {step} \cup After(step))
  PROVE  DOMAIN call' = Calls /\ \A d \in Calls : DocCallType(call[d])'
<1>1. call[c].op = "onboarding"
  BY DEF Ready
<1>2. CASE Finish(c, {step})
  BY <1>1, <1>2, ReadySteps, FinishTypes
<1>3. CASE Finish(c, {step} \cup After(step))
  <2> DEFINE steps == {step} \cup After(step)
  <2>1. /\ "deleteSigned" \in steps => "copySigned" \in steps \/ "copySigned" \notin call[c].left
        /\ "pointSigned" \in steps => "deleteSigned" \in steps \/ "deleteSigned" \notin call[c].left
        /\ "copyCompany" \in steps => "row" \in steps \/ "row" \notin call[c].left
    BY ReadySteps
  <2> HIDE DEF steps
  <2>2. Finish(c, steps)
    BY <1>3 DEF steps
  <2> QED BY <1>1, <2>1, <2>2, FinishTypes
<1> QED BY <1>2, <1>3

LEMMA OneFailsTypes ==
  ASSUME DocTypes, NEW c \in Calls, OneFails(c)
  PROVE  DocTypes'
<1>1. DocStore' /\ RowsKeep
  BY QuietStore DEF OneFails, unawaited, DocTypes, DocStore
<1>2. PICK step \in call[c].left : Ready(c, step) /\ Finish(c, {step} \cup After(step))
  BY DEF OneFails
<1>3. step \in CompanySteps \cup SignedSteps
  BY DocLocalType DEF DocLocals
<1> QED BY <1>1, <1>2, <1>3, ReadyFinishes DEF DocTypes

LEMMA SavedTypes ==
  ASSUME DocTypes, NEW c \in Calls, Saved(c)
  PROVE  DocTypes' /\ DocOver(c)
<1>1. DocStore' /\ RowsKeep
  BY QuietStore DEF Saved, unawaited, DocTypes, DocStore
<1> QED BY <1>1, DocEndOver, OverCallTypes DEF Saved, DocTypes

LEMMA DocFailTypes ==
  ASSUME DocTypes, NEW c \in Calls, DocFail(c)
  PROVE  DocTypes' /\ DocOver(c)
<1>1. DocStore' /\ RowsKeep
  BY QuietStore DEF DocFail, unawaited, DocTypes, DocStore
<1> QED BY <1>1, DocEndOver, OverCallTypes DEF DocFail, DocTypes

\* The rows are written, and what is not of the rows is not.
LEMMA WriteTypes ==
  ASSUME DocTypes, RowsKeep, UNCHANGED <<browser, stored, metas, raised, unawaited, names>>
  PROVE  DocStore'
<1>1. StoredTyped'
  BY LessStored
<1>2. names' \in Nat /\ names' >= names
  BY DEF DocTypes, DocStore
<1> QED BY <1>1, <1>2, StoreTypesKept DEF browser, unawaited, DocTypes, DocStore

LEMMA InsertUploadedTypes ==
  ASSUME DocTypes, NEW c \in Calls, InsertUploaded(c)
  PROVE  DocTypes' /\ DocOver(c)
<1>1. call[c].key \in FileKeys /\ call[c].by \in {0} \cup Uploads
  BY DocLocalType DEF DocLocals
<1>2. RowsKeep
  BY <1>1, InsertDoes DEF InsertUploaded, Owners
<1>3. DocStore'
  BY <1>2, WriteTypes DEF InsertUploaded
<1> QED BY <1>2, <1>3, DocEndOver, OverCallTypes DEF InsertUploaded, DocTypes

LEMMA InsertCompanyFileTypes ==
  ASSUME DocTypes, NEW c \in Calls, InsertCompanyFile(c)
  PROVE  DocTypes' /\ DocOver(c)
<1>1. call[c].key \in FileKeys
  BY DocLocalType DEF DocLocals
<1>2. RowsKeep
  BY <1>1, InsertDoes DEF InsertCompanyFile, Owners
<1>3. DocStore'
  BY <1>2, WriteTypes DEF InsertCompanyFile
<1> QED BY <1>2, <1>3, DocEndOver, OverCallTypes DEF InsertCompanyFile, DocTypes

LEMMA UpdatePointerTypes ==
  ASSUME DocTypes, NEW c \in Calls, UpdatePointer(c)
  PROVE  DocTypes' /\ DocOver(c) /\ Pointed(call[c].row, call[c].key)
<1>1. call[c].key \in FileKeys
  BY DocLocalType DEF DocLocals
<1>2. RowsKeep /\ Pointed(call[c].row, call[c].key)
  BY <1>1, PointDoes DEF UpdatePointer
<1>3. DocStore'
  BY <1>2, WriteTypes DEF UpdatePointer
<1> QED BY <1>2, <1>3, DocEndOver, OverCallTypes DEF UpdatePointer, DocTypes

LEMMA WriteBackTypes ==
  ASSUME DocTypes, NEW c \in Calls, WriteBack(c)
  PROVE  DocTypes' /\ DocOver(c) /\ Pointed(call[c].row, call[c].ptr)
<1>1. call[c].ptr \in FileKeys
  BY DocLocalType DEF DocLocals
<1>2. RowsKeep /\ Pointed(call[c].row, call[c].ptr)
  BY <1>1, PointDoes DEF WriteBack
<1>3. DocStore'
  BY <1>2, WriteTypes DEF WriteBack
<1> QED BY <1>2, <1>3, DocEndOver, OverCallTypes DEF WriteBack, DocTypes

LEMMA DropTypes ==
  ASSUME DocTypes, NEW c \in Calls, NEW op, DropRow(c, op)
  PROVE  DocTypes'
<1>1. RowsKeep
  BY DropKeeps, DropDoes DEF DropRow
<1>2. DocStore'
  BY <1>1, WriteTypes DEF DropRow
<1> QED BY <1>1, <1>2, DropDoes, OverCallTypes DEF DocTypes

LEMMA EmployeeRowTypes ==
  ASSUME DocTypes, NEW c \in Calls, RowForEmployee(c)
  PROVE  DocTypes'
<1>0. RowsKeep /\ ids' = ids + 1
  BY EmployeeRowDoes, InsertDoes, SmallKeys DEF Owners
<1>1. RowsKeep /\ ids' = ids + 1 /\ ids' \in 3 .. MaxRows
  BY <1>0, RowsAssumption DEF RowsKeep, DocTypes, DocStore
<1>2. DocStore'
  BY <1>1, WriteTypes DEF RowForEmployee
<1>3. DocCallType(call[c])
  BY DocLocalType
<1>4. Now(c, "onboarding", call[c].pc, call[c].key, ids + 1, call[c].ptr, call[c].by,
                call[c].left \ {"row"})
  BY EmployeeRowDoes
<1>5. call[c].op = "onboarding" /\ call[c].pc # "read"
  BY <1>3 DEF RowForEmployee, Ready, DocCallType, Planned
<1>6. Planned(call'[c])
  BY <1>3, <1>4, <1>5 DEF Now, Planned, DocCallType
<1>7. DocCallType(call[c])'
  BY <1>1, <1>3, <1>4, <1>5, <1>6 DEF Now, DocCallType, CompanyRow, SignedRow
<1> QED BY <1>1, <1>2, <1>4, <1>7, CallTypesKept DEF Now, DocTypes

LEMMA PointSignedTypes ==
  ASSUME DocTypes, NEW c \in Calls, PointSigned(c)
  PROVE  DocTypes' /\ Pointed(SignedRow, MovedTo(call[c].ptr))
<1>1. MovedTo(call[c].ptr) \in FileKeys
  BY DocLocalType, SmallKeys DEF DocLocals
<1>2. RowsKeep /\ Pointed(SignedRow, MovedTo(call[c].ptr))
  BY <1>1, PointDoes DEF PointSigned
<1>3. DocStore'
  BY <1>2, WriteTypes DEF PointSigned
<1> QED BY <1>2, <1>3, ReadyFinishes, StepsOfOnboarding DEF PointSigned, DocTypes

LEMMA CopyTypes ==
  ASSUME DocTypes, NEW key \in FileKeys, NEW o \in stored, CopyTo(key, o),
         UNCHANGED <<browser, fileRows, metas, unawaited, names>>
  PROVE  DocStore' /\ RowsKeep
<1>1. o[2] \in Metadata
  BY DEF DocTypes, DocStore, StoredTyped
<1>2. StoredTyped'
  BY <1>1, PutTypes DEF CopyTo
<1>3. raised' \subseteq [key : FileKeys, by : {0} \cup Uploads]
  <2>1. [key |-> key, by |-> o[2].by] \in [key : FileKeys, by : {0} \cup Uploads]
    BY <1>1 DEF Metadata
  <2> QED BY <2>1 DEF CopyTo, DocTypes, DocStore
<1>4. RowsKeep
  BY SameRows
<1> QED BY <1>2, <1>3, <1>4, StoreTypesKept DEF browser, unawaited, DocTypes, DocStore

LEMMA CopyStepTypes ==
  ASSUME DocTypes, NEW c \in Calls, NEW step \in CompanySteps \cup SignedSteps, NEW from,
         NEW to \in FileKeys, CopyStep(c, step, from, to)
  PROVE  DocTypes'
<1>1. CASE \E o \in Object(from) : CopyTo(to, o) /\ Finish(c, {step})
  <2> PICK o \in Object(from) : CopyTo(to, o) /\ Finish(c, {step})
    BY <1>1
  <2>1. DocStore' /\ RowsKeep
    BY CopyTypes, ObjectKeys DEF CopyStep
  <2> QED BY <2>1, ReadyFinishes DEF CopyStep, DocTypes
<1>2. CASE Finish(c, {step} \cup After(step)) /\ UNCHANGED <<stored, raised>>
  <2>1. RowsKeep
    BY SameRows DEF CopyStep
  <2>2. DocStore'
    BY <1>2, <2>1, WriteTypes DEF CopyStep
  <2> QED BY <1>2, <2>1, <2>2, ReadyFinishes DEF CopyStep, DocTypes
<1> QED BY <1>1, <1>2 DEF CopyStep

LEMMA CopyCompanyTypes ==
  ASSUME DocTypes, NEW c \in Calls, CopyCompany(c)
  PROVE  DocTypes'
BY SmallKeys, StepsOfOnboarding, CopyStepTypes DEF CopyCompany

LEMMA CopySignedTypes ==
  ASSUME DocTypes, NEW c \in Calls, CopySigned(c)
  PROVE  DocTypes'
<1>1. MovedTo(call[c].ptr) \in FileKeys
  BY DocLocalType, SmallKeys DEF DocLocals
<1> QED BY <1>1, StepsOfOnboarding, CopyStepTypes DEF CopySigned

LEMMA DeleteSignedTypes ==
  ASSUME DocTypes, NEW c \in Calls, DeleteSigned(c)
  PROVE  DocTypes'
<1>1. stored' \subseteq stored /\ Ready(c, "deleteSigned") /\ Finish(c, {"deleteSigned"})
  BY DEF DeleteSigned
<1>2. RowsKeep
  BY SameRows DEF DeleteSigned
<1>3. DocStore'
  BY <1>1, <1>2, LessStored, StoreTypesKept
     DEF DeleteSigned, browser, unawaited, DocTypes, DocStore
<1> QED BY <1>1, <1>2, <1>3, ReadyFinishes, StepsOfOnboarding DEF DocTypes

\* Steps of no call: the calls are as they were.
LEMMA SameCallTypes ==
  ASSUME DocTypes, RowsKeep, UNCHANGED call
  PROVE  DOMAIN call' = Calls /\ \A d \in Calls : DocCallType(call[d])'
<1>1. ASSUME NEW d \in Calls PROVE DocCallType(call[d])'
  <2> PICK l : l = call[d]
    OBVIOUS
  <2>1. call'[d] = l /\ DocCallType(l)
    BY DEF DocTypes
  <2>2. DocCallType(l)'
    BY <2>1, CallTypeKept
  <2> QED BY <2>1, <2>2 DEF DocCallType
<1> QED BY <1>1 DEF DocTypes

LEMMA LandTypes ==
  ASSUME DocTypes, ObjectLands \/ ObjectLost \/ RemovalLands
  PROVE  DocTypes'
<1>1. RowsKeep
  BY SameRows DEF ObjectLands, ObjectLost, RemovalLands
<1>2. StoredTyped' /\ uploads' \subseteq FileKeys /\ removals' \subseteq FileKeys
  <2>1. CASE ObjectLands
    <3> PICK key \in uploads : Put(key, Silent) /\ uploads' = uploads \ {key}
      BY <2>1 DEF ObjectLands
    <3>1. key \in FileKeys /\ Silent \in Metadata
      BY RowsAssumption DEF DocTypes, DocStore, Silent, Metadata, Owners
    <3> QED BY <2>1, <3>1, PutTypes DEF ObjectLands, DocTypes, DocStore
  <2>2. CASE ObjectLost \/ RemovalLands
    <3>1. stored' \subseteq stored /\ uploads' \subseteq uploads /\ removals' \subseteq removals
      BY <2>2 DEF ObjectLost, RemovalLands
    <3> QED BY <3>1, LessStored DEF DocTypes, DocStore
  <2> QED BY <2>1, <2>2
<1>3. DocStore'
  BY <1>1, <1>2, StoreTypesKept
     DEF ObjectLands, ObjectLost, RemovalLands, browser, DocTypes, DocStore
<1>4. UNCHANGED call
  BY DEF ObjectLands, ObjectLost, RemovalLands
<1> QED BY <1>1, <1>3, <1>4, SameCallTypes DEF DocTypes

LEMMA PatchTypes ==
  ASSUME DocTypes, PatchCopies
  PROVE  DocTypes'
<1> PICK o \in stored : CopyTo(PatchedTo(o[1]), o)
  BY DEF PatchCopies
<1>1. PatchedTo(o[1]) \in FileKeys
  BY SmallKeys DEF DocTypes, DocStore, StoredTyped
<1>2. DocStore' /\ RowsKeep
  BY <1>1, CopyTypes DEF PatchCopies
<1> QED BY <1>2, SameCallTypes DEF PatchCopies, DocTypes

\* The key of a URL, and what it says.
LEMMA UrlGiven ==
  ASSUME DocTypes, GenerateUrl
  PROVE  \E u \in Uploads, new \in Urls :
            /\ url[u] = None /\ url'[u] = new /\ new # None
            /\ DOMAIN url' = Uploads /\ \A v \in Uploads \ {u} : url'[v] = url[v]
            /\ new.key = FileKey(new.key[1]) /\ new.row <= ids
            /\ new.row # 0 => \A r \in Row(new.row) : (r.owner = "company") = (new.owner = "company")
            /\ new.key[1] = 1 \/ new.key[1] = names + 1
            /\ new.key[1] \in 1 .. names' /\ names' \in names .. names + 1
            /\ happened \subseteq happened'
            /\ (\E v \in Uploads : url[v] # None /\ url[v].key = new.key) =>
                  <<"sameKey", new.key>> \in happened'
<1> PICK u \in Uploads, owner \in {"employee", "company"}, row \in {0} \cup {r.id : r \in rows} :
           LET key == IF owner = "employee" THEN KeyFor(SameName) ELSE FreshKey
           IN  /\ url[u] = None
               /\ row # 0 => \E r \in Row(row) : (r.owner = "company") = (owner = "company")
               /\ url' = [url EXCEPT ![u] = [key |-> key, owner |-> owner, row |-> row]]
               /\ Given(key)
               /\ IF \E v \in Uploads : url[v] # None /\ url[v].key = key
                  THEN Note("sameKey", {key}) ELSE UNCHANGED happened
  BY DEF GenerateUrl
<1> DEFINE key == IF owner = "employee" THEN KeyFor(SameName) ELSE FreshKey
           new == [key |-> key, owner |-> owner, row |-> row]
<1>1. key = FileKey(1) \/ key = FileKey(names + 1)
  BY DEF KeyFor, FreshKey, SameName
<1>2. names \in Nat \ {0}
  BY DEF DocTypes, DocStore
<1>3. key \in FileKeys /\ key = FileKey(key[1]) /\ (key[1] = 1 \/ key[1] = names + 1)
  BY <1>1, <1>2 DEF FileKey, FileKeys
<1>4. row \in 0 .. MaxRows /\ row <= ids
  BY RowsAssumption DEF DocTypes, DocStore, RowsTyped, FileRecords
<1>5. /\ url[u] = None /\ url' = [url EXCEPT ![u] = new] /\ Given(key)
      /\ row # 0 => \E r \in Row(row) : (r.owner = "company") = (owner = "company")
  OBVIOUS
<1>6. /\ happened \subseteq happened'
      /\ (\E v \in Uploads : url[v] # None /\ url[v].key = key) => <<"sameKey", key>> \in happened'
  <2>1. CASE \E v \in Uploads : url[v] # None /\ url[v].key = key
    <3>1. Note("sameKey", {key})
      BY <2>1
    <3> QED BY <3>1 DEF Note
  <2>2. CASE ~ \E v \in Uploads : url[v] # None /\ url[v].key = key
    <3>1. UNCHANGED happened
      BY <2>2
    <3> QED BY <2>2, <3>1
  <2> QED BY <2>1, <2>2
<1> HIDE DEF key
<1>7. new \in Urls /\ new.key = key /\ new.row = row /\ new.owner = owner
  BY <1>3, <1>4 DEF Urls
<1>8. new # None
  BY <1>7, DocNoneAssumption
<1>9. \A r, s \in Row(row) : r = s
  BY DEF Row, DocTypes, DocStore, RowsTyped
<1>10. DOMAIN url = Uploads
  BY DEF DocTypes, DocStore
<1>11. key[1] \in 1 .. names' /\ names' \in names .. names + 1
  BY <1>2, <1>3, <1>5 DEF Given
<1> HIDE DEF new
<1>12. /\ url'[u] = new /\ DOMAIN url' = Uploads /\ \A v \in Uploads \ {u} : url'[v] = url[v]
  BY <1>5, <1>10
<1>13. new.row # 0 => \A r \in Row(new.row) : (r.owner = "company") = (new.owner = "company")
  BY <1>5, <1>7, <1>9
<1>14. /\ new.key = FileKey(new.key[1]) /\ new.row <= ids
       /\ new.key[1] = 1 \/ new.key[1] = names + 1
       /\ new.key[1] \in 1 .. names' /\ names' \in names .. names + 1
       /\ happened \subseteq happened'
       /\ (\E v \in Uploads : url[v] # None /\ url[v].key = new.key) =>
             <<"sameKey", new.key>> \in happened'
  BY <1>3, <1>4, <1>6, <1>7, <1>11
<1>15. url[u] = None
  BY <1>5
<1> QED BY <1>7, <1>8, <1>12, <1>13, <1>14, <1>15, Zenon

LEMMA GenerateTypes ==
  ASSUME DocTypes, GenerateUrl
  PROVE  DocTypes'
<1> PICK u \in Uploads, new \in Urls :
            /\ url[u] = None /\ url'[u] = new /\ new # None
            /\ DOMAIN url' = Uploads /\ \A v \in Uploads \ {u} : url'[v] = url[v]
            /\ new.key = FileKey(new.key[1]) /\ new.row <= ids
            /\ new.row # 0 => \A r \in Row(new.row) : (r.owner = "company") = (new.owner = "company")
            /\ new.key[1] = 1 \/ new.key[1] = names + 1
            /\ new.key[1] \in 1 .. names' /\ names' \in names .. names + 1
  BY UrlGiven
<1>0. names \in Nat \ {0, 1, 2} /\ names' \in Nat \ {0, 1, 2}
  BY DEF DocTypes, DocStore
<1>1. RowsKeep /\ UNCHANGED <<used, latest, stored, rows, ids, metas, raised, uploads, removals, call>>
  BY SameRows DEF GenerateUrl, fileRows, unawaited
<1>2. \A v \in Uploads : UrlType(v)'
  <2>1. UrlType(u)'
    BY <1>0, <1>1 DEF UrlType, Row
  <2>2. ASSUME NEW v \in Uploads \ {u} PROVE UrlType(v)'
    <3>1. UrlType(v)
      BY DEF DocTypes, DocStore
    <3> QED BY <1>0, <1>1, <3>1 DEF UrlType, Row
  <2> QED BY <2>1, <2>2
<1>3. \A i \in 1 .. MaxRows : latest[i] # 0 => latest[i] # u /\ latest[i] \in Uploads
  BY DEF DocTypes, DocStore
<1>4. DocStore'
  <2>1. used' \subseteq {v \in Uploads : url'[v] # None}
    BY <1>1 DEF DocTypes, DocStore
  <2>2. \A i \in 1 .. MaxRows : latest'[i] # 0 => latest'[i] \in used' /\ url'[latest'[i]].row = i
    BY <1>1, <1>3 DEF DocTypes, DocStore
  <2>3. StoredTyped' /\ RowsTyped'
    BY <1>1 DEF DocTypes, DocStore, StoredTyped, RowsTyped
  <2> QED BY <1>0, <1>1, <1>2, <2>1, <2>2, <2>3 DEF DocTypes, DocStore
<1> QED BY <1>1, <1>4, SameCallTypes DEF DocTypes

LEMMA PutDoes ==
  ASSUME DocTypes, PutObject
  PROVE  \E u \in Uploads \ used :
            /\ url[u] \in Urls /\ url[u] # None
            /\ used' = used \cup {u}
            /\ [owner |-> url[u].owner, row |-> url[u].row, by |-> u] \in Metadata
            /\ Put(url[u].key, [owner |-> url[u].owner, row |-> url[u].row, by |-> u])
            /\ raised' = raised \cup {[key |-> url[u].key, by |-> u]}
            /\ DOMAIN latest' = DOMAIN latest
            /\ \A i \in 1 .. MaxRows : latest'[i] = IF url[u].row = i THEN u ELSE latest[i]
            /\ happened \subseteq happened'
            /\ url[u].row # 0 /\ url[u].row \in Busy \cup Expected =>
                  <<"reordered", url[u].row>> \in happened'
<1> PICK u \in Uploads \ used :
           LET to == url[u] IN
           /\ to # None
           /\ used' = used \cup {u}
           /\ Put(to.key, [owner |-> to.owner, row |-> to.row, by |-> u])
           /\ raised' = raised \cup {[key |-> to.key, by |-> u]}
           /\ IF to.row = 0 THEN UNCHANGED <<latest, happened>>
              ELSE /\ latest' = [latest EXCEPT ![to.row] = u]
                   /\ IF to.row \in Busy \cup Expected
                      THEN Note("reordered", {to.row}) ELSE UNCHANGED happened
  BY DEF PutObject
<1>1. url[u] # None /\ url[u] \in Urls
  BY DEF DocTypes, DocStore, UrlType
<1>2. [owner |-> url[u].owner, row |-> url[u].row, by |-> u] \in Metadata
  BY <1>1 DEF Urls, Metadata, Owners
<1>3. DOMAIN latest = 1 .. MaxRows /\ url[u].row \in 0 .. MaxRows
  BY <1>1 DEF DocTypes, DocStore, Urls
<1>4. CASE url[u].row = 0
  <2>1. UNCHANGED <<latest, happened>>
    BY <1>4
  <2> QED BY <1>1, <1>2, <1>3, <1>4, <2>1, RowsAssumption
<1>5. CASE url[u].row # 0
  <2>1. /\ latest' = [latest EXCEPT ![url[u].row] = u]
        /\ IF url[u].row \in Busy \cup Expected
           THEN Note("reordered", {url[u].row}) ELSE UNCHANGED happened
    BY <1>5
  <2>2. \A i \in 1 .. MaxRows : latest'[i] = IF url[u].row = i THEN u ELSE latest[i]
    BY <1>3, <2>1
  <2>3. DOMAIN latest' = DOMAIN latest
    BY <2>1
  <2>4. happened \subseteq happened'
    BY <2>1 DEF Note
  <2>5. url[u].row \in Busy \cup Expected => <<"reordered", url[u].row>> \in happened'
    BY <2>1 DEF Note
  <2> HIDE <2>1
  <2> QED BY <1>1, <1>2, <2>2, <2>3, <2>4, <2>5
<1> QED BY <1>4, <1>5

LEMMA PutObjectTypes ==
  ASSUME DocTypes, PutObject
  PROVE  DocTypes'
<1> PICK u \in Uploads \ used :
            /\ url[u] \in Urls /\ url[u] # None
            /\ used' = used \cup {u}
            /\ [owner |-> url[u].owner, row |-> url[u].row, by |-> u] \in Metadata
            /\ Put(url[u].key, [owner |-> url[u].owner, row |-> url[u].row, by |-> u])
            /\ raised' = raised \cup {[key |-> url[u].key, by |-> u]}
            /\ DOMAIN latest' = DOMAIN latest
            /\ \A i \in 1 .. MaxRows : latest'[i] = IF url[u].row = i THEN u ELSE latest[i]
  BY PutDoes
<1>1. RowsKeep /\ UNCHANGED <<url, rows, ids, metas, uploads, removals, call, names>>
  BY SameRows DEF PutObject, fileRows, unawaited
<1>2. url[u].key \in FileKeys
  BY DEF Urls
<1>3. StoredTyped'
  BY <1>2, PutTypes
<1>4. raised' \subseteq [key : FileKeys, by : {0} \cup Uploads]
  BY <1>2 DEF DocTypes, DocStore
<1>5. \A v \in Uploads : UrlType(v)'
  BY <1>1 DEF DocTypes, DocStore, UrlType, Row
<1>6. \A i \in 1 .. MaxRows : latest'[i] # 0 => latest'[i] \in used' /\ url'[latest'[i]].row = i
  BY <1>1 DEF DocTypes, DocStore
<1>7. DocStore'
  BY <1>1, <1>3, <1>4, <1>5, <1>6 DEF DocTypes, DocStore, RowsTyped
<1> QED BY <1>1, <1>7, SameCallTypes DEF DocTypes

LEMMA ReplaceFileTypes ==
  ASSUME DocTypes, NEW c \in Calls, ReplaceFile(c)
  PROVE  DocTypes'
<1> PICK k \in FileKeys : Replaced(c, k)
  BY ReplaceFileDoes
<1>1. RowsKeep /\ call[c].ptr \in FileKeys
  BY SameRows, DocLocalType DEF ReplaceFile, DocLocals
<1>2. names' \in Nat /\ names' >= names
  BY FreshType, KeyForType DEF Replaced, Given, DocTypes, DocStore, FileKey
<1>3. uploads' = uploads \cup {k} /\ removals' = removals \cup {call[c].ptr}
  BY Zenon DEF Replaced, ReplaceFile
<1>4. UNCHANGED <<browser, stored, fileRows, metas, raised, trouble>>
  BY Zenon DEF ReplaceFile
<1>5. DocStore'
  BY <1>1, <1>2, <1>3, <1>4, LessStored, StoreTypesKept DEF browser, fileRows, DocTypes, DocStore
<1>6. DocCallType(call[c]) /\ call[c].op = "replace"
  BY DocLocalType DEF ReplaceFile, At
<1>7. rows' = rows /\ ids' = ids
  BY <1>4 DEF fileRows
<1>8. DocCallType(call[c])'
  BY <1>6, <1>7 DEF Replaced, Now, DocCallType, DocPlaces, Planned, Row
<1> QED BY <1>1, <1>5, <1>8, CallTypesKept DEF Replaced, Now, DocTypes

LEMMA ChooseKeyTypes ==
  ASSUME DocTypes, NEW c \in Calls, ChooseKey(c)
  PROVE  DocTypes'
<1>1. RowsKeep /\ KeyFor(CompanyName) \in FileKeys
  BY SameRows, KeyForType DEF ChooseKey
<1>2. names' \in Nat /\ names' >= names
  BY KeyForType DEF ChooseKey, Given, DocTypes, DocStore, FileKey
<1>3. DocStore'
  BY <1>1, <1>2, LessStored, StoreTypesKept DEF ChooseKey, browser, DocTypes, DocStore
<1>5. 0 <= ids'
  BY <1>3 DEF DocStore
<1>6. DocCallType(call[c])'
  BY <1>5, ChooseKeyDoes DEF Now, DocCallType, DocPlaces, Planned
<1> QED BY <1>1, <1>3, <1>6, ChooseKeyDoes, CallTypesKept DEF Now, DocTypes

LEMMA DocTypesKept ==
  ASSUME DocTypes, OriginInv, DocNext
  PROVE  DocTypes'
<1>1. CASE GenerateUrl \/ PutObject \/ ObjectLands \/ ObjectLost \/ RemovalLands \/ PatchCopies
  BY <1>1, GenerateTypes, PutObjectTypes, LandTypes, PatchTypes
<1>2. ASSUME NEW c \in Calls, DocCallStep(c) PROVE DocTypes'
  <2>1. CASE Deliver(c) \/ HeadObject(c) \/ CreateEsignatureMetadata(c) \/ InsertUploaded(c)
    BY <2>1, DeliverTypes, HeadTypes, MetaTypes, InsertUploadedTypes
  <2>2. CASE LoadCurrent(c) \/ UpdatePointer(c) \/ Request(c) \/ ReadForEdit(c) \/ WriteBack(c)
    BY <2>2, LoadCurrentTypes, UpdatePointerTypes, RequestTypes, ReadForEditTypes, WriteBackTypes
  <2>3. CASE \/ ReadForReplace(c) \/ ReplaceFile(c)
             \/ DeleteCompanyDocument(c) \/ DeleteCompanyDocumentRecord(c)
             \/ DeleteEmployeeDocument(c) \/ DeleteEmployeeDocumentRecord(c)
    BY <2>3, ReadForReplaceTypes, ReplaceFileTypes, LoadForDeleteTypes, DropTypes
       DEF DeleteCompanyDocument, DeleteCompanyDocumentRecord, DeleteEmployeeDocument,
           DeleteEmployeeDocumentRecord, At
  <2>4. CASE \/ CreateCompanyDocument(c) \/ ChooseKey(c) \/ InsertMetadata(c) \/ InsertCompanyFile(c)
             \/ SaveOnboarding(c) \/ ListTaskList(c) \/ ListSigned(c) \/ RowForEmployee(c)
    BY <2>4, CreationTypes, ChooseKeyTypes, InsertMetadataTypes, InsertCompanyFileTypes,
       SaveOnboardingTypes, ListTaskTypes, ListSignedTypes, EmployeeRowTypes
  <2>5. CASE \/ CopyCompany(c) \/ CopySigned(c) \/ DeleteSigned(c) \/ PointSigned(c) \/ OneFails(c)
             \/ Saved(c) \/ DocFail(c)
    BY <2>5, CopyCompanyTypes, CopySignedTypes, DeleteSignedTypes, PointSignedTypes,
       OneFailsTypes, SavedTypes, DocFailTypes
  <2> QED BY <1>2, <2>1, <2>2, <2>3, <2>4, <2>5 DEF DocCallStep
<1> QED BY <1>1, <1>2 DEF DocNext
-----------------------------------------------------------------------------
(* What is known stays known.                                              *)

Later ==
  /\ happened \subseteq happened' /\ used \subseteq used'
  /\ names' \in Nat /\ names <= names'
  /\ \A u \in Uploads : url[u] # None => url'[u] = url[u]
  /\ \A u \in Uploads : url[u] = None /\ url'[u] # None =>
       /\ url'[u].key = FileKey(url'[u].key[1])
       /\ url'[u].key[1] = 1 \/ url'[u].key[1] = names + 1

LEMMA SameUrls ==
  ASSUME DocTypes, happened \subseteq happened', used \subseteq used', UNCHANGED url,
         names' \in Nat, names <= names'
  PROVE  Later
BY DEF Later

LEMMA NamesNat == ASSUME DocTypes PROVE names \in Nat \ {0, 1, 2}
BY DEF DocTypes, DocStore

LEMMA CallLater ==
  ASSUME DocTypes, NEW c \in Calls, DocCallStep(c)
  PROVE  Later /\ UNCHANGED browser
<1>1. UNCHANGED browser
  <2>1. CASE Deliver(c) \/ HeadObject(c) \/ CreateEsignatureMetadata(c) \/ InsertUploaded(c)
             \/ LoadCurrent(c) \/ UpdatePointer(c) \/ Request(c) \/ ReadForEdit(c) \/ WriteBack(c)
    BY <2>1, Zenon DEF Deliver, HeadObject, CreateEsignatureMetadata, InsertUploaded, LoadCurrent, UpdatePointer,
       Request, ReadForEdit, WriteBack
  <2>2. CASE \/ ReadForReplace(c) \/ ReplaceFile(c)
             \/ DeleteCompanyDocument(c) \/ DeleteCompanyDocumentRecord(c)
             \/ DeleteEmployeeDocument(c) \/ DeleteEmployeeDocumentRecord(c)
             \/ CreateCompanyDocument(c) \/ ChooseKey(c) \/ InsertMetadata(c) \/ InsertCompanyFile(c)
             \/ SaveOnboarding(c) \/ ListTaskList(c) \/ ListSigned(c) \/ RowForEmployee(c)
    BY <2>2, Zenon DEF ReadForReplace, ReplaceFile, DeleteCompanyDocument, DeleteCompanyDocumentRecord,
       DeleteEmployeeDocument, DeleteEmployeeDocumentRecord, LoadForDelete, DropRow,
       CreateCompanyDocument, ChooseKey, InsertMetadata, InsertCompanyFile, SaveOnboarding,
       ListTaskList, ListSigned, RowForEmployee
  <2>3. CASE \/ CopyCompany(c) \/ CopySigned(c) \/ DeleteSigned(c) \/ PointSigned(c) \/ OneFails(c)
             \/ Saved(c) \/ DocFail(c)
    BY <2>3, Zenon DEF CopyCompany, CopySigned, CopyStep, DeleteSigned, PointSigned, OneFails, Saved, DocFail
  <2> QED BY <2>1, <2>2, <2>3 DEF DocCallStep
<1>2. happened \subseteq happened'
  <2>1. CASE Deliver(c) \/ HeadObject(c)
    BY <2>1, DeliverDoes, HeadDoes
  <2>2. CASE Request(c) \/ CreateCompanyDocument(c) \/ SaveOnboarding(c)
    BY <2>2, RequestDoes, CreationDoes, SaveOnboardingDoes DEF DocBeside
  <2>3. CASE ReplaceFile(c) \/ ChooseKey(c) \/ RowForEmployee(c) \/ OneFails(c)
    <3>1. \A e, k : Note(e, k) => happened \subseteq happened'
      BY DEF Note
    <3> HIDE DEF Note
    <3>2. \/ UNCHANGED happened
          \/ \E e, k : Note(e, k)
      BY <2>3, Zenon DEF ReplaceFile, ChooseKey, RowForEmployee, OneFails
    <3> QED BY <3>1, <3>2
  <2>4. CASE CopyCompany(c) \/ CopySigned(c)
    BY <2>4 DEF CopyCompany, CopySigned, CopyStep, Note
  <2>5. CASE DocFail(c)
    BY <2>5 DEF DocFail
  <2>6. CASE \/ CreateEsignatureMetadata(c) \/ InsertUploaded(c)
             \/ LoadCurrent(c) \/ UpdatePointer(c) \/ ReadForEdit(c) \/ WriteBack(c)
             \/ ReadForReplace(c)
    BY <2>6, Zenon DEF CreateEsignatureMetadata, InsertUploaded, LoadCurrent, UpdatePointer,
       ReadForEdit, WriteBack, ReadForReplace
  <2>7. CASE \/ DeleteCompanyDocument(c) \/ DeleteCompanyDocumentRecord(c)
             \/ DeleteEmployeeDocument(c) \/ DeleteEmployeeDocumentRecord(c)
             \/ InsertMetadata(c) \/ InsertCompanyFile(c)
             \/ ListTaskList(c) \/ ListSigned(c) \/ DeleteSigned(c) \/ PointSigned(c) \/ Saved(c)
    BY <2>7, Zenon DEF DeleteCompanyDocument, DeleteCompanyDocumentRecord,
       DeleteEmployeeDocument, DeleteEmployeeDocumentRecord, LoadForDelete, DropRow,
       InsertMetadata, InsertCompanyFile, ListTaskList, ListSigned, DeleteSigned, PointSigned, Saved
  <2> QED BY <2>1, <2>2, <2>3, <2>4, <2>5, <2>6, <2>7 DEF DocCallStep
<1>3. names' = names \/ Given(FreshKey) \/ Given(KeyFor(CompanyName))
  <2>1. CASE ReplaceFile(c) \/ ChooseKey(c)
    BY <2>1, Zenon DEF ReplaceFile, ChooseKey
  <2>2. CASE Deliver(c) \/ HeadObject(c) \/ CreateEsignatureMetadata(c) \/ InsertUploaded(c)
             \/ LoadCurrent(c) \/ UpdatePointer(c) \/ Request(c) \/ ReadForEdit(c) \/ WriteBack(c)
    BY <2>2, Zenon DEF Deliver, HeadObject, CreateEsignatureMetadata, InsertUploaded, LoadCurrent, UpdatePointer,
       Request, ReadForEdit, WriteBack
  <2>3. CASE \/ ReadForReplace(c)
             \/ DeleteCompanyDocument(c) \/ DeleteCompanyDocumentRecord(c)
             \/ DeleteEmployeeDocument(c) \/ DeleteEmployeeDocumentRecord(c)
             \/ CreateCompanyDocument(c) \/ InsertMetadata(c) \/ InsertCompanyFile(c)
             \/ SaveOnboarding(c) \/ ListTaskList(c) \/ ListSigned(c) \/ RowForEmployee(c)
    BY <2>3, Zenon DEF ReadForReplace, DeleteCompanyDocument, DeleteCompanyDocumentRecord,
       DeleteEmployeeDocument, DeleteEmployeeDocumentRecord, LoadForDelete, DropRow,
       CreateCompanyDocument, InsertMetadata, InsertCompanyFile, SaveOnboarding,
       ListTaskList, ListSigned, RowForEmployee
  <2>4. CASE \/ CopyCompany(c) \/ CopySigned(c) \/ DeleteSigned(c) \/ PointSigned(c) \/ OneFails(c)
             \/ Saved(c) \/ DocFail(c)
    BY <2>4, Zenon DEF CopyCompany, CopySigned, CopyStep, DeleteSigned, PointSigned, OneFails, Saved, DocFail
  <2> QED BY <2>1, <2>2, <2>3, <2>4 DEF DocCallStep
<1>4. names' \in Nat /\ names <= names'
  <2>1. Given(FreshKey) => names' \in Nat /\ names <= names'
    BY FreshType, NamesNat DEF Given
  <2>2. Given(KeyFor(CompanyName)) => names' \in Nat /\ names <= names'
    BY KeyForType, NamesNat DEF Given, FileKey
  <2> QED BY <1>3, <2>1, <2>2, NamesNat
<1> QED BY <1>1, <1>2, <1>4, SameUrls DEF browser

LEMMA BesidesLater ==
  ASSUME DocTypes, GenerateUrl \/ PutObject \/ ObjectLands \/ ObjectLost \/ RemovalLands \/ PatchCopies
  PROVE  Later
<1>1. CASE GenerateUrl
  <2> PICK u \in Uploads, new \in Urls :
            /\ url[u] = None /\ url'[u] = new /\ new # None
            /\ DOMAIN url' = Uploads /\ \A v \in Uploads \ {u} : url'[v] = url[v]
            /\ new.key = FileKey(new.key[1])
            /\ new.key[1] = 1 \/ new.key[1] = names + 1
            /\ names' \in names .. names + 1
            /\ happened \subseteq happened'
    BY <1>1, UrlGiven
  <2>1. used' = used
    BY <1>1 DEF GenerateUrl
  <2> QED BY <2>1, NamesNat DEF Later
<1>2. CASE PutObject
  <2>1. UNCHANGED url /\ UNCHANGED names
    BY <1>2, Zenon DEF PutObject
  <2>2. used \subseteq used' /\ happened \subseteq happened'
    BY <1>2, PutDoes
  <2> QED BY <2>1, <2>2, SameUrls, NamesNat
<1>3. CASE ObjectLands \/ RemovalLands
  BY <1>3, SameUrls, NamesNat DEF ObjectLands, RemovalLands, browser
<1>4. CASE ObjectLost
  BY <1>4, SameUrls, NamesNat DEF ObjectLost, browser, Note
<1>5. CASE PatchCopies
  BY <1>5, SameUrls, NamesNat DEF PatchCopies, browser
<1> QED BY <1>1, <1>2, <1>3, <1>4, <1>5

LEMMA IsUrlKept ==
  ASSUME DocTypes, Later, NEW n, IsUrl(n)
  PROVE  IsUrl(n)'
BY DEF IsUrl, Later

LEMMA UrlNames ==
  ASSUME DocTypes, NEW n, IsUrl(n)
  PROVE  n \in (1 .. names) \ {2, 3}
BY DEF IsUrl, DocTypes, DocStore, UrlType

LEMMA UrlStays ==
  ASSUME DocTypes, Later, NEW u \in used
  PROVE  u \in Uploads /\ u \in used' /\ url[u] # None /\ url'[u] = url[u]
BY DEF DocTypes, DocStore, Later

LEMMA ServiceKept ==
  ASSUME DocTypes, Later, NEW k, Service(k)
  PROVE  Service(k)'
<1>1. k \in FileKeys /\ k[1] <= names /\ k[1] # 1 /\ ~ IsUrl(k[1]) /\ k[1] \in Nat
  BY DEF Service, FileKeys
<1>2. names \in Nat /\ names' \in Nat /\ names <= names'
  BY NamesNat DEF Later
<1>3. ~ IsUrl(k[1])'
  <2> SUFFICES ASSUME NEW u \in Uploads, url'[u] # None, url'[u].key[1] = k[1] PROVE FALSE
    BY DEF IsUrl
  <2>1. CASE url[u] = None
    BY <1>1, <1>2, <2>1 DEF Later
  <2>2. CASE url[u] # None
    BY <1>1, <2>2 DEF Later, IsUrl
  <2> QED BY <2>1, <2>2
<1> QED BY <1>1, <1>2, <1>3 DEF Service

LEMMA PlainKept ==
  ASSUME DocTypes, Later, NEW k, Plain(k)
  PROVE  Plain(k)'
BY ServiceKept DEF Plain

LEMMA IntroKept ==
  ASSUME DocTypes, Later, NEW k, Intro(k)
  PROVE  Intro(k)'
<1>1. IsUrl(k[1])'
  BY IsUrlKept DEF Intro
<1>2. (\E u \in used : url[u].key = k) => \E u \in used' : url'[u].key = k
  BY UrlStays
<1>3. \A e : Had(e, k) => Had(e, k)'
  BY DEF Had, Later
<1> QED BY <1>1, <1>2, <1>3 DEF Intro

LEMMA KnownKept ==
  ASSUME DocTypes, Later, NEW k, Known(k)
  PROVE  Known(k)'
BY ServiceKept, IntroKept DEF Known

LEMMA OriginKept ==
  ASSUME DocTypes, Later, NEW k, NEW owner, NEW r, NEW u, Origin(k, owner, r, u)
  PROVE  Origin(k, owner, r, u)'
<1>1. CASE Service(k) /\ owner # "employee" /\ r = 0 /\ u = 0
  BY <1>1, ServiceKept DEF Origin
<1>2. CASE /\ Intro(k) /\ u \in used
           /\ url[u].key[1] = k[1] /\ owner = url[u].owner /\ r = url[u].row
           /\ AtHome(u, k)
  <2>1. Intro(k)' /\ u \in used' /\ url'[u] = url[u]
    BY <1>2, IntroKept, UrlStays
  <2>2. AtHome(u, k)'
    BY <1>2, <2>1 DEF AtHome, Had, Later
  <2> QED BY <1>2, <2>1, <2>2 DEF Origin
<1> QED BY <1>1, <1>2 DEF Origin

LEMMA SameNames ==
  ASSUME NEW k \in FileKeys
  PROVE  /\ k[2] = 0 /\ k[3] = 0 => k = FileKey(k[1])
         /\ FileKey(k[1])[1] = k[1] /\ FileKey(k[1])[2] = 0 /\ FileKey(k[1])[3] = 0
         /\ MovedTo(k)[1] = k[1] /\ MovedTo(k)[2] = k[2] + 1 /\ MovedTo(k)[3] = k[3]
         /\ PatchedTo(k)[1] = k[1] /\ PatchedTo(k)[2] = k[2] /\ PatchedTo(k)[3] = k[3] + 1
         /\ k[1] \in Nat /\ k[2] \in Nat /\ k[3] \in Nat
BY DEF FileKeys, FileKey, MovedTo, PatchedTo

LEMMA UrlIsPlain ==
  ASSUME DocTypes, NEW u \in Uploads, url[u] # None
  PROVE  /\ url[u].key \in FileKeys /\ url[u].key = FileKey(url[u].key[1])
         /\ url[u].key[2] = 0 /\ url[u].key[3] = 0
         /\ url[u].key[1] \in (1 .. names) \ {2, 3}
         /\ url[u].row \in 0 .. MaxRows /\ url[u].row <= ids
         /\ url[u].owner \in {"employee", "company"}
BY SameNames DEF DocTypes, DocStore, UrlType, Urls

\* A key that is that of a URL was used, when it is one of an upload.
LEMMA PointerLasts ==
  ASSUME DocTypes, DocTypes', Later, UrlsApart', NEW x, NEW k, Pointer(x, k)
  PROVE  Pointer(x, k)'
<1>1. Known(k)' /\ (x = CompanyRow => Service(k)')
  BY KnownKept, ServiceKept DEF Pointer
<1>2. ASSUME x = SignedRow
      PROVE  /\ k[1] = 3 \/ Intro(k)'
             /\ \A u \in Uploads :
                  url'[u] # None /\ url'[u].key = k /\ url'[u].row # SignedRow => Had("sameKey", k)'
  <2>1. k[1] = 3 \/ Intro(k)'
    BY <1>2, IntroKept DEF Pointer
  <2>2. ASSUME NEW u \in Uploads, url'[u] # None, url'[u].key = k, url'[u].row # SignedRow
        PROVE  Had("sameKey", k)'
    <3>1. CASE url[u] # None
      BY <1>2, <2>2, <3>1 DEF Later, Pointer, Had
    <3>2. CASE url[u] = None
      <4>1. k[2] = 0 /\ k[3] = 0 /\ (k[1] = 1 \/ k[1] = names + 1)
        BY <2>2, <3>2, SameNames, NamesNat DEF Later, FileKey
      <4>2. k[1] # 3
        BY <4>1, NamesNat
      <4>3. Intro(k)
        BY <1>2, <4>2 DEF Pointer
      <4>4. PICK v \in used : url[v].key = k
        BY <4>1, <4>3 DEF Intro
      <4>5. v \in Uploads /\ v # u /\ url'[v] # None /\ url'[v].key = k
        BY <3>2, <4>4, UrlStays
      <4> QED BY <2>2, <4>5 DEF UrlsApart
    <3> QED BY <3>1, <3>2
  <2> QED BY <2>1, <2>2
<1> QED BY <1>1, <1>2 DEF Pointer

LEMMA EventOriginKept ==
  ASSUME DocTypes, Later, NEW e \in raised, EventOrigin(e)
  PROVE  EventOrigin(e)'
<1>1. Known(e.key)'
  BY KnownKept DEF EventOrigin
<1>2. ASSUME Intro(e.key)', e.key[2] = 0, e.key[3] = 0
      PROVE  e.by \in used' /\ url'[e.by].key = e.key
  <2>1. ~ Service(e.key)
    BY <1>2, ServiceKept DEF Intro, Service
  <2>2. e.by \in used /\ url[e.by].key = e.key
    BY <1>2, <2>1 DEF EventOrigin, Known
  <2> QED BY <2>2, UrlStays
<1> QED BY <1>1, <1>2 DEF EventOrigin

LEMMA RowOriginKept ==
  ASSUME DocTypes, DocTypes', Later, UrlsApart', NEW r \in rows, RowOrigin(r)
  PROVE  RowOrigin(r)'
<1>1. Pointer(r.id, r.ptr)'
  BY PointerLasts DEF RowOrigin
<1>2. r.by # 0 => r.by \in used' /\ url'[r.by].row = 0
  BY UrlStays DEF RowOrigin
<1> QED BY <1>1, <1>2 DEF RowOrigin

LEMMA CallOriginKept ==
  ASSUME DocTypes, DocTypes', Later, UrlsApart', NEW l, CallOrigin(l)
  PROVE  CallOrigin(l)'
<1>1. SaveOrigin(l) => SaveOrigin(l)'
  <2> SUFFICES ASSUME SaveOrigin(l) PROVE SaveOrigin(l)'
    OBVIOUS
  <2>1. Known(l.key)'
    BY KnownKept DEF SaveOrigin
  <2>2. ASSUME l.pc # "head"
        PROVE  /\ Origin(l.key, SaveOwner(l.pc), l.row, l.by)'
               /\ l.pc \in {"meta", "file", "companyFile"} <=> l.row = 0
    BY <2>2, OriginKept DEF SaveOrigin
  <2>3. ASSUME l.pc # "head", Service(l.key)' PROVE l.pc = "meta"
    <3>1. ~ Intro(l.key)
      BY <2>3, IntroKept DEF Intro, Service
    <3> QED BY <2>3, <3>1 DEF SaveOrigin, Known
  <2> QED BY <2>1, <2>2, <2>3 DEF SaveOrigin
<1>2. \A k : Plain(k) => Plain(k)'
  BY PlainKept
<1>3. \A x, k : Pointer(x, k) => Pointer(x, k)'
  BY PointerLasts
<1>4. ASSUME l.op = "onboarding"
      PROVE  /\ Service(l.key)'
             /\ "pointSigned" \in l.left =>
                  (Intro(l.ptr)' /\ "copySigned" \notin l.left => Had("again", MovedTo(l.ptr))')
  <2>1. Service(l.key)'
    BY <1>4, ServiceKept DEF CallOrigin
  <2>2. ASSUME "pointSigned" \in l.left, Intro(l.ptr)', "copySigned" \notin l.left
        PROVE  Had("again", MovedTo(l.ptr))'
    <3>1. Intro(l.ptr)
      <4>1. Known(l.ptr)
        BY <1>4, <2>2 DEF CallOrigin, Pointer
      <4> QED BY <2>2, <4>1, ServiceKept DEF Known, Intro, Service
    <3> QED BY <1>4, <2>2, <3>1 DEF CallOrigin, Had, Later
  <2> QED BY <2>1, <2>2
<1> QED BY <1>1, <1>2, <1>3, <1>4 DEF CallOrigin
-----------------------------------------------------------------------------
(* Every step keeps the origins.                                           *)

\* Only what is new has to be looked at.
LEMMA NewOrigins ==
  ASSUME DocTypes, DocTypes', OriginInv, Later, UrlsApart',
         \A o \in stored' \ stored : Origin(o[1], o[2].owner, o[2].row, o[2].by)',
         \A e \in raised' \ raised : EventOrigin(e)',
         \A k \in uploads' \ uploads : Plain(k)',
         \A k \in removals' \ removals : Known(k)',
         \A r \in rows' \ rows : RowOrigin(r)',
         \A l \in CallsNow' \ CallsNow : CallOrigin(l)'
  PROVE  OriginInv'
<1>1. \A o \in stored' : Origin(o[1], o[2].owner, o[2].row, o[2].by)'
  BY OriginKept DEF OriginInv
<1>2. \A e \in raised' : EventOrigin(e)'
  BY EventOriginKept DEF OriginInv
<1>3. \A k \in uploads' : Plain(k)'
  BY PlainKept DEF OriginInv
<1>4. \A k \in removals' : Known(k)'
  BY KnownKept DEF OriginInv
<1>5. \A r \in rows' : RowOrigin(r)'
  BY RowOriginKept DEF OriginInv
<1>6. \A l \in CallsNow' : CallOrigin(l)'
  BY CallOriginKept DEF OriginInv
<1> QED BY <1>1, <1>2, <1>3, <1>4, <1>5, <1>6 DEF OriginInv

LEMMA ApartKept ==
  ASSUME DocTypes, UrlsApart, UNCHANGED url, happened \subseteq happened'
  PROVE  UrlsApart'
BY DEF UrlsApart, Had

\* A call takes a step that changes neither URLs nor objects nor events.
LEMMA CallOrigins ==
  ASSUME DocTypes, DocTypes', OriginInv, NEW c \in Calls, DocCallStep(c), DocSteps(c),
         stored' \subseteq stored, raised' \subseteq raised,
         \A k \in uploads' \ uploads : Plain(k)',
         \A k \in removals' \ removals : Known(k)',
         \A r \in rows' \ rows : RowOrigin(r)',
         \A l : l = call'[c] => CallOrigin(l)'
  PROVE  OriginInv'
<1>1. Later /\ UNCHANGED browser
  BY CallLater
<1>2. UrlsApart'
  BY <1>1, ApartKept DEF browser, Later, OriginInv
<1>3. \A l \in CallsNow' \ CallsNow : l = call'[c]
  BY DEF CallsNow, DocSteps
<1> QED BY <1>1, <1>2, <1>3, NewOrigins

LEMMA OverOrigin ==
  ASSUME NEW c \in Calls, DocOver(c), NEW l, l = call'[c]
  PROVE  CallOrigin(l)'
BY DocOperates DEF DocOver, Now, CallOrigin

LEMMA OriginOf ==
  ASSUME OriginInv, NEW c \in Calls
  PROVE  CallOrigin(call[c])
BY DEF OriginInv, CallsNow

LEMMA DeliverOrigins ==
  ASSUME DocTypes, DocTypes', OriginInv, NEW c \in Calls, Deliver(c)
  PROVE  OriginInv'
<1>1. PICK e \in raised : Starts(c, "save", "head", e.key, 0) /\ raised' \subseteq raised
  BY DeliverDoes
<1>2. Known(e.key)
  BY DEF OriginInv, EventOrigin
<1>3. Later
  BY CallLater DEF DocCallStep
<1>4. Known(e.key)'
  BY <1>2, <1>3, KnownKept
<1>5. \A l : l = call'[c] => CallOrigin(l)'
  <2> SUFFICES ASSUME NEW l, l = call'[c] PROVE CallOrigin(l)'
    OBVIOUS
  <2>1. l.op = "save" /\ l.pc = "head" /\ l.key = e.key
    BY <1>1 DEF Starts, Now
  <2> QED BY <1>4, <2>1 DEF CallOrigin, SaveOrigin
<1>6. UNCHANGED <<stored, uploads, removals, rows>>
  BY DEF Deliver, unawaited, fileRows
<1> QED BY <1>1, <1>5, <1>6, CallOrigins DEF Starts, Now, DocCallStep

LEMMA HeadOrigins ==
  ASSUME DocTypes, DocTypes', OriginInv, NEW c \in Calls, HeadObject(c)
  PROVE  OriginInv'
<1>1. Later
  BY CallLater DEF DocCallStep
<1>2. UNCHANGED <<stored, raised, uploads, removals, rows>>
  BY DEF HeadObject, unawaited, fileRows
<1>3. CASE DocOver(c)
  BY <1>2, <1>3, OverOrigin, CallOrigins DEF DocOver, Now, DocCallStep
<1>4. ASSUME NEW o \in Object(call[c].key), Handled(o[2]),
             Now(c, "save", NextStep(o[2]), call[c].key, o[2].row, call[c].ptr, o[2].by, {})
      PROVE  OriginInv'
  <2> PICK k : k = call[c].key
    OBVIOUS
  <2>1. o \in stored /\ o[1] = k /\ o[2] \in Metadata
    BY ObjectKeys
  <2>2. Origin(k, o[2].owner, o[2].row, o[2].by)
    BY <2>1 DEF OriginInv
  <2>6. Known(k)
    BY <2>2 DEF Origin, Known
  <2>7. Known(k)'
    BY <1>1, <2>6, KnownKept
  <2>8. \A owner, row, by : Origin(k, owner, row, by) => Origin(k, owner, row, by)'
    BY <1>1, OriginKept
  <2>3. Origin(k, o[2].owner, o[2].row, o[2].by)' /\ Known(k)'
    BY <2>2, <2>7, <2>8
  <2>4. Service(k)' => o[2].owner = "company"
    BY <1>1, <2>1, <2>2, <1>4, IntroKept DEF Origin, Service, Intro, Handled, Metadata, Owners
  <2>5. \A l : l = call'[c] => CallOrigin(l)'
    <3> SUFFICES ASSUME NEW l, l = call'[c] PROVE CallOrigin(l)'
      OBVIOUS
    <3>1. l.op = "save" /\ l.pc = NextStep(o[2]) /\ l.key = k /\ l.row = o[2].row /\ l.by = o[2].by
      BY <1>4 DEF Now
    <3>2. SaveOwner(l.pc) = o[2].owner
      BY <1>4, <2>1, <3>1 DEF SaveOwner, NextStep, Handled, Metadata, Owners
    <3>3. l.pc \in {"meta", "file", "companyFile"} <=> l.row = 0
      BY <1>4, <3>1 DEF NextStep, Handled
    <3>4. Service(k)' => l.pc = "meta"
      BY <2>4, <3>1 DEF NextStep
    <3>5. SaveOrigin(l)'
      BY <2>3, <3>1, <3>2, <3>3, <3>4 DEF SaveOrigin
    <3> QED BY <3>1, <3>5 DEF CallOrigin
  <2> QED BY <1>2, <1>4, <2>5, CallOrigins DEF Now, DocCallStep
<1> QED BY <1>3, <1>4, HeadDoes

LEMMA MetaOrigins ==
  ASSUME DocTypes, DocTypes', OriginInv, NEW c \in Calls, CreateEsignatureMetadata(c)
  PROVE  OriginInv'
<1>1. Later
  BY CallLater DEF DocCallStep
<1>2. UNCHANGED <<stored, raised, uploads, removals, rows>>
  BY DEF CreateEsignatureMetadata, unawaited, fileRows
<1>3. CASE DocOver(c)
  BY <1>2, <1>3, OverOrigin, CallOrigins DEF DocOver, Now, DocCallStep
<1>4. CASE call[c].by \notin metas /\ DocPlace(c, "companyFile")
  <2> PICK m : m = call[c]
    OBVIOUS
  <2>1. CallOrigin(m) /\ m.op = "save" /\ m.pc = "meta"
    BY OriginOf DEF CreateEsignatureMetadata, At
  <2>2. m.by # 0
    BY <1>4 DEF DocTypes, DocStore
  <2>3. SaveOrigin(m)
    BY <2>1 DEF CallOrigin
  <2>4. Origin(m.key, "company", m.row, m.by) /\ m.row = 0 /\ Known(m.key)
    BY <2>1, <2>3 DEF SaveOrigin, SaveOwner
  <2>5. Intro(m.key)
    BY <2>2, <2>4 DEF Origin
  <2>6. Origin(m.key, "company", m.row, m.by)' /\ Known(m.key)' /\ Intro(m.key)'
    BY <1>1, <2>4, <2>5, OriginKept, KnownKept, IntroKept
  <2>7. \A l : l = call'[c] => CallOrigin(l)'
    <3> SUFFICES ASSUME NEW l, l = call'[c] PROVE CallOrigin(l)'
      OBVIOUS
    <3>1. l.op = "save" /\ l.pc = "companyFile" /\ l.key = m.key /\ l.row = m.row /\ l.by = m.by
      BY <1>4, <2>1 DEF DocPlace, Now
    <3>2. SaveOrigin(l)'
      BY <2>4, <2>6, <3>1 DEF SaveOrigin, SaveOwner, Service, Intro
    <3> QED BY <3>1, <3>2 DEF CallOrigin
  <2> QED BY <1>2, <1>4, <2>7, CallOrigins DEF DocPlace, Now, DocCallStep
<1> QED BY <1>3, <1>4, MetaDoes

\* A new row.
LEMMA InsertOrigins ==
  ASSUME DocTypes, DocTypes', OriginInv, NEW owner \in Owners \ {"none"}, NEW k \in FileKeys,
         NEW by \in {0} \cup Uploads, Insert(owner, k, by), Later,
         Known(k), k[1] # 3, k[1] = 0 => owner = "onboarding",
         by # 0 => by \in used /\ url[by].row = 0
  PROVE  \A r \in rows' \ rows : RowOrigin(r)'
<1>1. PICK n \in FileRecords : /\ rows' = rows \cup {n} /\ n.id = ids + 1
                               /\ n.owner = owner /\ n.ptr = k /\ n.by = by
  BY InsertDoes
<1>2. n.id # CompanyRow /\ n.id # SignedRow
  BY <1>1 DEF DocTypes, DocStore, CompanyRow, SignedRow
<1>3. Known(k)'
  BY KnownKept
<1>4. Pointer(n.id, n.ptr)'
  BY <1>1, <1>2, <1>3 DEF Pointer
<1>5. by # 0 => by \in used' /\ url'[by].row = 0
  BY UrlStays
<1>6. RowOrigin(n)'
  BY <1>1, <1>2, <1>4, <1>5 DEF RowOrigin
<1> QED BY <1>1, <1>6

LEMMA InsertUploadedOrigins ==
  ASSUME DocTypes, DocTypes', OriginInv, NEW c \in Calls, InsertUploaded(c)
  PROVE  OriginInv'
<1>1. Later
  BY CallLater DEF DocCallStep
<1>2. UNCHANGED <<stored, raised, uploads, removals>>
  BY DEF InsertUploaded, unawaited
<1> PICK m : m = call[c]
  OBVIOUS
<1>3. CallOrigin(m) /\ m.op = "save" /\ m.pc \in {"file", "companyFile"}
  BY OriginOf DEF InsertUploaded
<1>4. SaveOrigin(m)
  BY <1>3 DEF CallOrigin
<1>5. Intro(m.key) /\ m.by \in used /\ url[m.by].row = 0
  BY <1>3, <1>4 DEF SaveOrigin, Origin
<1>6. IsUrl(m.key[1])
  BY <1>5 DEF Intro
<1>7. m.key[1] \in Nat \ {0, 3}
  BY <1>6, UrlNames, NamesNat
<1>8. m.key \in FileKeys /\ m.by \in {0} \cup Uploads
  BY DocLocalType DEF DocLocals
<1>9. \A r \in rows' \ rows : RowOrigin(r)'
  <2> DEFINE owner == IF m.pc = "file" THEN "employee" ELSE "company"
  <2>1. Insert(owner, m.key, m.by) /\ owner \in Owners \ {"none"}
    BY DEF InsertUploaded, Owners
  <2> HIDE DEF owner
  <2> QED BY <1>1, <1>5, <1>7, <1>8, <2>1, InsertOrigins DEF Known
<1>10. DocOver(c)
  BY InsertUploadedTypes
<1> QED BY <1>2, <1>9, <1>10, OverOrigin, CallOrigins DEF DocOver, Now, DocCallStep

LEMMA InsertCompanyFileOrigins ==
  ASSUME DocTypes, DocTypes', OriginInv, NEW c \in Calls, InsertCompanyFile(c)
  PROVE  OriginInv'
<1>1. Later
  BY CallLater DEF DocCallStep
<1>2. UNCHANGED <<stored, raised, uploads, removals>>
  BY DEF InsertCompanyFile, unawaited
<1> PICK m : m = call[c]
  OBVIOUS
<1>3. CallOrigin(m) /\ m.op = "create" /\ m.pc = "insert"
  BY OriginOf DEF InsertCompanyFile, At
<1>4. Plain(m.key)
  BY <1>3 DEF CallOrigin
<1>8. m.key \in FileKeys
  BY DocLocalType DEF DocLocals
<1>9. \A r \in rows' \ rows : RowOrigin(r)'
  <2>1. Insert("company", m.key, 0)
    BY DEF InsertCompanyFile
  <2> QED BY <1>1, <1>4, <1>8, <2>1, InsertOrigins DEF Known, Plain, Owners
<1>10. DocOver(c)
  BY InsertCompanyFileTypes
<1> QED BY <1>2, <1>9, <1>10, OverOrigin, CallOrigins DEF DocOver, Now, DocCallStep

LEMMA EmployeeRowOrigins ==
  ASSUME DocTypes, DocTypes', OriginInv, NEW c \in Calls, RowForEmployee(c)
  PROVE  OriginInv'
<1>1. Later
  BY CallLater DEF DocCallStep
<1>2. UNCHANGED <<stored, raised, uploads, removals>>
  BY DEF RowForEmployee, unawaited
<1> PICK m : m = call[c]
  OBVIOUS
<1>3. CallOrigin(m) /\ m.op = "onboarding"
  BY OriginOf DEF RowForEmployee, Ready
<1>4. Service(EmployeeKey) /\ EmployeeKey \in FileKeys /\ EmployeeKey[1] = 0
  <2>1. EmployeeKey \in FileKeys /\ EmployeeKey[1] = 0
    BY SmallKeys DEF EmployeeKey, MovedTo, NoKey, FileKey
  <2> QED BY <2>1, UrlNames, NamesNat DEF Service
<1>5. Insert("onboarding", EmployeeKey, 0) /\
      Now(c, "onboarding", m.pc, m.key, ids + 1, m.ptr, m.by, m.left \ {"row"})
  BY EmployeeRowDoes
<1>6. \A r \in rows' \ rows : RowOrigin(r)'
  BY <1>1, <1>4, <1>5, InsertOrigins DEF Known, Owners
<1>7. CallOrigin(m)'
  BY <1>1, <1>3, CallOriginKept, ApartKept, CallLater DEF DocCallStep, browser, Later, OriginInv
<1>8. \A l : l = call'[c] => CallOrigin(l)'
  <2> SUFFICES ASSUME NEW l, l = call'[c] PROVE CallOrigin(l)'
    OBVIOUS
  <2>1. l.op = "onboarding" /\ l.key = m.key /\ l.ptr = m.ptr /\ l.left = m.left \ {"row"}
    BY <1>5 DEF Now
  <2> QED BY <1>3, <1>7, <2>1 DEF CallOrigin
<1> QED BY <1>2, <1>5, <1>6, <1>8, CallOrigins DEF Now, DocCallStep

\* A pointer is written.
LEMMA PointedOrigins ==
  ASSUME DocTypes, DocTypes', OriginInv, Later, UrlsApart', NEW id, NEW k, Pointed(id, k),
         \A r \in rows : r.id = id => Pointer(id, k)' /\ k[1] # 0
  PROVE  \A r \in rows' : RowOrigin(r)'
<1> SUFFICES ASSUME NEW r \in rows' PROVE RowOrigin(r)'
  OBVIOUS
<1>1. PICK s \in rows : /\ s.id = r.id /\ s.owner = r.owner /\ s.by = r.by
                        /\ r.ptr = IF r.id = id THEN k ELSE s.ptr
  BY DEF Pointed
<1>2. RowOrigin(s)'
  BY RowOriginKept DEF OriginInv
<1> QED BY <1>1, <1>2 DEF RowOrigin

LEMMA LoadOrigins ==
  ASSUME DocTypes, OriginInv, Later, NEW id,
         removals' = removals \/ \E r \in Row(id) : removals' = removals \cup {r.ptr}
  PROVE  \A k \in removals' \ removals : Known(k)'
<1> SUFFICES ASSUME NEW k \in removals' \ removals PROVE Known(k)'
  OBVIOUS
<1>1. PICK r \in rows : k = r.ptr
  BY DEF Row
<1>2. Known(k)
  BY <1>1 DEF OriginInv, RowOrigin, Pointer
<1> QED BY <1>2, KnownKept

LEMMA LoadCurrentOrigins ==
  ASSUME DocTypes, DocTypes', OriginInv, NEW c \in Calls, LoadCurrent(c)
  PROVE  OriginInv'
<1>1. Later /\ UrlsApart'
  BY CallLater, ApartKept DEF DocCallStep, browser, Later, OriginInv
<1>2. UNCHANGED <<stored, raised, uploads, rows>>
  BY DEF LoadCurrent, fileRows
<1>3. \A k \in removals' \ removals : Known(k)'
  BY <1>1, LoadOrigins, LoadCurrentDoes
<1>4. CASE DocOver(c)
  BY <1>2, <1>3, <1>4, OverOrigin, CallOrigins DEF DocOver, Now, DocCallStep
<1>5. CASE DocPlace(c, "point")
  <2> PICK m : m = call[c]
    OBVIOUS
  <2>1. CallOrigin(m) /\ m.op = "save" /\ m.pc = "current"
    BY OriginOf DEF LoadCurrent, At
  <2>2. CallOrigin(m)'
    BY <1>1, <2>1, CallOriginKept
  <2>3. \A l : l = call'[c] => CallOrigin(l)'
    <3> SUFFICES ASSUME NEW l, l = call'[c] PROVE CallOrigin(l)'
      OBVIOUS
    <3>1. l.op = "save" /\ l.pc = "point" /\ l.key = m.key /\ l.row = m.row /\ l.by = m.by
      BY <1>5, <2>1 DEF DocPlace, Now
    <3>2. SaveOrigin(l)'
      BY <2>1, <2>2, <3>1 DEF CallOrigin, SaveOrigin, SaveOwner
    <3> QED BY <3>1, <3>2 DEF CallOrigin
  <2> QED BY <1>2, <1>3, <1>5, <2>3, CallOrigins DEF DocPlace, Now, DocCallStep
<1> QED BY <1>4, <1>5, LoadCurrentDoes

LEMMA LoadForDeleteOrigins ==
  ASSUME DocTypes, DocTypes', OriginInv, NEW c \in Calls,
         DeleteCompanyDocument(c) \/ DeleteEmployeeDocument(c)
  PROVE  OriginInv'
<1>1. Later
  BY CallLater DEF DocCallStep
<1>0. LoadForDelete(c) /\ call[c].op \in {"deleteCompany", "deleteEmployee"}
  BY DEF DeleteCompanyDocument, DeleteEmployeeDocument, At
<1>2. UNCHANGED <<stored, raised, uploads, rows>>
  BY <1>0 DEF LoadForDelete, fileRows
<1>3. \A k \in removals' \ removals : Known(k)'
  BY <1>0, <1>1, LoadOrigins, LoadForDeleteDoes
<1>4. DocOver(c) \/ DocPlace(c, "drop")
  BY <1>0, LoadForDeleteDoes
<1>5. \A l : l = call'[c] => CallOrigin(l)'
  <2>1. CASE DocOver(c)
    BY <2>1, OverOrigin
  <2>2. CASE DocPlace(c, "drop")
    BY <1>0, <2>2 DEF DocPlace, Now, CallOrigin
  <2> QED BY <1>4, <2>1, <2>2
<1>6. DocSteps(c)
  BY <1>4 DEF DocOver, DocPlace, Now
<1> QED BY <1>2, <1>3, <1>5, <1>6, CallOrigins DEF DocCallStep

LEMMA UpdatePointerOrigins ==
  ASSUME DocTypes, DocTypes', OriginInv, NEW c \in Calls, UpdatePointer(c)
  PROVE  OriginInv'
<1>1. Later /\ UrlsApart'
  BY CallLater, ApartKept DEF DocCallStep, browser, Later, OriginInv
<1>2. UNCHANGED <<stored, raised, uploads, removals>>
  BY DEF UpdatePointer, unawaited
<1> PICK m : m = call[c]
  OBVIOUS
<1>3. CallOrigin(m) /\ m.op = "save" /\ m.pc = "point"
  BY OriginOf DEF UpdatePointer, At
<1>4. Intro(m.key) /\ m.by \in used /\ url[m.by].key[1] = m.key[1]
      /\ url[m.by].owner = "employee" /\ url[m.by].row = m.row /\ m.row # 0 /\ Known(m.key)
  <2>1. Origin(m.key, "employee", m.row, m.by) /\ m.row # 0 /\ Known(m.key)
    BY <1>3 DEF CallOrigin, SaveOrigin, SaveOwner
  <2> QED BY <2>1 DEF Origin
<1>5. IsUrl(m.key[1])
  BY <1>4 DEF Intro
<1>6. m.key[1] \in Nat \ {0, 3}
  BY <1>5, UrlNames, NamesNat
<1>7. ASSUME NEW r \in rows, r.id = m.row PROVE Pointer(m.row, m.key)
  <2>0. m.by \in Uploads /\ url[m.by] # None
    BY <1>4 DEF DocTypes, DocStore
  <2>1. r.owner # "company"
    BY <1>4, <1>7, <2>0 DEF DocTypes, DocStore, UrlType, Row
  <2>2. m.row # CompanyRow
    BY <1>7, <2>1 DEF OriginInv, RowOrigin
  <2>3. ASSUME NEW u \in Uploads, url[u] # None, url[u].key = m.key, url[u].row # m.row
        PROVE  Had("sameKey", m.key)
    <3>1. m.by \in Uploads /\ url[m.by] # None
      BY <1>4 DEF DocTypes, DocStore
    <3>2. url[m.by].key = m.key
      BY <1>4, <2>3, <3>1, UrlIsPlain
    <3>3. u # m.by
      BY <1>4, <2>3
    <3> QED BY <2>3, <3>1, <3>2, <3>3 DEF OriginInv, UrlsApart
  <2> QED BY <1>4, <1>6, <2>2, <2>3 DEF Pointer
<1>8. \A r \in rows : r.id = m.row => Pointer(m.row, m.key)' /\ m.key[1] # 0
  BY <1>1, <1>6, <1>7, PointerLasts
<1>9. DocOver(c) /\ Pointed(m.row, m.key)
  BY UpdatePointerTypes
<1>10. \A r \in rows' : RowOrigin(r)'
  BY <1>1, <1>8, <1>9, PointedOrigins
<1> QED BY <1>2, <1>9, <1>10, OverOrigin, CallOrigins DEF DocOver, Now, DocCallStep

LEMMA WriteBackOrigins ==
  ASSUME DocTypes, DocTypes', OriginInv, NEW c \in Calls, WriteBack(c)
  PROVE  OriginInv'
<1>1. Later /\ UrlsApart'
  BY CallLater, ApartKept DEF DocCallStep, browser, Later, OriginInv
<1>2. UNCHANGED <<stored, raised, uploads, removals>>
  BY DEF WriteBack, unawaited
<1> PICK m : m = call[c]
  OBVIOUS
<1>3. CallOrigin(m) /\ m.op \in {"edit", "replace"} /\ m.pc = "write" /\ DocCallType(m)
  BY OriginOf, DocLocalType DEF WriteBack
<1>4. Pointer(m.row, m.ptr) /\ m.ptr[1] # 0
  <2>1. CASE m.op = "edit"
    BY <1>3, <2>1 DEF CallOrigin
  <2>2. CASE m.op = "replace"
    <3>1. Plain(m.ptr) /\ m.row # SignedRow
      BY <1>3, <2>2 DEF CallOrigin, DocCallType
    <3> QED BY <3>1 DEF Plain, Pointer, Known
  <2> QED BY <1>3, <2>1, <2>2
<1>5. Pointer(m.row, m.ptr)'
  BY <1>1, <1>4, PointerLasts
<1>9. DocOver(c) /\ Pointed(m.row, m.ptr)
  BY WriteBackTypes
<1>10. \A r \in rows' : RowOrigin(r)'
  BY <1>1, <1>4, <1>5, <1>9, PointedOrigins
<1> QED BY <1>2, <1>9, <1>10, OverOrigin, CallOrigins DEF DocOver, Now, DocCallStep

LEMMA RequestOrigins ==
  ASSUME DocTypes, DocTypes', OriginInv, NEW c \in Calls, Request(c)
  PROVE  OriginInv'
<1>1. PICK r \in rows, op \in {"edit", "replace", "deleteCompany", "deleteEmployee"} :
         Starts(c, op, "read", NoKey, r.id)
  BY RequestDoes
<1>2. UNCHANGED <<stored, raised, uploads, removals, rows>>
  BY DEF Request, unawaited, fileRows
<1>3. \A l : l = call'[c] => CallOrigin(l)'
  BY <1>1 DEF Starts, Now, CallOrigin
<1> QED BY <1>1, <1>2, <1>3, CallOrigins DEF Starts, Now, DocCallStep

LEMMA ReadForEditOrigins ==
  ASSUME DocTypes, DocTypes', OriginInv, NEW c \in Calls, ReadForEdit(c)
  PROVE  OriginInv'
<1>1. Later /\ UrlsApart'
  BY CallLater, ApartKept DEF DocCallStep, browser, Later, OriginInv
<1>2. UNCHANGED <<stored, raised, uploads, removals, rows>>
  BY DEF ReadForEdit, unawaited, fileRows
<1>3. CASE DocOver(c)
  BY <1>2, <1>3, OverOrigin, CallOrigins DEF DocOver, Now, DocCallStep
<1>4. ASSUME NEW r \in Row(call[c].row),
             Now(c, "edit", "write", call[c].key, call[c].row, r.ptr, call[c].by, {})
      PROVE  OriginInv'
  <2>1. r \in rows /\ r.id = call[c].row /\ RowOrigin(r)
    BY DEF Row, OriginInv
  <2>2. r.owner # "onboarding"
    BY DocLocalType DEF DocCallType, ReadForEdit, At
  <2>3. Pointer(r.id, r.ptr)' /\ r.ptr[1] # 0
    BY <1>1, <2>1, <2>2, PointerLasts DEF RowOrigin
  <2>4. \A l : l = call'[c] => CallOrigin(l)'
    BY <1>4, <2>1, <2>3 DEF Now, CallOrigin
  <2> QED BY <1>2, <1>4, <2>4, CallOrigins DEF Now, DocCallStep
<1> QED BY <1>3, <1>4, ReadForEditDoes

LEMMA ReadForReplaceOrigins ==
  ASSUME DocTypes, DocTypes', OriginInv, NEW c \in Calls, ReadForReplace(c)
  PROVE  OriginInv'
<1>1. Later /\ UrlsApart'
  BY CallLater, ApartKept DEF DocCallStep, browser, Later, OriginInv
<1>2. UNCHANGED <<stored, raised, uploads, removals, rows>>
  BY DEF ReadForReplace, unawaited, fileRows
<1>3. CASE DocOver(c)
  BY <1>2, <1>3, OverOrigin, CallOrigins DEF DocOver, Now, DocCallStep
<1>4. ASSUME NEW r \in Row(call[c].row),
             Now(c, "replace", "upload", call[c].key, call[c].row, r.ptr, call[c].by, {})
      PROVE  OriginInv'
  <2>1. r \in rows /\ r.id = call[c].row /\ RowOrigin(r)
    BY DEF Row, OriginInv
  <2>2. r.owner = "company"
    BY DocLocalType DEF DocCallType, ReadForReplace, At
  <2>3. Pointer(r.id, r.ptr)' /\ r.ptr[1] # 0
    BY <1>1, <2>1, <2>2, PointerLasts DEF RowOrigin
  <2>4. \A l : l = call'[c] => CallOrigin(l)'
    BY <1>4, <2>1, <2>3 DEF Now, CallOrigin
  <2> QED BY <1>2, <1>4, <2>4, CallOrigins DEF Now, DocCallStep
<1> QED BY <1>3, <1>4, ReadForReplaceDoes

\* A name that is given out now is that of no URL.
LEMMA FreshIsPlain ==
  ASSUME DocTypes, Later, UNCHANGED url, Given(FreshKey), NEW k, k = FreshKey
  PROVE  Plain(k)'
<1>1. k \in FileKeys /\ k[1] = names + 1 /\ k[2] = 0 /\ k[3] = 0
  BY FreshType
<1>2. names' = names + 1
  BY <1>1, NamesNat DEF Given
<1>3. ~ IsUrl(k[1])
  BY <1>1, UrlNames, NamesNat
<1> QED BY <1>1, <1>2, <1>3, NamesNat DEF Plain, Service, IsUrl

\* So is a company's document's own.
LEMMA ChosenIsPlain ==
  ASSUME DocTypes, Later, UNCHANGED url, NEW k, k = KeyFor(CompanyName) \/ k = FreshKey, Given(k)
  PROVE  Plain(k)'
<1>1. k \in FileKeys /\ (k = FileKey(2) \/ k = FreshKey)
  BY FreshType, KeyForType DEF FreshKey
<1>2. CASE k = FreshKey
  BY <1>2, FreshIsPlain
<1>3. CASE k = FileKey(2)
  <2>1. k[1] = 2 /\ k[2] = 0 /\ k[3] = 0
    BY <1>3 DEF FileKey
  <2>2. Plain(k)
    BY <1>1, <2>1, UrlNames, NamesNat DEF Plain, Service
  <2> QED BY <2>2, PlainKept
<1> QED BY <1>1, <1>2, <1>3

LEMMA ReplaceFileOrigins ==
  ASSUME DocTypes, DocTypes', OriginInv, NEW c \in Calls, ReplaceFile(c)
  PROVE  OriginInv'
<1>1. Later /\ UNCHANGED url
  BY CallLater DEF DocCallStep, browser
<1>2. UNCHANGED <<stored, raised, rows>>
  BY DEF ReplaceFile, fileRows
<1> PICK k \in FileKeys : Replaced(c, k)
  BY ReplaceFileDoes
<1> PICK m : m = call[c]
  OBVIOUS
<1>3. CallOrigin(m) /\ m.op = "replace" /\ m.pc = "upload"
  BY OriginOf DEF ReplaceFile, At
<1>4. Plain(k)'
  BY <1>1, ChosenIsPlain DEF Replaced
<1>5. Known(m.ptr)'
  BY <1>1, <1>3, KnownKept DEF CallOrigin, Pointer
<1>6. uploads' = uploads \cup {k} /\ removals' = removals \cup {m.ptr}
  BY Zenon DEF Replaced, ReplaceFile
<1>7. Now(c, "replace", "write", m.key, m.row, k, m.by, {})
  BY DEF Replaced
<1>8. \A l : l = call'[c] => CallOrigin(l)'
  BY <1>4, <1>7 DEF Now, CallOrigin
<1> QED BY <1>2, <1>4, <1>5, <1>6, <1>7, <1>8, CallOrigins DEF Now, DocCallStep

LEMMA ChooseKeyOrigins ==
  ASSUME DocTypes, DocTypes', OriginInv, NEW c \in Calls, ChooseKey(c)
  PROVE  OriginInv'
<1>1. Later /\ UNCHANGED url
  BY CallLater DEF DocCallStep, browser
<1>2. UNCHANGED <<stored, raised, rows, removals>>
  BY DEF ChooseKey, fileRows
<1> PICK k : k = KeyFor(CompanyName)
  OBVIOUS
<1>4. Plain(k)'
  BY <1>1, ChosenIsPlain DEF ChooseKey
<1>6. uploads' = uploads \cup {k}
  BY DEF ChooseKey
<1>7. Now(c, "create", "meta", k, 0, call[c].ptr, call[c].by, {})
  BY ChooseKeyDoes
<1>8. \A l : l = call'[c] => CallOrigin(l)'
  BY <1>4, <1>7 DEF Now, CallOrigin
<1> QED BY <1>2, <1>4, <1>6, <1>7, <1>8, CallOrigins DEF Now, DocCallStep

LEMMA InsertMetadataOrigins ==
  ASSUME DocTypes, DocTypes', OriginInv, NEW c \in Calls, InsertMetadata(c)
  PROVE  OriginInv'
<1>1. Later
  BY CallLater DEF DocCallStep
<1>2. UNCHANGED <<stored, raised, rows, uploads, removals>>
  BY DEF InsertMetadata, fileRows, unawaited
<1> PICK m : m = call[c]
  OBVIOUS
<1>3. CallOrigin(m) /\ m.op = "create" /\ m.pc = "meta"
  BY OriginOf DEF InsertMetadata, At
<1>4. Plain(m.key)'
  BY <1>1, <1>3, PlainKept DEF CallOrigin
<1>7. DocPlace(c, "insert")
  BY InsertMetadataTypes
<1>8. \A l : l = call'[c] => CallOrigin(l)'
  BY <1>3, <1>4, <1>7 DEF DocPlace, Now, CallOrigin
<1> QED BY <1>2, <1>7, <1>8, CallOrigins DEF DocPlace, Now, DocCallStep

LEMMA CreationOrigins ==
  ASSUME DocTypes, DocTypes', OriginInv, NEW c \in Calls, CreateCompanyDocument(c)
  PROVE  OriginInv'
<1>2. UNCHANGED <<stored, raised, rows, uploads, removals>>
  BY DEF CreateCompanyDocument, fileRows, unawaited
<1>3. Starts(c, "create", "read", NoKey, 0)
  BY CreationDoes
<1>4. \A l : l = call'[c] => CallOrigin(l)'
  BY <1>3 DEF Starts, Now, CallOrigin
<1> QED BY <1>2, <1>3, <1>4, CallOrigins DEF Starts, Now, DocCallStep

LEMMA SaveOnboardingOrigins ==
  ASSUME DocTypes, DocTypes', OriginInv, NEW c \in Calls, SaveOnboarding(c)
  PROVE  OriginInv'
<1>1. Later
  BY CallLater DEF DocCallStep
<1>2. UNCHANGED <<stored, raised, rows, uploads, removals>>
  BY DEF SaveOnboarding, fileRows, unawaited
<1>3. Starts(c, "onboarding", "read", NoKey, 0)
  BY SaveOnboardingDoes
<1>4. Service(NoKey)
  <2>1. NoKey \in FileKeys /\ NoKey[1] = 0
    BY SmallKeys DEF NoKey, FileKey
  <2> QED BY <2>1, UrlNames, NamesNat DEF Service
<1>5. Service(NoKey)'
  BY <1>1, <1>4, ServiceKept
<1>6. \A l : l = call'[c] => CallOrigin(l)'
  BY <1>3, <1>5 DEF Starts, Now, CallOrigin
<1> QED BY <1>2, <1>3, <1>6, CallOrigins DEF Starts, Now, DocCallStep

LEMMA ListTaskOrigins ==
  ASSUME DocTypes, DocTypes', OriginInv, NEW c \in Calls, ListTaskList(c)
  PROVE  OriginInv'
<1>1. Later
  BY CallLater DEF DocCallStep
<1>2. UNCHANGED <<stored, raised, rows, uploads, removals>>
  BY DEF ListTaskList, fileRows, unawaited
<1> PICK m : m = call[c]
  OBVIOUS
<1>3. CallOrigin(m) /\ m.op = "onboarding"
  BY OriginOf DEF ListTaskList, At
<1>4. CASE DocPlace(c, "list") /\ m.left = {}
  <2>1. Service(m.key)'
    BY <1>1, <1>3, ServiceKept DEF CallOrigin
  <2>2. \A l : l = call'[c] => CallOrigin(l)'
    BY <1>3, <1>4, <2>1 DEF DocPlace, Now, CallOrigin
  <2> QED BY <1>2, <1>4, <2>2, CallOrigins DEF DocPlace, Now, DocCallStep
<1>5. ASSUME NEW r \in Row(CompanyRow),
             Now(c, "onboarding", "list", r.ptr, 0, call[c].ptr, call[c].by, CompanySteps)
      PROVE  OriginInv'
  <2>1. Service(r.ptr)
    BY DEF Row, OriginInv, RowOrigin, Pointer
  <2>2. Service(r.ptr)'
    BY <1>1, <2>1, ServiceKept
  <2>3. \A l : l = call'[c] => CallOrigin(l)'
    BY <1>5, <2>2, StepsOfOnboarding DEF Now, CallOrigin
  <2> QED BY <1>2, <1>5, <2>3, CallOrigins DEF Now, DocCallStep
<1> QED BY <1>4, <1>5, ListTaskDoes

LEMMA ListSignedOrigins ==
  ASSUME DocTypes, DocTypes', OriginInv, NEW c \in Calls, ListSigned(c)
  PROVE  OriginInv'
<1>1. Later /\ UrlsApart'
  BY CallLater, ApartKept DEF DocCallStep, browser, Later, OriginInv
<1>2. UNCHANGED <<stored, raised, rows, uploads, removals>>
  BY DEF ListSigned, fileRows, unawaited
<1> PICK m : m = call[c]
  OBVIOUS
<1>3. CallOrigin(m) /\ m.op = "onboarding" /\ m.left \cap SignedSteps = {}
  BY OriginOf, ListSignedDoes DEF ListSigned, At
<1>6. Service(m.key)'
  BY <1>1, <1>3, ServiceKept DEF CallOrigin
<1>4. CASE DocPlace(c, "run")
  <2>2. \A l : l = call'[c] => CallOrigin(l)'
    BY <1>3, <1>4, <1>6, StepsOfOnboarding DEF DocPlace, Now, CallOrigin
  <2> QED BY <1>2, <1>4, <2>2, CallOrigins DEF DocPlace, Now, DocCallStep
<1>5. ASSUME NEW r \in Row(SignedRow),
             Now(c, "onboarding", "run", m.key, m.row, r.ptr, m.by, m.left \cup SignedSteps)
      PROVE  OriginInv'
  <2>1. Pointer(SignedRow, r.ptr)
    BY DEF Row, OriginInv, RowOrigin
  <2>2. Pointer(SignedRow, r.ptr)'
    BY <1>1, <2>1, PointerLasts
  <2>3. \A l : l = call'[c] => CallOrigin(l)'
    BY <1>5, <1>6, <2>2, StepsOfOnboarding DEF Now, CallOrigin
  <2> QED BY <1>2, <1>5, <2>3, CallOrigins DEF Now, DocCallStep
<1> QED BY <1>4, <1>5, ListSignedDoes

\* An onboarding takes some of its steps.
LEMMA FinishOrigins ==
  ASSUME DocTypes, DocTypes', OriginInv, NEW c \in Calls, call[c].op = "onboarding",
         NEW steps, Finish(c, steps), Later, UrlsApart',
         \A k : k = call[c].ptr =>
           (Intro(k) /\ "copySigned" \in steps /\ "pointSigned" \in call[c].left \ steps
              => Had("again", MovedTo(k))')
  PROVE  DocSteps(c) /\ \A l : l = call'[c] => CallOrigin(l)'
<1> PICK m : m = call[c]
  OBVIOUS
<1>1. Now(c, m.op, m.pc, m.key, m.row, m.ptr, m.by, m.left \ steps)
  BY FinishNow
<1>2. CallOrigin(m)
  BY OriginOf
<1>3. Service(m.key)'
  BY <1>2, ServiceKept DEF CallOrigin
<1>4. CallOrigin(m)'
  BY <1>2, CallOriginKept
<1>5. ASSUME "pointSigned" \in m.left \ steps
      PROVE  /\ Pointer(SignedRow, m.ptr)'
             /\ Intro(m.ptr)' /\ "copySigned" \notin m.left \ steps => Had("again", MovedTo(m.ptr))'
  <2>1. Pointer(SignedRow, m.ptr)' /\ Known(m.ptr)
    BY <1>2, <1>4, <1>5 DEF CallOrigin, Pointer
  <2>2. Intro(m.ptr)' => Intro(m.ptr)
    BY <2>1, ServiceKept DEF Known, Service, Intro
  <2>3. CASE "copySigned" \in steps
    BY <1>5, <2>1, <2>2, <2>3
  <2>4. CASE "copySigned" \notin steps
    BY <1>4, <1>5, <2>1, <2>4 DEF CallOrigin
  <2> QED BY <2>1, <2>3, <2>4
<1>6. \A l : l = call'[c] => CallOrigin(l)'
  BY <1>1, <1>3, <1>5 DEF Now, CallOrigin
<1> QED BY <1>1, <1>6 DEF Now

LEMMA OneFailsOrigins ==
  ASSUME DocTypes, DocTypes', OriginInv, NEW c \in Calls, OneFails(c)
  PROVE  OriginInv'
<1>1. Later /\ UrlsApart'
  BY CallLater, ApartKept DEF DocCallStep, browser, Later, OriginInv
<1>2. UNCHANGED <<stored, raised, rows, uploads, removals>>
  BY DEF OneFails, fileRows, unawaited
<1>3. PICK step \in call[c].left : Ready(c, step) /\ Finish(c, {step} \cup After(step))
  BY DEF OneFails
<1>4. call[c].op = "onboarding"
  BY <1>3 DEF Ready
<1>5. "copySigned" \in {step} \cup After(step) => "pointSigned" \in {step} \cup After(step)
  BY DEF After, Before, SignedSteps
<1>6. DocSteps(c) /\ \A l : l = call'[c] => CallOrigin(l)'
  BY <1>1, <1>3, <1>4, <1>5, FinishOrigins
<1> QED BY <1>2, <1>6, CallOrigins DEF DocCallStep

LEMMA DeleteSignedOrigins ==
  ASSUME DocTypes, DocTypes', OriginInv, NEW c \in Calls, DeleteSigned(c)
  PROVE  OriginInv'
<1>1. Later /\ UrlsApart'
  BY CallLater, ApartKept DEF DocCallStep, browser, Later, OriginInv
<1>2. UNCHANGED <<raised, rows, uploads, removals>> /\ stored' \subseteq stored
  BY DEF DeleteSigned, fileRows, unawaited
<1>3. call[c].op = "onboarding" /\ Finish(c, {"deleteSigned"})
  BY DEF DeleteSigned, Ready
<1>6. DocSteps(c) /\ \A l : l = call'[c] => CallOrigin(l)'
  BY <1>1, <1>3, FinishOrigins
<1> QED BY <1>2, <1>6, CallOrigins DEF DocCallStep

LEMMA MovedPointer ==
  ASSUME DocTypes, NEW k, Pointer(SignedRow, k), Intro(k) => Had("again", MovedTo(k))
  PROVE  Pointer(SignedRow, MovedTo(k)) /\ MovedTo(k)[1] # 0
<1>1. k \in FileKeys /\ (k[1] = 3 \/ Intro(k)) /\ Known(k)
  BY DEF Pointer, Known, Service, Intro
<1>2. /\ MovedTo(k) \in FileKeys /\ MovedTo(k)[1] = k[1] /\ MovedTo(k)[2] # 0
  <2>1. MovedTo(k) \in FileKeys
    BY <1>1, SmallKeys
  <2>2. MovedTo(k)[1] = k[1] /\ MovedTo(k)[2] = k[2] + 1 /\ k[2] \in Nat
    BY <1>1, SameNames
  <2> QED BY <2>1, <2>2
<1>3. CASE Intro(k)
  <2>1. Intro(MovedTo(k))
    BY <1>2, <1>3 DEF Intro
  <2>2. k[1] \in (1 .. names) \ {2, 3}
    BY <1>3, UrlNames DEF Intro
  <2> QED BY <1>2, <2>1, <2>2, NamesNat, UrlIsPlain DEF Pointer, Known, CompanyRow, SignedRow
<1>4. CASE Service(k) /\ k[1] = 3
  <2>1. Service(MovedTo(k))
    BY <1>2, <1>4 DEF Service
  <2> QED BY <1>2, <1>4, <2>1, UrlIsPlain DEF Pointer, Known, CompanyRow, SignedRow
<1> QED BY <1>1, <1>3, <1>4 DEF Known

LEMMA PointSignedOrigins ==
  ASSUME DocTypes, DocTypes', OriginInv, NEW c \in Calls, PointSigned(c)
  PROVE  OriginInv'
<1>1. Later /\ UrlsApart'
  BY CallLater, ApartKept DEF DocCallStep, browser, Later, OriginInv
<1>2. UNCHANGED <<stored, raised, uploads, removals>>
  BY DEF PointSigned, unawaited
<1>3. /\ call[c].op = "onboarding" /\ Finish(c, {"pointSigned"})
      /\ "pointSigned" \in call[c].left /\ "copySigned" \notin call[c].left
  BY DEF PointSigned, Ready, Before
<1>4. DocSteps(c) /\ \A l : l = call'[c] => CallOrigin(l)'
  BY <1>1, <1>3, FinishOrigins
<1> PICK k : k = call[c].ptr
  OBVIOUS
<1>5. Pointer(SignedRow, k) /\ (Intro(k) => Had("again", MovedTo(k)))
  BY <1>3, OriginOf DEF CallOrigin
<1>6. Pointer(SignedRow, MovedTo(k)) /\ MovedTo(k)[1] # 0
  BY <1>5, MovedPointer
<1> PICK j : j = MovedTo(k)
  OBVIOUS
<1>7. Pointer(SignedRow, j)' /\ j[1] # 0
  BY <1>1, <1>6, PointerLasts
<1>8. Pointed(SignedRow, j)
  BY PointSignedTypes
<1>9. \A r \in rows' : RowOrigin(r)'
  BY <1>1, <1>7, <1>8, PointedOrigins
<1> QED BY <1>2, <1>4, <1>9, CallOrigins DEF DocCallStep

\* The steps of objects: what is at key comes from another object, or from a URL.
LEMMA PutOrigins ==
  ASSUME OriginInv, Later, DocTypes, NEW key, NEW meta, Put(key, meta),
         Origin(key, meta.owner, meta.row, meta.by)'
  PROVE  \A o \in stored' \ stored : Origin(o[1], o[2].owner, o[2].row, o[2].by)'
BY DEF Put

\* An object was copied: the copy is known, and what is told of it.
LEMMA CopyOrigins ==
  ASSUME DocTypes, OriginInv, Later, NEW o \in stored, NEW to \in FileKeys, CopyTo(to, o),
         to[1] = o[1][1], to[2] # 0 \/ to[3] # 0,
         Intro(o[1]) /\ o[2].by # 0 => Intro(to)' /\ AtHome(o[2].by, to)'
  PROVE  /\ \A p \in stored' \ stored : Origin(p[1], p[2].owner, p[2].row, p[2].by)'
         /\ \A e \in raised' \ raised : EventOrigin(e)'
<1>0. Put(to, o[2]) /\ \A e \in raised' \ raised : e.key = to
  BY DEF CopyTo
<1>1. Origin(o[1], o[2].owner, o[2].row, o[2].by)
  BY DEF OriginInv
<1>2. CASE Service(o[1]) /\ o[2].owner # "employee" /\ o[2].row = 0 /\ o[2].by = 0
  <2>1. Service(to)
    BY <1>2 DEF Service
  <2>2. Service(to)'
    BY <2>1, ServiceKept
  <2>3. Origin(to, o[2].owner, o[2].row, o[2].by)'
    BY <1>2, <2>2 DEF Origin
  <2>4. \A e \in raised' \ raised : EventOrigin(e)'
    BY <1>0, <2>2 DEF EventOrigin, Known
  <2> QED BY <1>0, <2>3, <2>4, PutOrigins
<1>3. CASE /\ Intro(o[1]) /\ o[2].by \in used
           /\ url[o[2].by].key[1] = o[1][1] /\ o[2].owner = url[o[2].by].owner
           /\ o[2].row = url[o[2].by].row
  <2>1. o[2].by # 0
    BY <1>3, UrlStays, UploadsNat
  <2>2. Intro(to)' /\ AtHome(o[2].by, to)'
    BY <1>3, <2>1
  <2>3. o[2].by \in used' /\ url'[o[2].by] = url[o[2].by]
    BY <1>3, UrlStays
  <2>4. Origin(to, o[2].owner, o[2].row, o[2].by)'
    BY <1>3, <2>2, <2>3 DEF Origin
  <2>5. \A e \in raised' \ raised : EventOrigin(e)'
    BY <1>0, <2>2 DEF EventOrigin, Known
  <2> QED BY <1>0, <2>4, <2>5, PutOrigins
<1> QED BY <1>1, <1>2, <1>3 DEF Origin

LEMMA CopyCompanyOrigins ==
  ASSUME DocTypes, DocTypes', OriginInv, NEW c \in Calls, CopyCompany(c)
  PROVE  OriginInv'
<1>1. Later /\ UrlsApart'
  BY CallLater, ApartKept DEF DocCallStep, browser, Later, OriginInv
<1>2. UNCHANGED <<rows, uploads, removals>>
  BY DEF CopyCompany, CopyStep, fileRows, unawaited
<1>3. call[c].op = "onboarding" /\ CallOrigin(call[c])
  BY OriginOf DEF CopyCompany, CopyStep, Ready
<1>4. CASE \E o \in Object(call[c].key) : CopyTo(EmployeeKey, o) /\ Finish(c, {"copyCompany"})
  <2> PICK o \in Object(call[c].key) : CopyTo(EmployeeKey, o) /\ Finish(c, {"copyCompany"})
    BY <1>4
  <2>1. o \in stored /\ o[1] = call[c].key /\ Service(o[1])
    BY <1>3, ObjectKeys DEF CallOrigin
  <2>2. Origin(o[1], o[2].owner, o[2].row, o[2].by)
    BY <2>1 DEF OriginInv
  <2>3. Service(o[1]) /\ o[2].owner # "employee" /\ o[2].row = 0 /\ o[2].by = 0
    BY <2>1, <2>2 DEF Origin, Intro, Service
  <2>4. Service(EmployeeKey)
    <3>1. EmployeeKey \in FileKeys /\ EmployeeKey[1] = 0
      BY SmallKeys DEF EmployeeKey, MovedTo, NoKey, FileKey
    <3> QED BY <3>1, UrlNames, NamesNat DEF Service
  <2>5. Service(EmployeeKey)'
    BY <1>1, <2>4, ServiceKept
  <2>6. \A p \in stored' \ stored : Origin(p[1], p[2].owner, p[2].row, p[2].by)'
    <3>1. Origin(EmployeeKey, o[2].owner, o[2].row, o[2].by)'
      BY <2>3, <2>5 DEF Origin
    <3> QED BY <1>1, <3>1, PutOrigins DEF CopyTo
  <2>7. \A e \in raised' \ raised : EventOrigin(e)'
    BY <2>5 DEF CopyTo, EventOrigin, Known, Service, Intro
  <2>8. DocSteps(c) /\ \A l : l = call'[c] => CallOrigin(l)'
    BY <1>1, <1>3, FinishOrigins
  <2>9. \A l \in CallsNow' \ CallsNow : CallOrigin(l)'
    BY <2>8 DEF CallsNow, DocSteps
  <2> QED BY <1>1, <1>2, <2>6, <2>7, <2>9, NewOrigins
<1>5. CASE Finish(c, {"copyCompany"} \cup After("copyCompany")) /\ UNCHANGED <<stored, raised>>
  <2>1. "copySigned" \notin {"copyCompany"} \cup After("copyCompany")
    BY DEF After, Before
  <2>2. DocSteps(c) /\ \A l : l = call'[c] => CallOrigin(l)'
    BY <1>1, <1>3, <1>5, <2>1, FinishOrigins
  <2> QED BY <1>2, <1>5, <2>2, CallOrigins DEF DocCallStep
<1> QED BY <1>4, <1>5 DEF CopyCompany, CopyStep

\* An object of an upload that an onboarding moves is noted as one that came again.
LEMMA CopySignedOrigins ==
  ASSUME DocTypes, DocTypes', OriginInv, NEW c \in Calls, CopySigned(c)
  PROVE  OriginInv'
<1>1. Later /\ UrlsApart'
  BY CallLater, ApartKept DEF DocCallStep, browser, Later, OriginInv
<1>2. UNCHANGED <<rows, uploads, removals>>
  BY DEF CopySigned, CopyStep, fileRows, unawaited
<1> PICK k : k = call[c].ptr
  OBVIOUS
<1> PICK to : to = MovedTo(k)
  OBVIOUS
<1>3. call[c].op = "onboarding" /\ Pointer(SignedRow, k) /\ k \in FileKeys
  <2>1. call[c].op = "onboarding" /\ CallOrigin(call[c]) /\ "copySigned" \in call[c].left
    BY OriginOf DEF CopySigned, CopyStep, Ready
  <2>2. "pointSigned" \in call[c].left
    BY <2>1, DocLocalType DEF DocCallType, Planned
  <2> QED BY <2>1, <2>2, DocLocalType DEF CallOrigin, DocLocals
<1>6. to \in FileKeys /\ to[1] = k[1] /\ to[2] # 0
  <2>1. MovedTo(k) \in FileKeys
    BY <1>3, SmallKeys
  <2>2. MovedTo(k)[1] = k[1] /\ MovedTo(k)[2] = k[2] + 1 /\ k[2] \in Nat
    BY <1>3, SameNames
  <2> QED BY <2>1, <2>2
<1>4. CASE \E o \in Object(k) :
             /\ CopyTo(to, o) /\ Finish(c, {"copySigned"})
             /\ happened' = happened \cup Older(o)
                               \cup (IF o[2].by # 0 THEN {<<"again", to>>} ELSE {})
  <2> PICK o \in Object(k) :
             /\ CopyTo(to, o) /\ Finish(c, {"copySigned"})
             /\ happened' = happened \cup Older(o)
                               \cup (IF o[2].by # 0 THEN {<<"again", to>>} ELSE {})
    BY <1>4
  <2>1. o \in stored /\ o[1] = k /\ Origin(k, o[2].owner, o[2].row, o[2].by)
    BY ObjectKeys DEF OriginInv
  <2>2. o[2].by # 0 => Had("again", to)'
    BY DEF Had
  <2>3. ASSUME Intro(k), o[2].by # 0
        PROVE  Intro(to)' /\ AtHome(o[2].by, to)'
    <3>1. IsUrl(to[1])'
      BY <1>1, <1>6, <2>3, IsUrlKept DEF Intro
    <3>2. Intro(to)'
      BY <1>6, <2>2, <2>3, <3>1 DEF Intro
    <3> PICK u : u = o[2].by
      OBVIOUS
    <3>3. u \in used /\ AtHome(u, k)
      BY <2>1, <2>3 DEF Origin
    <3>4. url'[u] = url[u] /\ u \in Uploads /\ url[u] # None
      BY <1>1, <3>3, UrlStays
    <3>5. AtHome(u, to)'
      <4> SUFFICES ASSUME url[u].row = 0 PROVE Had("copied", u)' \/ Had("sameKey", url[u].key)'
        BY <3>4 DEF AtHome
      <4>1. CASE k = url[u].key
        BY <1>1, <1>3, <3>4, <4>1 DEF Pointer, SignedRow, Had, Later
      <4>2. CASE Had("copied", u) \/ Had("sameKey", url[u].key)
        BY <1>1, <3>4, <4>2 DEF Had, Later
      <4> QED BY <3>3, <4>1, <4>2 DEF AtHome
    <3> QED BY <3>2, <3>5 DEF AtHome
  <2>4. /\ \A p \in stored' \ stored : Origin(p[1], p[2].owner, p[2].row, p[2].by)'
        /\ \A e \in raised' \ raised : EventOrigin(e)'
    BY <1>1, <1>6, <2>1, <2>3, CopyOrigins
  <2>5. Intro(k) => o[2].by # 0
    BY <2>1, UrlStays, <1>1, UploadsNat DEF Origin, Intro, Service
  <2>6. \A j : j = call[c].ptr => (Intro(j) => Had("again", MovedTo(j))')
    BY <2>2, <2>5 DEF Had
  <2>7. DocSteps(c) /\ \A l : l = call'[c] => CallOrigin(l)'
    BY <1>1, <1>3, <2>6, FinishOrigins
  <2>9. \A l \in CallsNow' \ CallsNow : CallOrigin(l)'
    BY <2>7 DEF CallsNow, DocSteps
  <2> QED BY <1>1, <1>2, <2>4, <2>9, NewOrigins
<1>5. CASE Finish(c, {"copySigned"} \cup After("copySigned")) /\ UNCHANGED <<stored, raised>>
  <2>1. "pointSigned" \in {"copySigned"} \cup After("copySigned")
    BY DEF After, Before, SignedSteps
  <2>2. DocSteps(c) /\ \A l : l = call'[c] => CallOrigin(l)'
    BY <1>1, <1>3, <1>5, <2>1, FinishOrigins
  <2> QED BY <1>2, <1>5, <2>2, CallOrigins DEF DocCallStep
<1> QED BY <1>4, <1>5 DEF CopySigned, CopyStep

LEMMA LandOrigins ==
  ASSUME DocTypes, DocTypes', OriginInv, ObjectLands \/ ObjectLost \/ RemovalLands
  PROVE  OriginInv'
<1>1. Later
  BY BesidesLater
<1>2. UNCHANGED <<url, rows, raised, call>>
  BY DEF ObjectLands, ObjectLost, RemovalLands, browser, fileRows
<1>3. UrlsApart'
  BY <1>1, <1>2, ApartKept DEF Later, OriginInv
<1>4. uploads' \subseteq uploads /\ removals' \subseteq removals
  BY DEF ObjectLands, ObjectLost, RemovalLands
<1>5. \A o \in stored' \ stored : Origin(o[1], o[2].owner, o[2].row, o[2].by)'
  <2>1. CASE ObjectLands
    <3> PICK key \in uploads : Put(key, Silent)
      BY <2>1 DEF ObjectLands
    <3>1. Service(key)
      BY DEF OriginInv, Plain
    <3>2. Service(key)'
      BY <1>1, <3>1, ServiceKept
    <3>3. Origin(key, Silent.owner, Silent.row, Silent.by)'
      BY <3>2 DEF Origin, Silent
    <3> QED BY <1>1, <3>3, PutOrigins DEF Silent
  <2>2. CASE ObjectLost \/ RemovalLands
    BY <2>2 DEF ObjectLost, RemovalLands
  <2> QED BY <2>1, <2>2
<1>6. CallsNow' = CallsNow
  BY <1>2 DEF CallsNow
<1> QED BY <1>1, <1>2, <1>3, <1>4, <1>5, <1>6, NewOrigins

LEMMA PatchOrigins ==
  ASSUME DocTypes, DocTypes', OriginInv, PatchCopies
  PROVE  OriginInv'
<1>1. Later
  BY BesidesLater
<1>2. UNCHANGED <<url, rows, uploads, removals, call>>
  BY DEF PatchCopies, browser, fileRows, unawaited
<1>3. UrlsApart'
  BY <1>1, <1>2, ApartKept DEF Later, OriginInv
<1> PICK o \in stored : /\ CopyTo(PatchedTo(o[1]), o)
                        /\ {<<"copied", o[2].by>>, <<"copiedTo", PatchedTo(o[1])>>} \subseteq happened'
  BY DEF PatchCopies
<1> PICK to : to = PatchedTo(o[1])
  OBVIOUS
<1>4. o[1] \in FileKeys
  BY DEF DocTypes, DocStore, StoredTyped
<1>5. to \in FileKeys /\ to[1] = o[1][1] /\ to[3] # 0
  <2>1. PatchedTo(o[1]) \in FileKeys
    BY <1>4, SmallKeys
  <2>2. PatchedTo(o[1])[1] = o[1][1] /\ PatchedTo(o[1])[3] = o[1][3] + 1 /\ o[1][3] \in Nat
    BY <1>4, SameNames
  <2> QED BY <2>1, <2>2
<1>6. Had("copiedTo", to)' /\ Had("copied", o[2].by)'
  BY DEF Had
<1>7. Intro(o[1]) => Intro(to)'
  <2>1. Intro(o[1]) => IsUrl(to[1])'
    BY <1>1, <1>5, IsUrlKept DEF Intro
  <2> QED BY <1>5, <1>6, <2>1 DEF Intro
<1>8. AtHome(o[2].by, to)'
  BY <1>6 DEF AtHome
<1>9. /\ \A p \in stored' \ stored : Origin(p[1], p[2].owner, p[2].row, p[2].by)'
      /\ \A e \in raised' \ raised : EventOrigin(e)'
  BY <1>1, <1>5, <1>7, <1>8, CopyOrigins
<1>10. CallsNow' = CallsNow
  BY <1>2 DEF CallsNow
<1> QED BY <1>1, <1>2, <1>3, <1>9, <1>10, NewOrigins

LEMMA PutObjectOrigins ==
  ASSUME DocTypes, DocTypes', OriginInv, PutObject
  PROVE  OriginInv'
<1>1. Later
  BY BesidesLater
<1>2. UNCHANGED <<url, rows, uploads, removals, call>>
  BY DEF PutObject, fileRows, unawaited
<1>3. UrlsApart'
  BY <1>1, <1>2, ApartKept DEF Later, OriginInv
<1> PICK u \in Uploads \ used :
            /\ url[u] # None
            /\ used' = used \cup {u}
            /\ Put(url[u].key, [owner |-> url[u].owner, row |-> url[u].row, by |-> u])
            /\ raised' = raised \cup {[key |-> url[u].key, by |-> u]}
  BY PutDoes
<1> PICK k : k = url[u].key
  OBVIOUS
<1>4. k \in FileKeys /\ k[2] = 0 /\ k[3] = 0 /\ url'[u] = url[u] /\ u \in used'
  BY <1>2, UrlIsPlain
<1>5. Intro(k)'
  BY <1>2, <1>4 DEF Intro, IsUrl
<1>6. AtHome(u, k)'
  BY <1>4 DEF AtHome
<1>7. \A o \in stored' \ stored : Origin(o[1], o[2].owner, o[2].row, o[2].by)'
  <2> DEFINE meta == [owner |-> url[u].owner, row |-> url[u].row, by |-> u]
  <2> PICK owner, row : owner = url[u].owner /\ row = url[u].row
    OBVIOUS
  <2>1. Origin(k, owner, row, u)'
    BY <1>4, <1>5, <1>6 DEF Origin
  <2>2. \A o \in stored' \ stored : o[1] = k /\ o[2].owner = owner /\ o[2].row = row /\ o[2].by = u
    BY DEF Put
  <2> QED BY <2>1, <2>2
<1>8. \A e \in raised' \ raised : EventOrigin(e)'
  <2>1. \A e \in raised' \ raised : e.key = k /\ e.by = u
    OBVIOUS
  <2> QED BY <1>4, <1>5, <2>1 DEF EventOrigin, Known
<1>9. CallsNow' = CallsNow
  BY <1>2 DEF CallsNow
<1> QED BY <1>1, <1>2, <1>3, <1>7, <1>8, <1>9, NewOrigins

LEMMA GenerateOrigins ==
  ASSUME DocTypes, DocTypes', OriginInv, GenerateUrl
  PROVE  OriginInv'
<1>1. Later
  BY BesidesLater
<1>2. UNCHANGED <<stored, raised, rows, uploads, removals, call>>
  BY DEF GenerateUrl, fileRows, unawaited
<1> PICK u \in Uploads, new \in Urls :
            /\ url[u] = None /\ url'[u] = new
            /\ \A v \in Uploads \ {u} : url'[v] = url[v]
            /\ happened \subseteq happened'
            /\ (\E v \in Uploads : url[v] # None /\ url[v].key = new.key) =>
                  <<"sameKey", new.key>> \in happened'
  BY UrlGiven
<1>3. UrlsApart'
  <2> SUFFICES ASSUME NEW v \in Uploads, NEW w \in Uploads, url'[v] # None, url'[w] # None,
                      v # w, url'[v].key = url'[w].key
               PROVE  <<"sameKey", url'[v].key>> \in happened'
    BY DEF UrlsApart, Had
  <2>1. CASE v # u /\ w # u
    BY <2>1 DEF OriginInv, UrlsApart, Had
  <2>2. CASE v = u \/ w = u
    BY <2>2
  <2> QED BY <2>1, <2>2
<1>4. CallsNow' = CallsNow
  BY <1>2 DEF CallsNow
<1> QED BY <1>1, <1>2, <1>3, <1>4, NewOrigins

LEMMA OriginsKept ==
  ASSUME DocTypes, DocTypes', OriginInv, DocNext
  PROVE  OriginInv'
<1>1. CASE GenerateUrl \/ PutObject \/ ObjectLands \/ ObjectLost \/ RemovalLands \/ PatchCopies
  BY <1>1, GenerateOrigins, PutObjectOrigins, LandOrigins, PatchOrigins
<1>2. ASSUME NEW c \in Calls, DocCallStep(c) PROVE OriginInv'
  <2>1. CASE Deliver(c) \/ HeadObject(c) \/ CreateEsignatureMetadata(c) \/ InsertUploaded(c)
    BY <2>1, DeliverOrigins, HeadOrigins, MetaOrigins, InsertUploadedOrigins
  <2>2. CASE LoadCurrent(c) \/ UpdatePointer(c) \/ Request(c) \/ ReadForEdit(c) \/ WriteBack(c)
    BY <2>2, LoadCurrentOrigins, UpdatePointerOrigins, RequestOrigins, ReadForEditOrigins, WriteBackOrigins
  <2>3. CASE \/ ReadForReplace(c) \/ ReplaceFile(c)
             \/ DeleteCompanyDocument(c) \/ DeleteEmployeeDocument(c)
    BY <2>3, ReadForReplaceOrigins, ReplaceFileOrigins, LoadForDeleteOrigins
  <2>6. CASE DeleteCompanyDocumentRecord(c) \/ DeleteEmployeeDocumentRecord(c) \/ Saved(c) \/ DocFail(c)
    <3>1. DocOver(c)
      BY <2>6, DropDoes, SavedTypes, DocFailTypes
         DEF DeleteCompanyDocumentRecord, DeleteEmployeeDocumentRecord
    <3>2. UNCHANGED <<stored, raised, uploads, removals>> /\ rows' \subseteq rows
      BY <2>6 DEF DeleteCompanyDocumentRecord, DeleteEmployeeDocumentRecord, DropRow, Saved, DocFail,
         unawaited, fileRows
    <3> QED BY <1>2, <3>1, <3>2, OverOrigin, CallOrigins DEF DocOver, Now
  <2>4. CASE \/ CreateCompanyDocument(c) \/ ChooseKey(c) \/ InsertMetadata(c) \/ InsertCompanyFile(c)
             \/ SaveOnboarding(c) \/ ListTaskList(c) \/ ListSigned(c) \/ RowForEmployee(c)
    BY <2>4, CreationOrigins, ChooseKeyOrigins, InsertMetadataOrigins, InsertCompanyFileOrigins,
       SaveOnboardingOrigins, ListTaskOrigins, ListSignedOrigins, EmployeeRowOrigins
  <2>5. CASE \/ CopyCompany(c) \/ CopySigned(c) \/ DeleteSigned(c) \/ PointSigned(c) \/ OneFails(c)
    BY <2>5, CopyCompanyOrigins, CopySignedOrigins, DeleteSignedOrigins, PointSignedOrigins,
       OneFailsOrigins
  <2> QED BY <1>2, <2>1, <2>2, <2>3, <2>4, <2>5, <2>6 DEF DocCallStep
<1> QED BY <1>1, <1>2 DEF DocNext
-----------------------------------------------------------------------------
(* Every step keeps the keys.                                              *)

LEMMA RepeatedStays ==
  ASSUME happened \subseteq happened', NEW k, Repeated(k)
  PROVE  Repeated(k)'
BY DEF Repeated, Had

\* Who has a key knows it.
LEMMA HolderKnows ==
  ASSUME OriginInv, NEW k, NEW x, Holder(k, x)
  PROVE  Pointer(x, k) /\ Known(k)
<1>1. CASE \E r \in rows : r.ptr = k /\ r.id = x
  BY <1>1 DEF OriginInv, RowOrigin, Pointer
<1>2. ASSUME NEW c \in Calls, Holds(c, k, x) PROVE Pointer(x, k)
  BY <1>2, OriginOf DEF Holds, CallOrigin
<1> QED BY <1>1, <1>2 DEF Holder, Pointer

LEMMA BringsKnows ==
  ASSUME OriginInv, NEW k, NEW c \in Calls, Brings(c, k)
  PROVE  Known(k) /\ (IsUrl(k[1]) \/ Plain(k))
BY OriginOf DEF Brings, CallOrigin, SaveOrigin, Plain, Known

LEMMA TakenKnown ==
  ASSUME OriginInv, NEW k, Taken(k)
  PROVE  Known(k)
BY HolderKnows DEF Taken, OriginInv

LEMMA ToldKnown ==
  ASSUME OriginInv, NEW k, Told(k)
  PROVE  Known(k)
BY DEF Told, OriginInv, EventOrigin

\* The other calls, in a step of c.
LEMMA OthersKeep ==
  ASSUME NEW c \in Calls, DocSteps(c), UNCHANGED url, NEW k, NEW d \in Calls \ {c}
  PROVE  /\ Brings(d, k)' <=> Brings(d, k)
         /\ \A x : Holds(d, k, x)' <=> Holds(d, k, x)
<1>1. call'[d] = call[d] /\ (IsUrl(k[1])' <=> IsUrl(k[1]))
  BY DEF DocSteps, IsUrl
<1> QED BY <1>1 DEF Brings, Holds

\* A step of c that gives the key k to none who had it not.
LEMMA KeyStays ==
  ASSUME KeyInv, NEW k \in FileKeys, NEW c \in Calls, DocSteps(c), UNCHANGED url,
         happened \subseteq happened',
         \A e \in raised' : e.key = k => e \in raised,
         Brings(c, k)' => Brings(c, k),
         k \in removals' => Taken(k),
         \A x \in 1 .. MaxRows : Holds(c, k, x)' => Holder(k, x),
         \A r \in rows' : r.ptr = k => Holder(k, r.id)
  PROVE  KeyOk(k)'
<1>0. KeyOk(k)
  BY DEF KeyInv
<1>1. Repeated(k) => Repeated(k)'
  BY RepeatedStays
<1>2. Told(k)' => Told(k)
  BY DEF Told, IsUrl
<1>3. \A d \in Calls : Brings(d, k)' => Brings(d, k)
  BY OthersKeep
<1>4. \A x \in 1 .. MaxRows : Holder(k, x)' => Holder(k, x)
  <2> SUFFICES ASSUME NEW x \in 1 .. MaxRows, Holder(k, x)' PROVE Holder(k, x)
    OBVIOUS
  <2>1. CASE \E r \in rows' : r.ptr = k /\ r.id = x
    BY <2>1
  <2>2. ASSUME NEW d \in Calls, Holds(d, k, x)' PROVE Holder(k, x)
    <3>1. CASE d = c
      BY <2>2, <3>1
    <3>2. CASE d # c
      <4>1. Holds(d, k, x)
        BY <2>2, <3>2, OthersKeep
      <4> QED BY <4>1 DEF Holder
    <3> QED BY <3>1, <3>2
  <2> QED BY <2>1, <2>2 DEF Holder
<1>5. Taken(k)' => Taken(k)
  BY <1>4 DEF Taken
<1> QED BY <1>0, <1>1, <1>2, <1>3, <1>4, <1>5 DEF KeyOk

\* c gives the key it brings to row i.
LEMMA KeyGiven ==
  ASSUME DocTypes, KeyInv, NEW k \in FileKeys, NEW c \in Calls, DocOver(c), UNCHANGED url,
         happened \subseteq happened', UNCHANGED <<raised, removals>>,
         Brings(c, k), NEW i,
         \A r \in rows' : r.ptr = k => Holder(k, r.id) \/ r.id = i,
         \A r \in rows' : r.id \in 1 .. MaxRows
  PROVE  KeyOk(k)'
<1>0. KeyOk(k) /\ DocSteps(c)
  BY DEF KeyInv, DocOver, Now
<1>1. Repeated(k) => Repeated(k)'
  BY RepeatedStays
<1>2. SUFFICES ASSUME ~ Repeated(k) PROVE KeyOk(k)'
  BY <1>1 DEF KeyOk
<1>3. ~ Taken(k) /\ ~ Told(k) /\ \A d \in Calls \ {c} : ~ Brings(d, k)
  BY <1>0, <1>2 DEF KeyOk
<1>4. ~ Brings(c, k)' /\ \A x : ~ Holds(c, k, x)'
  BY DocOperates DEF DocOver, Now, Brings, Holds
<1>5. ~ Told(k)'
  BY <1>3 DEF Told, IsUrl
<1>6. \A d \in Calls : ~ Brings(d, k)'
  BY <1>0, <1>3, <1>4, OthersKeep
<1>7. \A x \in 1 .. MaxRows : Holder(k, x)' => x = i
  <2> SUFFICES ASSUME NEW x \in 1 .. MaxRows, Holder(k, x)', x # i PROVE FALSE
    OBVIOUS
  <2>1. ~ Holder(k, x)
    BY <1>3 DEF Taken
  <2>2. ~ \E r \in rows' : r.ptr = k /\ r.id = x
    BY <2>1
  <2>3. \A d \in Calls : ~ Holds(d, k, x)'
    BY <1>0, <1>4, <2>1, OthersKeep DEF Holder
  <2> QED BY <2>2, <2>3 DEF Holder
<1> QED BY <1>5, <1>6, <1>7 DEF KeyOk

\* A key that none knew is announced.
LEMMA KeyAnnounced ==
  ASSUME OriginInv, NEW k \in FileKeys, ~ Known(k), UNCHANGED <<call, rows, removals>>,
         \A u \in Uploads : url'[u] = url[u],
         \A e, f \in raised' : e.key = k /\ f.key = k => e = f
  PROVE  KeyOk(k)'
<1>1. /\ ~ Taken(k) /\ \A c \in Calls : ~ Brings(c, k)
      /\ \A x : ~ Holder(k, x)
  BY TakenKnown, BringsKnows, HolderKnows
<1>2. \A c \in Calls : ~ Brings(c, k)'
  BY <1>1 DEF Brings, IsUrl
<1>3. \A x : ~ Holder(k, x)'
  BY <1>1 DEF Holder, Holds
<1>4. ~ Taken(k)'
  BY <1>1, <1>3 DEF Taken
<1> QED BY <1>2, <1>3, <1>4 DEF KeyOk

\* A step of no call that announces no key of a URL but known ones.
LEMMA KeyBesides ==
  ASSUME KeyInv, NEW k \in FileKeys, happened \subseteq happened', UNCHANGED <<call, rows>>,
         removals' \subseteq removals,
         Told(k)' => Told(k) /\ \A e \in raised' : e.key = k => e \in raised,
         \A c \in Calls : Brings(c, k)' => Brings(c, k)
  PROVE  KeyOk(k)'
<1>0. KeyOk(k)
  BY DEF KeyInv
<1>1. Repeated(k) => Repeated(k)'
  BY RepeatedStays
<1>4. \A x \in 1 .. MaxRows : Holder(k, x)' => Holder(k, x)
  BY DEF Holder, Holds
<1>5. Taken(k)' => Taken(k)
  BY <1>4 DEF Taken
<1> QED BY <1>0, <1>1, <1>4, <1>5 DEF KeyOk

LEMMA RowIds ==
  ASSUME DocTypes
  PROVE  /\ \A r \in rows : r.id \in 1 .. MaxRows /\ r.ptr \in FileKeys
         /\ \A k : \A r \in rows : r.ptr = k => Holder(k, r.id) /\ Taken(k)
BY DEF DocTypes, DocStore, RowsTyped, FileRecords, Holder, Taken

\* c takes a step that gives no key.
LEMMA KeysStay ==
  ASSUME DocTypes, KeyInv, NEW c \in Calls, DocCallStep(c), DocSteps(c),
         raised' \subseteq raised, rows' \subseteq rows,
         \A k \in removals' \ removals : Taken(k),
         \A k \in FileKeys : Brings(c, k)' => Brings(c, k),
         \A k \in FileKeys, x \in 1 .. MaxRows : Holds(c, k, x)' => Holder(k, x)
  PROVE  KeyInv'
<1> SUFFICES ASSUME NEW k \in FileKeys PROVE KeyOk(k)'
  BY DEF KeyInv
<1>1. UNCHANGED url /\ happened \subseteq happened'
  BY CallLater DEF browser, Later
<1>2. k \in removals' => Taken(k)
  BY DEF Taken
<1>3. \A r \in rows' : r.ptr = k => Holder(k, r.id)
  BY RowIds
<1> QED BY <1>1, <1>2, <1>3, KeyStays

LEMMA OverKeeps ==
  ASSUME NEW c \in Calls, DocOver(c), NEW k
  PROVE  ~ Brings(c, k)' /\ \A x : ~ Holds(c, k, x)'
BY DocOperates DEF DocOver, Now, Brings, Holds

LEMMA OverKeys ==
  ASSUME DocTypes, KeyInv, NEW c \in Calls, DocCallStep(c), DocOver(c),
         raised' \subseteq raised, rows' \subseteq rows, removals' \subseteq removals
  PROVE  KeyInv'
BY OverKeeps, KeysStay DEF DocOver, Now

\* A save that goes on has its key.
LEMMA SaveKeeps ==
  ASSUME NEW c \in Calls, UNCHANGED url, call[c].op = "save", NEW pc, NEW row, NEW ptr, NEW by,
         Now(c, "save", pc, call[c].key, row, ptr, by, {}), NEW k
  PROVE  (Brings(c, k)' => Brings(c, k)) /\ \A x : ~ Holds(c, k, x)'
BY DEF Now, Brings, Holds, IsUrl

LEMMA DeliverKeys ==
  ASSUME DocTypes, DocTypes', OriginInv, KeyInv, NEW c \in Calls, Deliver(c)
  PROVE  KeyInv'
<1> SUFFICES ASSUME NEW k \in FileKeys PROVE KeyOk(k)'
  BY DEF KeyInv
<1>1. UNCHANGED url /\ happened \subseteq happened'
  BY CallLater DEF browser, Later, DocCallStep
<1>2. UNCHANGED <<rows, removals>>
  BY DEF Deliver, fileRows, unawaited
<1>3. PICK e \in raised :
            /\ Starts(c, "save", "head", e.key, 0)
            /\ \/ raised' = raised \ {e}
               \/ raised' = raised /\ <<"again", e.key>> \in happened'
  BY DeliverDoes
<1>4. DocSteps(c) /\ (Brings(c, k)' => k = e.key /\ IsUrl(k[1])) /\ \A x : ~ Holds(c, k, x)'
  BY <1>1, <1>3 DEF Starts, Now, Brings, Holds, IsUrl
<1>5. CASE k # e.key \/ ~ IsUrl(k[1])
  <2>1. \A r \in rows' : r.ptr = k => Holder(k, r.id)
    BY <1>2, RowIds
  <2>2. k \in removals' => Taken(k)
    BY <1>2 DEF Taken
  <2>3. \A f \in raised' : f.key = k => f \in raised
    BY <1>3
  <2> QED BY <1>1, <1>4, <1>5, <2>1, <2>2, <2>3, KeyStays
<1>6. CASE k = e.key /\ IsUrl(k[1])
  <2> SUFFICES ASSUME ~ Repeated(k)' PROVE KeyOk(k)'
    BY DEF KeyOk
  <2>1. KeyOk(k) /\ ~ Repeated(k) /\ Told(k)
    BY <1>1, <1>6, RepeatedStays DEF KeyInv, Told
  <2>2. raised' = raised \ {e}
    BY <1>3, <1>6 DEF Repeated, Had
  <2>3. ~ Told(k)'
    BY <1>6, <2>1, <2>2 DEF KeyOk, Told
  <2>4. \A d \in Calls : ~ Brings(d, k)
    BY <2>1 DEF KeyOk
  <2>5. \A d \in Calls \ {c} : ~ Brings(d, k)'
    BY <1>1, <1>4, <2>4, OthersKeep
  <2>6. \A x : Holder(k, x)' => Holder(k, x)
    <3> SUFFICES ASSUME NEW x, Holder(k, x)' PROVE Holder(k, x)
      OBVIOUS
    <3>1. \A d \in Calls : Holds(d, k, x)' => Holds(d, k, x)
      BY <1>1, <1>4, OthersKeep
    <3> QED BY <1>2, <3>1 DEF Holder
  <2>7. ~ Taken(k)'
    BY <1>2, <2>1, <2>6 DEF KeyOk, Taken
  <2> QED BY <2>1, <2>3, <2>5, <2>6, <2>7 DEF KeyOk
<1> QED BY <1>5, <1>6

LEMMA HeadKeys ==
  ASSUME DocTypes, KeyInv, NEW c \in Calls, HeadObject(c)
  PROVE  KeyInv'
<1>1. UNCHANGED <<url, raised, rows, removals>> /\ call[c].op = "save" /\ DocCallStep(c)
  BY DEF HeadObject, fileRows, unawaited, browser, At, DocCallStep
<1>2. CASE DocOver(c)
  BY <1>1, <1>2, OverKeys
<1>3. ASSUME NEW o \in Object(call[c].key),
             Now(c, "save", NextStep(o[2]), call[c].key, o[2].row, call[c].ptr, o[2].by, {})
      PROVE  KeyInv'
  BY <1>1, <1>3, SaveKeeps, KeysStay DEF Now
<1> QED BY <1>2, <1>3, HeadDoes

LEMMA MetaKeys ==
  ASSUME DocTypes, KeyInv, NEW c \in Calls, CreateEsignatureMetadata(c)
  PROVE  KeyInv'
<1>1. UNCHANGED <<url, raised, rows, removals>> /\ call[c].op = "save" /\ DocCallStep(c)
      /\ call[c].left = {}
  BY DocLocalType DEF CreateEsignatureMetadata, fileRows, unawaited, browser, At, DocCallStep
<1>2. CASE DocOver(c)
  BY <1>1, <1>2, OverKeys
<1>3. CASE DocPlace(c, "companyFile")
  BY <1>1, <1>3, SaveKeeps, KeysStay DEF DocPlace, Now
<1> QED BY <1>2, <1>3, MetaDoes

LEMMA LoadTakes ==
  ASSUME DocTypes, NEW id,
         removals' = removals \/ \E r \in Row(id) : removals' = removals \cup {r.ptr}
  PROVE  \A k \in removals' \ removals : Taken(k)
BY RowIds DEF Row

LEMMA LoadCurrentKeys ==
  ASSUME DocTypes, KeyInv, NEW c \in Calls, LoadCurrent(c)
  PROVE  KeyInv'
<1>1. UNCHANGED <<url, raised, rows>> /\ call[c].op = "save" /\ DocCallStep(c)
      /\ call[c].left = {}
  BY DocLocalType DEF LoadCurrent, fileRows, browser, At, DocCallStep
<1>2. CASE DocOver(c) /\ UNCHANGED removals
  BY <1>1, <1>2, OverKeys
<1>3. CASE DocPlace(c, "point") /\ \E r \in Row(call[c].row) : removals' = removals \cup {r.ptr}
  <2>1. \A k \in removals' \ removals : Taken(k)
    BY <1>3, LoadTakes
  <2> QED BY <1>1, <1>3, <2>1, SaveKeeps, KeysStay DEF DocPlace, Now
<1> QED BY <1>2, <1>3, LoadCurrentDoes

LEMMA LoadForDeleteKeys ==
  ASSUME DocTypes, KeyInv, NEW c \in Calls, DeleteCompanyDocument(c) \/ DeleteEmployeeDocument(c)
  PROVE  KeyInv'
<1>0. LoadForDelete(c) /\ call[c].op \in {"deleteCompany", "deleteEmployee"} /\ DocCallStep(c)
  BY DEF DeleteCompanyDocument, DeleteEmployeeDocument, At, DocCallStep
<1>1. UNCHANGED <<url, raised, rows>>
  BY <1>0 DEF LoadForDelete, fileRows, browser
<1>2. CASE DocOver(c) /\ UNCHANGED removals
  BY <1>0, <1>1, <1>2, OverKeys
<1>3. CASE DocPlace(c, "drop") /\ \E r \in Row(call[c].row) : removals' = removals \cup {r.ptr}
  <2>1. \A k \in removals' \ removals : Taken(k)
    BY <1>3, LoadTakes
  <2>2. \A k : ~ Brings(c, k)' /\ \A x : ~ Holds(c, k, x)'
    BY <1>0, <1>3 DEF DocPlace, Now, Brings, Holds
  <2> QED BY <1>0, <1>1, <1>3, <2>1, <2>2, KeysStay DEF DocPlace, Now
<1> QED BY <1>0, <1>2, <1>3, LoadForDeleteDoes

LEMMA DropKeys ==
  ASSUME DocTypes, KeyInv, NEW c \in Calls,
         DeleteCompanyDocumentRecord(c) \/ DeleteEmployeeDocumentRecord(c) \/ Saved(c) \/ DocFail(c)
  PROVE  KeyInv'
<1>1. DocOver(c) /\ DocCallStep(c)
  BY DropDoes, SavedTypes, DocFailTypes
     DEF DeleteCompanyDocumentRecord, DeleteEmployeeDocumentRecord, DocCallStep
<1>2. UNCHANGED <<raised, removals>> /\ rows' \subseteq rows
  BY DEF DeleteCompanyDocumentRecord, DeleteEmployeeDocumentRecord, DropRow, Saved, DocFail,
         unawaited, fileRows
<1> QED BY <1>1, <1>2, OverKeys

LEMMA StartKeys ==
  ASSUME DocTypes, KeyInv, NEW c \in Calls,
         Request(c) \/ CreateCompanyDocument(c) \/ SaveOnboarding(c)
  PROVE  KeyInv'
<1>1. PICK op, id : op # "save" /\ Starts(c, op, "read", NoKey, id)
  BY RequestDoes, CreationDoes, SaveOnboardingDoes
<1>2. UNCHANGED <<raised, removals, rows>>
  BY DEF Request, CreateCompanyDocument, SaveOnboarding, unawaited, fileRows
<1>3. \A k : ~ Brings(c, k)' /\ \A x : ~ Holds(c, k, x)'
  BY <1>1 DEF Starts, Now, Brings, Holds
<1> QED BY <1>1, <1>2, <1>3, KeysStay DEF Starts, Now, DocCallStep

LEMMA ReadKeys ==
  ASSUME DocTypes, KeyInv, NEW c \in Calls, ReadForEdit(c) \/ ReadForReplace(c)
  PROVE  KeyInv'
<1>1. UNCHANGED <<raised, removals, rows>> /\ DocCallStep(c)
  BY DEF ReadForEdit, ReadForReplace, unawaited, fileRows, DocCallStep
<1>2. CASE DocOver(c)
  BY <1>1, <1>2, OverKeys
<1>3. ASSUME NEW r \in Row(call[c].row),
             \/ Now(c, "edit", "write", call[c].key, call[c].row, r.ptr, call[c].by, {})
             \/ Now(c, "replace", "upload", call[c].key, call[c].row, r.ptr, call[c].by, {})
      PROVE  KeyInv'
  <2>1. r \in rows /\ r.id = call[c].row
    BY DEF Row
  <2>2. \A k : ~ Brings(c, k)' /\ \A x : Holds(c, k, x)' => k = r.ptr /\ x = r.id
    BY <1>3, <2>1 DEF Now, Brings, Holds
  <2>3. Holder(r.ptr, r.id)
    BY <2>1, RowIds
  <2> QED BY <1>1, <1>3, <2>2, <2>3, KeysStay DEF Now
<1>4. CASE ReadForEdit(c)
  <2>1. CASE \E r \in Row(call[c].row) :
              Now(c, "edit", "write", call[c].key, call[c].row, r.ptr, call[c].by, {})
    BY <1>3, <2>1
  <2> QED BY <1>2, <1>4, <2>1, ReadForEditDoes
<1>5. CASE ReadForReplace(c)
  <2>1. CASE \E r \in Row(call[c].row) :
              Now(c, "replace", "upload", call[c].key, call[c].row, r.ptr, call[c].by, {})
    BY <1>3, <2>1
  <2> QED BY <1>2, <1>5, <2>1, ReadForReplaceDoes
<1> QED BY <1>4, <1>5

LEMMA InsertMetadataKeys ==
  ASSUME DocTypes, KeyInv, NEW c \in Calls, InsertMetadata(c)
  PROVE  KeyInv'
<1>1. UNCHANGED <<raised, removals, rows>> /\ DocCallStep(c) /\ DocPlace(c, "insert")
      /\ call[c].op = "create" /\ call[c].pc = "meta"
  BY InsertMetadataTypes DEF InsertMetadata, At, unawaited, fileRows, DocCallStep
<1>2. \A k : (Brings(c, k)' => Brings(c, k)) /\ \A x : ~ Holds(c, k, x)'
  BY <1>1 DEF DocPlace, Now, Brings, Holds
<1> QED BY <1>1, <1>2, KeysStay DEF DocPlace, Now

LEMMA ListTaskKeys ==
  ASSUME DocTypes, KeyInv, NEW c \in Calls, ListTaskList(c)
  PROVE  KeyInv'
<1>1. UNCHANGED <<raised, removals, rows>> /\ DocCallStep(c) /\ call[c].op = "onboarding"
  BY DEF ListTaskList, At, unawaited, fileRows, DocCallStep
<1>2. DocSteps(c) /\ \A k : ~ Brings(c, k)' /\ \A x : ~ Holds(c, k, x)'
  <2>1. CASE DocPlace(c, "list") /\ call[c].left = {}
    BY <1>1, <2>1 DEF DocPlace, Now, Brings, Holds
  <2>2. ASSUME NEW r \in Row(CompanyRow),
               Now(c, "onboarding", "list", r.ptr, 0, call[c].ptr, call[c].by, CompanySteps)
        PROVE  DocSteps(c) /\ \A k : ~ Brings(c, k)' /\ \A x : ~ Holds(c, k, x)'
    BY <2>2, StepsOfOnboarding DEF Now, Brings, Holds
  <2> QED BY <2>1, <2>2, ListTaskDoes
<1> QED BY <1>1, <1>2, KeysStay

LEMMA ListSignedKeys ==
  ASSUME DocTypes, KeyInv, NEW c \in Calls, ListSigned(c)
  PROVE  KeyInv'
<1>1. UNCHANGED <<raised, removals, rows>> /\ DocCallStep(c) /\ call[c].op = "onboarding"
  BY DEF ListSigned, At, unawaited, fileRows, DocCallStep
<1>2. DocSteps(c) /\ \A k : ~ Brings(c, k)' /\ \A x : Holds(c, k, x)' => Holder(k, x)
  <2>1. CASE DocPlace(c, "run") /\ call[c].left \cap SignedSteps = {}
    BY <1>1, <2>1, StepsOfOnboarding DEF DocPlace, Now, Brings, Holds
  <2>2. ASSUME NEW r \in Row(SignedRow),
               Now(c, "onboarding", "run", call[c].key, call[c].row, r.ptr, call[c].by,
                     call[c].left \cup SignedSteps)
        PROVE  DocSteps(c) /\ \A k : ~ Brings(c, k)' /\ \A x : Holds(c, k, x)' => Holder(k, x)
    <3>1. r \in rows /\ r.id = SignedRow
      BY DEF Row
    <3>2. \A k : ~ Brings(c, k)' /\ \A x : Holds(c, k, x)' => k = r.ptr /\ x = r.id
      BY <2>2, <3>1 DEF Now, Brings, Holds
    <3>3. Holder(r.ptr, r.id)
      BY <3>1, RowIds
    <3> QED BY <2>2, <3>2, <3>3 DEF Now
  <2> QED BY <2>1, <2>2, ListSignedDoes
<1> QED BY <1>1, <1>2, KeysStay

\* An onboarding whose steps get fewer holds no more than it did.
LEMMA FinishHolds ==
  ASSUME DocTypes, NEW c \in Calls, call[c].op = "onboarding", NEW steps, Finish(c, steps)
  PROVE  DocSteps(c) /\ \A k : ~ Brings(c, k)' /\ \A x : Holds(c, k, x)' => Holder(k, x)
BY FinishNow DEF Now, Brings, Holds, Holder

LEMMA FinishKeys ==
  ASSUME DocTypes, KeyInv, NEW c \in Calls, OneFails(c) \/ DeleteSigned(c)
  PROVE  KeyInv'
<1>1. UNCHANGED <<raised, removals, rows>> /\ DocCallStep(c)
  BY DEF OneFails, DeleteSigned, unawaited, fileRows, DocCallStep
<1>2. \E steps : call[c].op = "onboarding" /\ Finish(c, steps)
  BY DEF OneFails, DeleteSigned, Ready
<1> QED BY <1>1, <1>2, FinishHolds, KeysStay

\* A step of c that writes a key k into row i, and changes no other.
LEMMA KeyWritten ==
  ASSUME DocTypes, DocTypes', KeyInv, NEW c \in Calls, DocCallStep(c), DocOver(c),
         UNCHANGED <<raised, removals>>, NEW k \in FileKeys, NEW i,
         \A r \in rows' : (r.ptr = k /\ r.id = i) \/ Holder(r.ptr, r.id),
         Brings(c, k) \/ Holder(k, i)
  PROVE  KeyInv'
<1> SUFFICES ASSUME NEW j \in FileKeys PROVE KeyOk(j)'
  BY DEF KeyInv
<1>1. UNCHANGED url /\ happened \subseteq happened'
  BY CallLater DEF browser, Later
<1>2. \A r \in rows' : r.id \in 1 .. MaxRows
  BY DEF DocTypes, DocStore, RowsTyped, FileRecords
<1>3. CASE j = k /\ Brings(c, k)
  <2>1. \A r \in rows' : r.ptr = k => Holder(k, r.id) \/ r.id = i
    OBVIOUS
  <2> QED BY <1>1, <1>2, <1>3, <2>1, KeyGiven
<1>4. CASE j # k \/ Holder(k, i)
  <2>1. \A r \in rows' : r.ptr = j => Holder(j, r.id)
    BY <1>4
  <2>2. j \in removals' => Taken(j)
    BY DEF Taken
  <2>3. ~ Brings(c, j)' /\ \A x : ~ Holds(c, j, x)'
    BY OverKeeps
  <2> QED BY <1>1, <2>1, <2>2, <2>3, KeyStays DEF DocOver, Now
<1> QED BY <1>3, <1>4

LEMMA InsertUploadedKeys ==
  ASSUME DocTypes, DocTypes', OriginInv, KeyInv, NEW c \in Calls, InsertUploaded(c)
  PROVE  KeyInv'
<1>1. DocOver(c) /\ DocCallStep(c)
  BY InsertUploadedTypes DEF DocCallStep
<1>2. UNCHANGED <<raised, removals>>
  BY DEF InsertUploaded, unawaited
<1> PICK m : m = call[c]
  OBVIOUS
<1>3. CallOrigin(m) /\ m.op = "save" /\ m.pc \in {"file", "companyFile"}
      /\ m.key \in FileKeys /\ m.by \in {0} \cup Uploads
  BY OriginOf, DocLocalType DEF InsertUploaded, DocLocals
<1>4. Intro(m.key)
  BY <1>3 DEF CallOrigin, SaveOrigin, Known
<1>5. Brings(c, m.key)
  BY <1>3, <1>4 DEF Brings, Intro
<1>6. \A r \in rows' : (r.ptr = m.key /\ r.id = ids + 1) \/ Holder(r.ptr, r.id)
  <2> DEFINE owner == IF m.pc = "file" THEN "employee" ELSE "company"
  <2>1. Insert(owner, m.key, m.by) /\ owner \in Owners \ {"none"}
    BY DEF InsertUploaded, Owners
  <2> HIDE DEF owner
  <2>2. \E n : rows' = rows \cup {n} /\ n.id = ids + 1 /\ n.ptr = m.key
    BY <2>1, InsertRow
  <2> QED BY <2>2, RowIds
<1> QED BY <1>1, <1>2, <1>3, <1>5, <1>6, KeyWritten

LEMMA InsertCompanyFileKeys ==
  ASSUME DocTypes, DocTypes', OriginInv, KeyInv, NEW c \in Calls, InsertCompanyFile(c)
  PROVE  KeyInv'
<1>1. DocOver(c) /\ DocCallStep(c)
  BY InsertCompanyFileTypes DEF DocCallStep
<1>2. UNCHANGED <<raised, removals>>
  BY DEF InsertCompanyFile, unawaited
<1> PICK m : m = call[c]
  OBVIOUS
<1>3. m.op = "create" /\ m.pc = "insert" /\ m.key \in FileKeys
  BY DocLocalType DEF InsertCompanyFile, DocLocals, At
<1>5. Brings(c, m.key)
  BY <1>3 DEF Brings
<1>6. \A r \in rows' : (r.ptr = m.key /\ r.id = ids + 1) \/ Holder(r.ptr, r.id)
  <2>1. Insert("company", m.key, 0)
    BY DEF InsertCompanyFile
  <2> QED BY <1>3, <2>1, InsertDoes, RowIds DEF Owners
<1> QED BY <1>1, <1>2, <1>3, <1>5, <1>6, KeyWritten

LEMMA PointedHolders ==
  ASSUME DocTypes, NEW id, NEW k, Pointed(id, k)
  PROVE  \A r \in rows' : (r.ptr = k /\ r.id = id) \/ Holder(r.ptr, r.id)
BY RowIds DEF Pointed

LEMMA UpdatePointerKeys ==
  ASSUME DocTypes, DocTypes', OriginInv, KeyInv, NEW c \in Calls, UpdatePointer(c)
  PROVE  KeyInv'
<1>1. DocOver(c) /\ DocCallStep(c)
  BY UpdatePointerTypes DEF DocCallStep
<1>2. UNCHANGED <<raised, removals>>
  BY DEF UpdatePointer, unawaited
<1> PICK m : m = call[c]
  OBVIOUS
<1>3. CallOrigin(m) /\ m.op = "save" /\ m.pc = "point" /\ m.key \in FileKeys
  BY OriginOf, DocLocalType DEF UpdatePointer, DocLocals, At
<1>4. Intro(m.key)
  BY <1>3 DEF CallOrigin, SaveOrigin, Known
<1>5. Brings(c, m.key)
  BY <1>3, <1>4 DEF Brings, Intro
<1>6. \A r \in rows' : (r.ptr = m.key /\ r.id = m.row) \/ Holder(r.ptr, r.id)
  BY UpdatePointerTypes, PointedHolders
<1> QED BY <1>1, <1>2, <1>3, <1>5, <1>6, KeyWritten

LEMMA WriteBackKeys ==
  ASSUME DocTypes, DocTypes', OriginInv, KeyInv, NEW c \in Calls, WriteBack(c)
  PROVE  KeyInv'
<1>1. DocOver(c) /\ DocCallStep(c)
  BY WriteBackTypes DEF DocCallStep
<1>2. UNCHANGED <<raised, removals>>
  BY DEF WriteBack, unawaited
<1> PICK m : m = call[c]
  OBVIOUS
<1>3. m.op \in {"edit", "replace"} /\ m.pc = "write" /\ m.ptr \in FileKeys
  BY DocLocalType DEF WriteBack, DocLocals
<1>5. Brings(c, m.ptr) \/ Holder(m.ptr, m.row)
  BY <1>3 DEF Brings, Holder, Holds
<1>6. \A r \in rows' : (r.ptr = m.ptr /\ r.id = m.row) \/ Holder(r.ptr, r.id)
  BY WriteBackTypes, PointedHolders
<1> QED BY <1>1, <1>2, <1>3, <1>5, <1>6, KeyWritten

\* A new key of the service, that c will give to a row.
LEMMA KeyChosen ==
  ASSUME DocTypes, OriginInv, NEW k \in FileKeys, NEW c \in Calls, DocSteps(c),
         UNCHANGED <<url, rows>>, ~ IsUrl(k[1]), ~ Taken(k), k \in removals' => k \in removals,
         \A d \in Calls : ~ Brings(d, k),
         \A x : ~ Holds(c, k, x)'
  PROVE  KeyOk(k)'
<1>1. ~ Told(k)'
  BY DEF Told, IsUrl
<1>2. \A d \in Calls \ {c} : ~ Brings(d, k)'
  BY OthersKeep
<1>3. \A x \in 1 .. MaxRows : ~ Holder(k, x)'
  <2> SUFFICES ASSUME NEW x \in 1 .. MaxRows PROVE ~ Holder(k, x)'
    OBVIOUS
  <2>1. ~ Holder(k, x)
    BY DEF Taken
  <2>2. \A d \in Calls : ~ Holds(d, k, x)'
    BY <2>1, OthersKeep DEF Holder
  <2> QED BY <2>1, <2>2 DEF Holder
<1>4. ~ Taken(k)'
  BY <1>3 DEF Taken
<1> QED BY <1>1, <1>2, <1>3, <1>4 DEF KeyOk

LEMMA FreshUnknown ==
  ASSUME DocTypes, NEW k, k = FreshKey
  PROVE  k \in FileKeys /\ ~ Known(k) /\ ~ IsUrl(k[1])
<1>1. k \in FileKeys /\ k[1] = names + 1
  BY FreshType
<1>2. ~ IsUrl(k[1])
  BY <1>1, UrlNames, NamesNat
<1> QED BY <1>1, <1>2, NamesNat DEF Known, Service, Intro

\* Nobody has read, chosen or been told of a key that is not in use.
LEMMA UnusedIsFree ==
  ASSUME DocTypes, OriginInv, NEW k \in FileKeys, k = KeyFor(CompanyName) \/ k = FreshKey, ~ InUse(k)
  PROVE  /\ ~ IsUrl(k[1]) /\ ~ Taken(k) /\ k \notin removals
         /\ \A d \in Calls : ~ Brings(d, k) /\ k # call[d].ptr
<1>1. k = FileKey(2) \/ k = FreshKey
  BY KeyForType DEF FreshKey
<1>2. ~ IsUrl(2)
  BY UrlNames, NamesNat
<1>3. ~ IsUrl(k[1])
  BY <1>1, <1>2, FreshUnknown DEF FileKey
<1>4. k \notin removals /\ \A x : ~ Holder(k, x)
  BY DEF InUse, Holder, Holds
<1>5. \A d \in Calls : ~ Brings(d, k) /\ k # call[d].ptr
  BY DEF InUse, Brings
<1> QED BY <1>3, <1>4, <1>5 DEF Taken

LEMMA ReplaceFileKeys ==
  ASSUME DocTypes, OriginInv, KeyInv, NEW c \in Calls, ReplaceFile(c)
  PROVE  KeyInv'
<1> SUFFICES ASSUME NEW j \in FileKeys PROVE KeyOk(j)'
  BY DEF KeyInv
<1>1. UNCHANGED url /\ happened \subseteq happened'
  BY CallLater DEF browser, Later, DocCallStep
<1>2. UNCHANGED <<raised, rows>>
  BY DEF ReplaceFile, fileRows
<1> PICK m : m = call[c]
  OBVIOUS
<1> PICK k \in FileKeys : Replaced(c, k)
  BY ReplaceFileDoes
<1>3. m.op = "replace" /\ m.pc = "upload" /\ m.row \in 1 .. MaxRows /\ CallOrigin(m)
  BY OriginOf, DocLocalType DEF ReplaceFile, At, DocCallType, DocLocals
<1>4. Now(c, "replace", "write", m.key, m.row, k, m.by, {})
  BY DEF Replaced
<1>5. \A i : (Brings(c, i)' => i = k) /\ \A x : ~ Holds(c, i, x)'
  BY <1>4 DEF Now, Brings, Holds
<1>6. Holder(m.ptr, m.row)
  BY <1>3 DEF Holder, Holds
<1>7. Taken(m.ptr)
  BY <1>3, <1>6 DEF Taken
<1>8. removals' = removals \cup {m.ptr}
  BY DEF ReplaceFile
<1>9. CASE j # k
  <2>1. j \in removals' => Taken(j)
    BY <1>7, <1>8 DEF Taken
  <2>2. \A r \in rows' : r.ptr = j => Holder(j, r.id)
    BY <1>2, RowIds
  <2> QED BY <1>1, <1>2, <1>4, <1>5, <1>9, <2>1, <2>2, KeyStays DEF Now
<1>10. CASE j = k /\ InUse(k)
  <2>1. Note("sameKey", {k})
    BY <1>10, Zenon DEF Replaced
  <2>2. Repeated(j)'
    BY <1>10, <2>1 DEF Note, Repeated, Had
  <2> QED BY <2>2 DEF KeyOk
<1>11. CASE j = k /\ ~ InUse(k)
  <2>1. k = KeyFor(CompanyName) \/ k = FreshKey
    BY DEF Replaced
  <2>2. /\ ~ IsUrl(j[1]) /\ ~ Taken(j) /\ j \notin removals
        /\ j # m.ptr /\ \A d \in Calls : ~ Brings(d, j)
    BY <1>11, <2>1, UnusedIsFree
  <2> QED BY <1>1, <1>2, <1>4, <1>5, <1>8, <2>2, KeyChosen DEF Now
<1> QED BY <1>9, <1>10, <1>11

LEMMA ChooseKeyKeys ==
  ASSUME DocTypes, OriginInv, KeyInv, NEW c \in Calls, ChooseKey(c)
  PROVE  KeyInv'
<1> SUFFICES ASSUME NEW j \in FileKeys PROVE KeyOk(j)'
  BY DEF KeyInv
<1>1. UNCHANGED url /\ happened \subseteq happened'
  BY CallLater DEF browser, Later, DocCallStep
<1>2. UNCHANGED <<raised, rows, removals>>
  BY DEF ChooseKey, fileRows
<1> PICK k : k = KeyFor(CompanyName)
  OBVIOUS
<1>4. Now(c, "create", "meta", k, 0, call[c].ptr, call[c].by, {})
  BY ChooseKeyDoes
<1>5. \A i : (Brings(c, i)' => i = k) /\ \A x : ~ Holds(c, i, x)'
  BY <1>4 DEF Now, Brings, Holds
<1>9. CASE j # k
  <2>1. j \in removals' => Taken(j)
    BY <1>2 DEF Taken
  <2>2. \A r \in rows' : r.ptr = j => Holder(j, r.id)
    BY <1>2, RowIds
  <2> QED BY <1>1, <1>2, <1>4, <1>5, <1>9, <2>1, <2>2, KeyStays DEF Now
<1>10. CASE j = k /\ InUse(k)
  <2>1. Note("sameKey", {k})
    BY <1>10, Zenon DEF ChooseKey
  <2>2. Repeated(j)'
    BY <1>10, <2>1 DEF Note, Repeated, Had
  <2> QED BY <2>2 DEF KeyOk
<1>11. CASE j = k /\ ~ InUse(k)
  <2>1. ~ IsUrl(j[1]) /\ ~ Taken(j) /\ \A d \in Calls : ~ Brings(d, j)
    BY <1>11, UnusedIsFree
  <2> QED BY <1>1, <1>2, <1>4, <1>5, <2>1, KeyChosen DEF Now
<1> QED BY <1>9, <1>10, <1>11

\* The key of a company's document in the employee's folder is in no pointer that was read.
LEMMA EmployeeKeyIs ==
  ASSUME DocTypes, OriginInv, NEW k, k = EmployeeKey
  PROVE  /\ k \in FileKeys /\ ~ IsUrl(k[1]) /\ Service(k) /\ \A c \in Calls : ~ Brings(c, k)
         /\ \A c \in Calls : \A x : ~ Holds(c, k, x)
<1>1. k \in FileKeys /\ k[1] = 0
  BY SmallKeys DEF EmployeeKey, MovedTo, NoKey, FileKey
<1>2. ~ IsUrl(k[1])
  BY <1>1, UrlNames, NamesNat
<1>3. \A c \in Calls : ~ Brings(c, k)
  BY <1>1, <1>2, BringsKnows DEF Plain
<1>4. ASSUME NEW c \in Calls, NEW x, Holds(c, k, x) PROVE FALSE
  BY <1>1, <1>2, <1>4, OriginOf DEF Holds, CallOrigin, Pointer, Intro
<1> QED BY <1>1, <1>2, <1>3, <1>4, NamesNat DEF Service

LEMMA EmployeeRowKeys ==
  ASSUME DocTypes, DocTypes', OriginInv, KeyInv, NEW c \in Calls, RowForEmployee(c)
  PROVE  KeyInv'
<1> SUFFICES ASSUME NEW j \in FileKeys PROVE KeyOk(j)'
  BY DEF KeyInv
<1>1. UNCHANGED url /\ happened \subseteq happened'
  BY CallLater DEF browser, Later, DocCallStep
<1>2. UNCHANGED <<raised, removals>>
  BY DEF RowForEmployee, unawaited
<1> PICK m : m = call[c]
  OBVIOUS
<1> PICK k : k = EmployeeKey
  OBVIOUS
<1>3. Insert("onboarding", k, 0) /\
      Now(c, "onboarding", m.pc, m.key, ids + 1, m.ptr, m.by, m.left \ {"row"})
  BY EmployeeRowDoes
<1>4. m.op = "onboarding"
  BY DEF RowForEmployee, Ready
<1>5. \A i : ~ Brings(c, i)' /\ \A x : Holds(c, i, x)' => Holds(c, i, x)
  BY <1>3, <1>4 DEF Now, Brings, Holds
<1>6. /\ k \in FileKeys /\ ~ IsUrl(k[1]) /\ \A d \in Calls : ~ Brings(d, k)
      /\ \A d \in Calls : \A x : ~ Holds(d, k, x)
  BY EmployeeKeyIs
<1>7. \E n : rows' = rows \cup {n} /\ n.ptr = k
  BY <1>3, <1>6, InsertDoes DEF Owners
<1>8. CASE j # k
  <2>1. j \in removals' => Taken(j)
    BY <1>2 DEF Taken
  <2>2. \A r \in rows' : r.ptr = j => Holder(j, r.id)
    BY <1>7, <1>8, RowIds
  <2>3. \A x : Holds(c, j, x)' => Holder(j, x)
    BY <1>5 DEF Holder
  <2> QED BY <1>1, <1>2, <1>3, <1>5, <2>1, <2>2, <2>3, KeyStays DEF Now
<1>9. CASE j = k /\ k \in removals \cup {r.ptr : r \in rows}
  <2>1. Note("sameKey", {k})
    BY <1>9, Zenon DEF RowForEmployee
  <2>2. Repeated(j)'
    BY <1>9, <2>1 DEF Note, Repeated, Had
  <2> QED BY <2>2 DEF KeyOk
<1>10. CASE j = k /\ k \notin removals \cup {r.ptr : r \in rows}
  <2>1. ~ Told(j)'
    BY <1>1, <1>6, <1>10 DEF Told, IsUrl
  <2>2. \A d \in Calls : ~ Brings(d, j)' /\ \A x : ~ Holds(d, j, x)'
    BY <1>1, <1>3, <1>5, <1>6, <1>10, OthersKeep DEF Now
  <2>3. \A x, y \in 1 .. MaxRows : Holder(j, x)' /\ Holder(j, y)' => x = y
    BY <1>7, <1>10, <2>2 DEF Holder
  <2> QED BY <2>1, <2>2, <2>3 DEF KeyOk
<1> QED BY <1>8, <1>9, <1>10

LEMMA CopyCompanyKeys ==
  ASSUME DocTypes, OriginInv, KeyInv, NEW c \in Calls, CopyCompany(c)
  PROVE  KeyInv'
<1> SUFFICES ASSUME NEW j \in FileKeys PROVE KeyOk(j)'
  BY DEF KeyInv
<1>1. UNCHANGED url /\ happened \subseteq happened'
  BY CallLater DEF browser, Later, DocCallStep
<1>2. UNCHANGED <<removals, rows>>
  BY DEF CopyCompany, CopyStep, unawaited, fileRows
<1>3. call[c].op = "onboarding" /\ \E steps : Finish(c, steps)
  BY DEF CopyCompany, CopyStep, Ready
<1>4. DocSteps(c) /\ \A k : ~ Brings(c, k)' /\ \A x : Holds(c, k, x)' => Holder(k, x)
  BY <1>3, FinishHolds
<1> PICK k : k = EmployeeKey
  OBVIOUS
<1>5. \A e \in raised' : e.key = k \/ e \in raised
  BY DEF CopyCompany, CopyStep, CopyTo
<1>6. ~ IsUrl(k[1]) /\ \A d \in Calls : ~ Brings(d, k)
  BY EmployeeKeyIs
<1>7. j \in removals' => Taken(j)
  BY <1>2 DEF Taken
<1>8. \A r \in rows' : r.ptr = j => Holder(j, r.id)
  BY <1>2, RowIds
<1>9. CASE j # k
  BY <1>1, <1>4, <1>5, <1>7, <1>8, <1>9, KeyStays
<1>10. CASE j = k
  <2>1. ~ Told(j)'
    BY <1>1, <1>6, <1>10 DEF Told, IsUrl
  <2>2. \A d \in Calls : ~ Brings(d, j)'
    BY <1>1, <1>4, <1>6, <1>10, OthersKeep
  <2>3. \A x : Holder(j, x)' => Holder(j, x)
    <3> SUFFICES ASSUME NEW x, Holder(j, x)' PROVE Holder(j, x)
      OBVIOUS
    <3>1. \A d \in Calls : Holds(d, j, x)' => Holder(j, x)
      BY <1>1, <1>4, OthersKeep DEF Holder
    <3> QED BY <1>2, <3>1 DEF Holder
  <2>4. KeyOk(j) /\ (Repeated(j) => Repeated(j)')
    BY <1>1, RepeatedStays DEF KeyInv
  <2> QED BY <2>1, <2>2, <2>3, <2>4 DEF KeyOk
<1> QED BY <1>9, <1>10

LEMMA CopySignedKeys ==
  ASSUME DocTypes, OriginInv, KeyInv, NEW c \in Calls, CopySigned(c)
  PROVE  KeyInv'
<1> SUFFICES ASSUME NEW j \in FileKeys PROVE KeyOk(j)'
  BY DEF KeyInv
<1>1. UNCHANGED url /\ happened \subseteq happened'
  BY CallLater DEF browser, Later, DocCallStep
<1>2. UNCHANGED <<removals, rows>>
  BY DEF CopySigned, CopyStep, unawaited, fileRows
<1>3. call[c].op = "onboarding" /\ \E steps : Finish(c, steps)
  BY DEF CopySigned, CopyStep, Ready
<1>4. DocSteps(c) /\ \A k : ~ Brings(c, k)' /\ \A x : Holds(c, k, x)' => Holder(k, x)
  BY <1>3, FinishHolds
<1> PICK m : m = call[c]
  OBVIOUS
<1> PICK k : k = MovedTo(m.ptr)
  OBVIOUS
<1>5. m.ptr \in FileKeys /\ Known(m.ptr)
  <2>1. "pointSigned" \in m.left
    BY DocLocalType DEF CopySigned, CopyStep, Ready, DocCallType, Planned
  <2> QED BY <1>3, <2>1, OriginOf, DocLocalType DEF CallOrigin, Pointer, DocLocals
<1>6. \A r \in rows' : r.ptr = j => Holder(j, r.id)
  BY <1>2, RowIds
<1>7. j \in removals' => Taken(j)
  BY <1>2 DEF Taken
<1>8. CASE \A e \in raised' : e.key = j => e \in raised
  BY <1>1, <1>4, <1>6, <1>7, <1>8, KeyStays
<1>9. CASE ~ \A e \in raised' : e.key = j => e \in raised
  <2>1. PICK o \in Object(m.ptr) :
              /\ CopyTo(k, o)
              /\ happened' = happened \cup Older(o)
                                \cup (IF o[2].by # 0 THEN {<<"again", k>>} ELSE {})
    BY <1>9 DEF CopySigned, CopyStep
  <2>2. j = k
    BY <1>9, <2>1 DEF CopyTo
  <2>3. CASE o[2].by # 0
    <3>1. Repeated(j)'
      BY <2>1, <2>2, <2>3 DEF Repeated, Had
    <3> QED BY <3>1 DEF KeyOk
  <2>4. CASE o[2].by = 0
    <3>1. Origin(m.ptr, o[2].owner, o[2].row, o[2].by)
      BY ObjectKeys DEF OriginInv
    <3>2. Service(m.ptr)
      BY <2>4, <3>1, UploadsNat DEF Origin, DocTypes, DocStore
    <3>3. ~ IsUrl(j[1])
      BY <1>5, <2>2, <3>2, SameNames DEF Service
    <3>4. ~ Told(j)'
      BY <1>1, <3>3 DEF Told, IsUrl
    <3>5. \A d \in Calls : Brings(d, j)' => Brings(d, j)
      BY <1>1, <1>4, OthersKeep
    <3>6. \A x : Holder(j, x)' => Holder(j, x)
      <4> SUFFICES ASSUME NEW x, Holder(j, x)' PROVE Holder(j, x)
        OBVIOUS
      <4>1. \A d \in Calls : Holds(d, j, x)' => Holder(j, x)
        BY <1>1, <1>4, OthersKeep DEF Holder
      <4> QED BY <1>2, <4>1 DEF Holder
    <3>7. Taken(j)' => Taken(j)
      BY <1>2, <3>6 DEF Taken
    <3>8. KeyOk(j) /\ (Repeated(j) => Repeated(j)')
      BY <1>1, RepeatedStays DEF KeyInv
    <3> QED BY <3>4, <3>5, <3>6, <3>7, <3>8 DEF KeyOk
  <2> QED BY <2>3, <2>4
<1> QED BY <1>8, <1>9

LEMMA PointSignedKeys ==
  ASSUME DocTypes, DocTypes', OriginInv, KeyInv, NEW c \in Calls, PointSigned(c)
  PROVE  KeyInv'
<1> SUFFICES ASSUME NEW j \in FileKeys PROVE KeyOk(j)'
  BY DEF KeyInv
<1>1. UNCHANGED url /\ happened \subseteq happened'
  BY CallLater DEF browser, Later, DocCallStep
<1>2. UNCHANGED <<raised, removals>>
  BY DEF PointSigned, unawaited
<1>3. call[c].op = "onboarding" /\ \E steps : Finish(c, steps)
  BY DEF PointSigned, Ready
<1>4. DocSteps(c) /\ \A k : ~ Brings(c, k)' /\ \A x : Holds(c, k, x)' => Holder(k, x)
  BY <1>3, FinishHolds
<1> PICK m : m = call[c]
  OBVIOUS
<1> PICK k : k = MovedTo(m.ptr)
  OBVIOUS
<1>5. Pointer(SignedRow, m.ptr) /\ (Intro(m.ptr) => Had("again", k)) /\ m.ptr \in FileKeys
  BY <1>3, OriginOf, DocLocalType DEF PointSigned, Ready, Before, CallOrigin, DocLocals
<1>6. \A r \in rows' : (r.ptr = k /\ r.id = SignedRow) \/ Holder(r.ptr, r.id)
  BY PointSignedTypes, PointedHolders
<1>7. j \in removals' => Taken(j)
  BY <1>2 DEF Taken
<1>8. CASE j # k
  <2>1. \A r \in rows' : r.ptr = j => Holder(j, r.id)
    BY <1>6, <1>8
  <2> QED BY <1>1, <1>2, <1>4, <1>7, <2>1, KeyStays
<1>9. CASE j = k /\ Intro(m.ptr)
  BY <1>1, <1>5, <1>9 DEF KeyOk, Repeated, Had
<1>10. CASE j = k /\ ~ Intro(m.ptr)
  <2>1. j[1] = 3
    BY <1>5, <1>10, SameNames DEF Pointer, SignedRow
  <2>2. ~ IsUrl(j[1])
    BY <2>1, UrlNames, NamesNat
  <2>3. ~ Told(j)'
    BY <1>1, <2>2 DEF Told, IsUrl
  <2>4. \A d \in Calls : ~ Brings(d, j)
    BY <2>1, <2>2, BringsKnows DEF Plain
  <2>5. \A d \in Calls : ~ Brings(d, j)'
    BY <1>1, <1>4, <2>4, OthersKeep
  <2>6. \A x : Holder(j, x) => x = SignedRow
    BY <2>1, HolderKnows DEF Pointer
  <2>7. \A x : Holder(j, x)' => x = SignedRow
    <3> SUFFICES ASSUME NEW x, Holder(j, x)' PROVE x = SignedRow
      OBVIOUS
    <3>1. \A d \in Calls : Holds(d, j, x)' => Holder(j, x)
      BY <1>1, <1>4, OthersKeep DEF Holder
    <3> QED BY <1>6, <2>6, <3>1 DEF Holder
  <2> QED BY <2>3, <2>5, <2>7 DEF KeyOk
<1> QED BY <1>8, <1>9, <1>10

LEMMA LandKeys ==
  ASSUME DocTypes, KeyInv, ObjectLands \/ ObjectLost \/ RemovalLands
  PROVE  KeyInv'
<1> SUFFICES ASSUME NEW j \in FileKeys PROVE KeyOk(j)'
  BY DEF KeyInv
<1>1. happened \subseteq happened'
  BY BesidesLater DEF Later
<1>2. UNCHANGED <<url, call, rows, raised>> /\ removals' \subseteq removals
  BY DEF ObjectLands, ObjectLost, RemovalLands, browser, fileRows
<1>3. Told(j)' => Told(j)
  BY <1>2 DEF Told, IsUrl
<1>4. \A c \in Calls : Brings(c, j)' => Brings(c, j)
  BY <1>2 DEF Brings, IsUrl
<1> QED BY <1>1, <1>2, <1>3, <1>4, KeyBesides

LEMMA GenerateKeys ==
  ASSUME DocTypes, OriginInv, KeyInv, GenerateUrl
  PROVE  KeyInv'
<1> SUFFICES ASSUME NEW j \in FileKeys PROVE KeyOk(j)'
  BY DEF KeyInv
<1>1. Later
  BY BesidesLater
<1>2. UNCHANGED <<call, rows, raised, removals>>
  BY DEF GenerateUrl, fileRows, unawaited
<1>3. Known(j) => (IsUrl(j[1])' => IsUrl(j[1]))
  BY <1>1, ServiceKept DEF Known, Service, Intro
<1>4. Told(j)' => Told(j)
  <2> SUFFICES ASSUME Told(j)' PROVE Told(j)
    OBVIOUS
  <2>1. \E e \in raised : e.key = j
    BY <1>2 DEF Told
  <2>2. Known(j)
    BY <2>1 DEF OriginInv, EventOrigin
  <2> QED BY <1>3, <2>1, <2>2 DEF Told
<1>5. ASSUME NEW c \in Calls, Brings(c, j)' PROVE Brings(c, j)
  <2>1. call[c].op = "save" /\ call[c].key = j => Known(j)
    BY OriginOf DEF CallOrigin, SaveOrigin
  <2> QED BY <1>2, <1>3, <1>5, <2>1 DEF Brings
<1> QED BY <1>1, <1>2, <1>4, <1>5, KeyBesides DEF Later

LEMMA PutKeys ==
  ASSUME DocTypes, OriginInv, KeyInv, PutObject
  PROVE  KeyInv'
<1> SUFFICES ASSUME NEW j \in FileKeys PROVE KeyOk(j)'
  BY DEF KeyInv
<1>1. happened \subseteq happened'
  BY BesidesLater DEF Later
<1>2. UNCHANGED <<url, call, rows, removals>>
  BY DEF PutObject, fileRows, unawaited
<1>3. PICK u \in Uploads \ used :
            /\ url[u] # None
            /\ raised' = raised \cup {[key |-> url[u].key, by |-> u]}
  BY PutDoes
<1>4. \A c \in Calls : Brings(c, j)' => Brings(c, j)
  BY <1>2 DEF Brings, IsUrl
<1>5. CASE j # url[u].key
  <2>1. \A e \in raised' : e.key = j => e \in raised
    BY <1>3, <1>5
  <2>2. Told(j)' => Told(j)
    BY <1>2, <2>1 DEF Told, IsUrl
  <2> QED BY <1>1, <1>2, <1>4, <2>1, <2>2, KeyBesides
<1>6. CASE j = url[u].key
  <2> SUFFICES ASSUME ~ Repeated(j)' PROVE KeyOk(j)'
    BY DEF KeyOk
  <2>1. ~ Repeated(j)
    BY <1>1, RepeatedStays
  <2>2. j[2] = 0 /\ j[3] = 0 /\ IsUrl(j[1])
    BY <1>3, <1>6, UrlIsPlain DEF IsUrl
  <2>3. ~ Known(j)
    <3> SUFFICES ASSUME Known(j) PROVE FALSE
      OBVIOUS
    <3>1. PICK v \in used : url[v].key = j
      BY <2>2 DEF Known, Service, Intro
    <3>2. v \in Uploads /\ url[v] # None /\ v # u
      BY DEF DocTypes, DocStore
    <3>3. Had("sameKey", j)
      BY <1>3, <1>6, <3>1, <3>2 DEF OriginInv, UrlsApart
    <3> QED BY <2>1, <3>3 DEF Repeated
  <2>4. \A e \in raised : e.key # j
    BY <2>3 DEF OriginInv, EventOrigin
  <2>5. \A e, f \in raised' : e.key = j /\ f.key = j => e = f
    BY <1>3, <2>4
  <2> QED BY <1>2, <2>3, <2>5, KeyAnnounced
<1> QED BY <1>5, <1>6

LEMMA PatchKeys ==
  ASSUME DocTypes, OriginInv, KeyInv, PatchCopies
  PROVE  KeyInv'
<1> SUFFICES ASSUME NEW j \in FileKeys PROVE KeyOk(j)'
  BY DEF KeyInv
<1>1. happened \subseteq happened'
  BY BesidesLater DEF Later
<1>2. UNCHANGED <<url, call, rows, removals>>
  BY DEF PatchCopies, fileRows, unawaited, browser
<1>3. PICK o \in stored :
         /\ CopyTo(PatchedTo(o[1]), o)
         /\ <<"copiedTo", PatchedTo(o[1])>> \in happened =>
               <<"again", PatchedTo(o[1])>> \in happened'
  BY DEF PatchCopies
<1> PICK k : k = PatchedTo(o[1])
  OBVIOUS
<1>4. \A c \in Calls : Brings(c, j)' => Brings(c, j)
  BY <1>2 DEF Brings, IsUrl
<1>5. CASE j # k \/ ~ IsUrl(j[1])
  <2>1. j # k => \A e \in raised' : e.key = j => e \in raised
    BY <1>3 DEF CopyTo
  <2>2. Told(j)' => Told(j) /\ j # k
    BY <1>2, <1>5, <2>1 DEF Told, IsUrl
  <2> QED BY <1>1, <1>2, <1>4, <2>1, <2>2, KeyBesides
<1>6. CASE j = k /\ IsUrl(j[1])
  <2> SUFFICES ASSUME ~ Repeated(j)' PROVE KeyOk(j)'
    BY DEF KeyOk
  <2>1. ~ Repeated(j) /\ ~ Had("copiedTo", j)
    BY <1>1, <1>3, <1>6, RepeatedStays DEF Repeated, Had
  <2>2. j[3] # 0
    <3>1. o[1] \in FileKeys
      BY DEF DocTypes, DocStore, StoredTyped
    <3> QED BY <1>6, <3>1, SameNames
  <2>3. ~ Known(j)
    BY <1>6, <2>1, <2>2 DEF Known, Service, Intro, Repeated
  <2>4. \A e \in raised : e.key # j
    BY <2>3 DEF OriginInv, EventOrigin
  <2>5. \A e, f \in raised' : e.key = j /\ f.key = j => e = f
    BY <1>3, <2>4 DEF CopyTo
  <2> QED BY <1>2, <2>3, <2>5, KeyAnnounced
<1> QED BY <1>5, <1>6

LEMMA KeysKept ==
  ASSUME DocTypes, DocTypes', OriginInv, KeyInv, DocNext
  PROVE  KeyInv'
<1>1. CASE GenerateUrl \/ PutObject \/ ObjectLands \/ ObjectLost \/ RemovalLands \/ PatchCopies
  BY <1>1, GenerateKeys, PutKeys, LandKeys, PatchKeys
<1>2. ASSUME NEW c \in Calls, DocCallStep(c) PROVE KeyInv'
  <2>1. CASE Deliver(c) \/ HeadObject(c) \/ CreateEsignatureMetadata(c) \/ InsertUploaded(c)
    BY <2>1, DeliverKeys, HeadKeys, MetaKeys, InsertUploadedKeys
  <2>2. CASE LoadCurrent(c) \/ UpdatePointer(c) \/ Request(c) \/ ReadForEdit(c) \/ WriteBack(c)
    BY <2>2, LoadCurrentKeys, UpdatePointerKeys, StartKeys, ReadKeys, WriteBackKeys
  <2>3. CASE \/ ReadForReplace(c) \/ ReplaceFile(c)
             \/ DeleteCompanyDocument(c) \/ DeleteCompanyDocumentRecord(c)
             \/ DeleteEmployeeDocument(c) \/ DeleteEmployeeDocumentRecord(c)
    BY <2>3, ReadKeys, ReplaceFileKeys, LoadForDeleteKeys, DropKeys
  <2>4. CASE \/ CreateCompanyDocument(c) \/ ChooseKey(c) \/ InsertMetadata(c) \/ InsertCompanyFile(c)
             \/ SaveOnboarding(c) \/ ListTaskList(c) \/ ListSigned(c) \/ RowForEmployee(c)
    BY <2>4, StartKeys, ChooseKeyKeys, InsertMetadataKeys, InsertCompanyFileKeys,
       ListTaskKeys, ListSignedKeys, EmployeeRowKeys
  <2>5. CASE \/ CopyCompany(c) \/ CopySigned(c) \/ DeleteSigned(c) \/ PointSigned(c) \/ OneFails(c)
             \/ Saved(c) \/ DocFail(c)
    BY <2>5, CopyCompanyKeys, CopySignedKeys, FinishKeys, PointSignedKeys, DropKeys
  <2> QED BY <1>2, <2>1, <2>2, <2>3, <2>4, <2>5 DEF DocCallStep
<1> QED BY <1>1, <1>2 DEF DocNext
-----------------------------------------------------------------------------
(* An upload becomes one row.                                              *)

\* A call that saves a file did so, or an event of the file has started it.
SavesFrom(c) ==
  /\ DocSteps(c)
  /\ call'[c].op = "save" =>
       \/ call[c].op = "save" /\ call'[c].key = call[c].key
       \/ /\ call[c].op = None /\ call'[c].pc = "head"
          /\ \E e \in raised : e.key = call'[c].key

LEMMA OverSaves ==
  ASSUME NEW c \in Calls, DocOver(c)
  PROVE  SavesFrom(c)
BY DocOperates DEF SavesFrom, DocOver, Now

LEMMA OtherSaves ==
  ASSUME NEW c \in Calls, NEW op, op # "save", NEW pc, NEW key, NEW id, NEW ptr, NEW by, NEW left,
         Now(c, op, pc, key, id, ptr, by, left)
  PROVE  SavesFrom(c)
BY DEF SavesFrom, Now

LEMMA SameSaves ==
  ASSUME NEW c \in Calls, NEW pc, NEW id, NEW ptr, NEW by, NEW left,
         Now(c, call[c].op, pc, call[c].key, id, ptr, by, left)
  PROVE  SavesFrom(c)
BY DEF SavesFrom, Now

LEMMA StartSaves ==
  ASSUME NEW c \in Calls, NEW op, op # "save", NEW pc, NEW key, NEW id, Starts(c, op, pc, key, id)
  PROVE  SavesFrom(c)
BY OtherSaves DEF Starts

LEMMA FinishSaves ==
  ASSUME DocTypes, NEW c \in Calls, NEW steps, Finish(c, steps)
  PROVE  SavesFrom(c)
BY FinishNow, SameSaves

LEMMA UploadedSaves ==
  ASSUME DocTypes, NEW c \in Calls,
         Deliver(c) \/ HeadObject(c) \/ CreateEsignatureMetadata(c) \/ InsertUploaded(c)
         \/ LoadCurrent(c) \/ UpdatePointer(c)
  PROVE  SavesFrom(c)
<1>1. CASE Deliver(c)
  BY <1>1, DeliverDoes DEF Starts, Now, SavesFrom
<1>2. CASE HeadObject(c)
  <2>1. CASE DocOver(c)
    BY <2>1, OverSaves
  <2>2. ASSUME NEW o, Now(c, "save", NextStep(o[2]), call[c].key, o[2].row, call[c].ptr, o[2].by, {})
        PROVE  SavesFrom(c)
    BY <1>2, <2>2 DEF HeadObject, At, Now, SavesFrom
  <2> QED BY <1>2, <2>1, <2>2, HeadDoes
<1>3. CASE CreateEsignatureMetadata(c)
  BY <1>3, MetaDoes, OverSaves, SameSaves DEF DocPlace
<1>4. CASE InsertUploaded(c)
  BY <1>4, InsertUploadedTypes, OverSaves
<1>5. CASE LoadCurrent(c)
  BY <1>5, LoadCurrentDoes, OverSaves, SameSaves DEF DocPlace
<1>6. CASE UpdatePointer(c)
  BY <1>6, UpdatePointerTypes, OverSaves
<1> QED BY <1>1, <1>2, <1>3, <1>4, <1>5, <1>6

LEMMA EditedSaves ==
  ASSUME DocTypes, NEW c \in Calls,
         \/ Request(c) \/ ReadForEdit(c) \/ WriteBack(c) \/ ReadForReplace(c) \/ ReplaceFile(c)
         \/ DeleteCompanyDocument(c) \/ DeleteCompanyDocumentRecord(c)
         \/ DeleteEmployeeDocument(c) \/ DeleteEmployeeDocumentRecord(c)
  PROVE  SavesFrom(c)
<1>1. CASE Request(c)
  <2>1. PICK op, id : op # "save" /\ Starts(c, op, "read", NoKey, id)
    BY <1>1, RequestDoes
  <2> QED BY <2>1, StartSaves
<1>2. CASE ReadForEdit(c)
  <2>1. ASSUME NEW r, Now(c, "edit", "write", call[c].key, call[c].row, r.ptr, call[c].by, {})
        PROVE  SavesFrom(c)
    BY <2>1, OtherSaves
  <2> QED BY <1>2, <2>1, ReadForEditDoes, OverSaves
<1>3. CASE WriteBack(c)
  BY <1>3, WriteBackTypes, OverSaves
<1>4. CASE ReadForReplace(c)
  <2>1. ASSUME NEW r, Now(c, "replace", "upload", call[c].key, call[c].row, r.ptr, call[c].by, {})
        PROVE  SavesFrom(c)
    BY <2>1, OtherSaves
  <2> QED BY <1>4, <2>1, ReadForReplaceDoes, OverSaves
<1>5. CASE ReplaceFile(c)
  BY <1>5, ReplaceFileDoes, OtherSaves DEF Replaced
<1>6. CASE DeleteCompanyDocument(c) \/ DeleteEmployeeDocument(c)
  BY <1>6, LoadForDeleteDoes, OverSaves, SameSaves DEF DocPlace, DeleteCompanyDocument, DeleteEmployeeDocument
<1>7. CASE DeleteCompanyDocumentRecord(c) \/ DeleteEmployeeDocumentRecord(c)
  BY <1>7, DropDoes, OverSaves DEF DeleteCompanyDocumentRecord, DeleteEmployeeDocumentRecord
<1> QED BY <1>1, <1>2, <1>3, <1>4, <1>5, <1>6, <1>7

LEMMA CreatedSaves ==
  ASSUME DocTypes, NEW c \in Calls,
         CreateCompanyDocument(c) \/ ChooseKey(c) \/ InsertMetadata(c) \/ InsertCompanyFile(c)
  PROVE  SavesFrom(c)
<1>1. CASE CreateCompanyDocument(c)
  BY <1>1, CreationDoes, StartSaves
<1>2. CASE ChooseKey(c)
  BY <1>2, ChooseKeyDoes, OtherSaves
<1>3. CASE InsertMetadata(c)
  BY <1>3, InsertMetadataTypes, SameSaves DEF DocPlace
<1>4. CASE InsertCompanyFile(c)
  BY <1>4, InsertCompanyFileTypes, OverSaves
<1> QED BY <1>1, <1>2, <1>3, <1>4

LEMMA OnboardedSaves ==
  ASSUME DocTypes, NEW c \in Calls,
         \/ SaveOnboarding(c) \/ ListTaskList(c) \/ ListSigned(c) \/ RowForEmployee(c)
         \/ CopyCompany(c) \/ CopySigned(c) \/ DeleteSigned(c) \/ PointSigned(c) \/ OneFails(c)
         \/ Saved(c) \/ DocFail(c)
  PROVE  SavesFrom(c)
<1>1. CASE SaveOnboarding(c)
  BY <1>1, SaveOnboardingDoes, StartSaves
<1>2. CASE ListTaskList(c)
  <2>1. ASSUME NEW r, Now(c, "onboarding", "list", r.ptr, 0, call[c].ptr, call[c].by, CompanySteps)
        PROVE  SavesFrom(c)
    BY <2>1, OtherSaves
  <2> QED BY <1>2, <2>1, ListTaskDoes, SameSaves DEF DocPlace
<1>3. CASE ListSigned(c)
  <2>1. ASSUME NEW r, Now(c, "onboarding", "run", call[c].key, call[c].row, r.ptr, call[c].by,
                          call[c].left \cup SignedSteps)
        PROVE  SavesFrom(c)
    BY <2>1, OtherSaves
  <2> QED BY <1>3, <2>1, ListSignedDoes, SameSaves DEF DocPlace
<1>4. CASE RowForEmployee(c)
  BY <1>4, EmployeeRowDoes, OtherSaves
<1>5. CASE CopyCompany(c) \/ CopySigned(c)
  BY <1>5, FinishSaves DEF CopyCompany, CopySigned, CopyStep
<1>6. CASE DeleteSigned(c) \/ PointSigned(c) \/ OneFails(c)
  BY <1>6, FinishSaves DEF DeleteSigned, PointSigned, OneFails
<1>7. CASE Saved(c) \/ DocFail(c)
  BY <1>7, SavedTypes, DocFailTypes, OverSaves
<1> QED BY <1>1, <1>2, <1>3, <1>4, <1>5, <1>6, <1>7

LEMMA CallSaves ==
  ASSUME DocTypes, NEW c \in Calls, DocCallStep(c)
  PROVE  SavesFrom(c)
<1>1. CASE \/ Deliver(c) \/ HeadObject(c) \/ CreateEsignatureMetadata(c) \/ InsertUploaded(c)
           \/ LoadCurrent(c) \/ UpdatePointer(c)
  BY <1>1, UploadedSaves
<1>2. CASE \/ Request(c) \/ ReadForEdit(c) \/ WriteBack(c) \/ ReadForReplace(c) \/ ReplaceFile(c)
           \/ DeleteCompanyDocument(c) \/ DeleteCompanyDocumentRecord(c)
           \/ DeleteEmployeeDocument(c) \/ DeleteEmployeeDocumentRecord(c)
  BY <1>2, EditedSaves
<1>3. CASE CreateCompanyDocument(c) \/ ChooseKey(c) \/ InsertMetadata(c) \/ InsertCompanyFile(c)
  BY <1>3, CreatedSaves
<1>4. CASE \/ SaveOnboarding(c) \/ ListTaskList(c) \/ ListSigned(c) \/ RowForEmployee(c)
           \/ CopyCompany(c) \/ CopySigned(c) \/ DeleteSigned(c) \/ PointSigned(c) \/ OneFails(c)
           \/ Saved(c) \/ DocFail(c)
  BY <1>4, OnboardedSaves
<1> QED BY <1>1, <1>2, <1>3, <1>4 DEF DocCallStep

\* The events that a call's step raises are of copies.
LEMMA CallTells ==
  ASSUME DocTypes, NEW c \in Calls, DocCallStep(c)
  PROVE  \A e \in raised' \ raised : e.key[2] # 0 \/ e.key[3] # 0
<1>1. CASE CopyCompany(c)
  <2>1. raised' = raised \/ \E o \in stored : raised' = raised \cup (IF o[2] = Silent THEN {} ELSE {[key |-> EmployeeKey, by |-> o[2].by]})
    BY <1>1 DEF CopyCompany, CopyStep, CopyTo, Object
  <2>2. EmployeeKey[2] # 0
    BY DEF EmployeeKey, MovedTo, NoKey, FileKey
  <2> QED BY <2>1, <2>2
<1>2. CASE CopySigned(c)
  <2> DEFINE k == MovedTo(call[c].ptr)
  <2>1. raised' = raised \/ \E o \in stored : raised' = raised \cup (IF o[2] = Silent THEN {} ELSE {[key |-> k, by |-> o[2].by]})
    BY <1>2 DEF CopySigned, CopyStep, CopyTo, Object
  <2>2. k[2] # 0
    BY DocLocalType, SameNames DEF DocLocals
  <2> QED BY <2>1, <2>2
<1>3. CASE Deliver(c)
  BY <1>3, DeliverDoes
<1>4. CASE ~ (CopyCompany(c) \/ CopySigned(c) \/ Deliver(c))
  <2>1. UNCHANGED raised
    BY <1>4, Zenon DEF DocCallStep, HeadObject, CreateEsignatureMetadata, InsertUploaded, LoadCurrent,
      UpdatePointer, Request, ReadForEdit, WriteBack, ReadForReplace, ReplaceFile, DeleteCompanyDocument,
      DeleteEmployeeDocument, LoadForDelete, DeleteCompanyDocumentRecord, DeleteEmployeeDocumentRecord, DropRow,
      CreateCompanyDocument, ChooseKey, InsertMetadata, InsertCompanyFile, SaveOnboarding, ListTaskList,
      ListSigned, RowForEmployee, DeleteSigned, PointSigned, OneFails, Saved, DocFail
  <2> QED BY <2>1
<1> QED BY <1>1, <1>2, <1>3, <1>4

\* A row is of the upload it was of, or new.
RowsFrom(c) ==
  \A r \in rows' :
    \/ \E s \in rows : s.id = r.id /\ s.by = r.by
    \/ r.by = 0
    \/ InsertUploaded(c) /\ r.by = call[c].by /\ r.id = ids + 1

LEMMA SavedRow ==
  ASSUME DocTypes, OriginInv, NEW c \in Calls, call[c].op = "save", call[c].pc \in {"file", "companyFile"}
  PROVE  /\ call[c].by \in used /\ url[call[c].by].row = 0 /\ Intro(call[c].key)
         /\ AtHome(call[c].by, call[c].key)
<1>1. CallOrigin(call[c])
  BY OriginOf
<1>2. /\ Origin(call[c].key, SaveOwner(call[c].pc), call[c].row, call[c].by)
      /\ call[c].row = 0 /\ ~ Service(call[c].key)
  BY <1>1 DEF CallOrigin, SaveOrigin
<1> QED BY <1>2 DEF Origin

LEMMA CallRows ==
  ASSUME DocTypes, NEW c \in Calls, DocCallStep(c)
  PROVE  RowsFrom(c)
<1>1. CASE InsertUploaded(c)
  <2> DEFINE n == [id |-> ids + 1, owner |-> IF call[c].pc = "file" THEN "employee" ELSE "company",
                   ptr |-> call[c].key, by |-> call[c].by]
  <2>1. rows' = rows \cup {n}
    BY <1>1 DEF InsertUploaded, Insert
  <2>2. n.id = ids + 1 /\ n.by = call[c].by
    OBVIOUS
  <2> HIDE DEF n
  <2> QED BY <1>1, <2>1, <2>2 DEF RowsFrom
<1>2. CASE InsertCompanyFile(c) \/ RowForEmployee(c)
  <2>1. call[c].key \in FileKeys /\ EmployeeKey \in FileKeys
    BY DocLocalType, SmallKeys DEF DocLocals
  <2>2. Insert("company", call[c].key, 0) \/ Insert("onboarding", EmployeeKey, 0)
    BY <1>2 DEF InsertCompanyFile, RowForEmployee
  <2>3. \E n \in FileRecords : rows' = rows \cup {n} /\ n.by = 0
    BY <2>1, <2>2, InsertDoes DEF Owners
  <2> QED BY <2>3 DEF RowsFrom
<1>3. CASE UpdatePointer(c) \/ WriteBack(c) \/ PointSigned(c)
  BY <1>3, UpdatePointerTypes, WriteBackTypes, PointSignedTypes DEF Pointed, RowsFrom
<1>4. CASE DeleteCompanyDocumentRecord(c) \/ DeleteEmployeeDocumentRecord(c)
  BY <1>4 DEF RowsFrom, DropRow, DeleteCompanyDocumentRecord, DeleteEmployeeDocumentRecord
<1>5. CASE ~ \/ InsertUploaded(c) \/ InsertCompanyFile(c) \/ RowForEmployee(c) \/ UpdatePointer(c)
             \/ WriteBack(c) \/ PointSigned(c) \/ DeleteCompanyDocumentRecord(c)
             \/ DeleteEmployeeDocumentRecord(c)
  <2>1. UNCHANGED fileRows
    BY <1>5, Zenon DEF DocCallStep, Deliver, HeadObject, CreateEsignatureMetadata, LoadCurrent,
      Request, ReadForEdit, ReadForReplace, ReplaceFile, DeleteCompanyDocument,
      DeleteEmployeeDocument, LoadForDelete, CreateCompanyDocument, ChooseKey, InsertMetadata,
      SaveOnboarding, ListTaskList, ListSigned, CopyStep, CopyCompany, CopySigned, DeleteSigned,
      OneFails, Saved, DocFail
  <2> QED BY <2>1 DEF fileRows, RowsFrom
<1> QED BY <1>1, <1>2, <1>3, <1>4, <1>5

\* The key of an upload is announced by the upload itself only.
LEMMA CallAnnounces ==
  ASSUME DocTypes, DocTypes', OriginInv, OriginInv', NEW c \in Calls, DocCallStep(c),
         NEW k \in FileKeys, k[2] = 0, k[3] = 0, IsUrl(k[1])
  PROVE  Announced(k)' => Announced(k)
<1>1. UNCHANGED url /\ Later
  BY CallLater DEF browser
<1>2. Told(k)' => Told(k)
  BY <1>1, CallTells DEF Told, IsUrl
<1>3. DocSteps(c) /\ SavesFrom(c)
  BY CallSaves DEF SavesFrom
<1>4. ASSUME NEW d \in Calls, Brings(d, k)' PROVE Announced(k)
  <2>1. CASE d # c
    BY <1>1, <1>3, <1>4, <2>1, OthersKeep DEF Announced
  <2>2. CASE d = c
    <3>1. ~ Service(k)' /\ IsUrl(k[1])'
      BY <1>1 DEF Service, IsUrl
    <3> PICK l : l = call'[c]
      OBVIOUS
    <3>2. CallOrigin(l)'
      BY <1>3 DEF OriginInv, CallsNow
    <3>3. l.op = "save" /\ l.key = k
      BY <1>4, <2>2, <3>1, <3>2 DEF Brings, CallOrigin, Plain
    <3>4. CASE call[c].op = "save" /\ call[c].key = k
      BY <3>4 DEF Announced, Brings
    <3>5. CASE \E e \in raised : e.key = k
      BY <3>5 DEF Announced, Told
    <3> QED BY <1>3, <3>3, <3>4, <3>5 DEF SavesFrom
  <2> QED BY <2>1, <2>2
<1> QED BY <1>2, <1>4 DEF Announced

LEMMA UploadOnceKept ==
  ASSUME DocTypes, DocTypes', OriginInv, OriginInv', KeyInv, NEW c \in Calls, DocCallStep(c),
         NEW u \in used, OnceOk(u), ~ Had("copied", u)', ~ Repeated(url[u].key)'
  PROVE  OnceOk(u)'
<1>1. UNCHANGED url /\ happened \subseteq happened' /\ Later
  BY CallLater DEF browser, Later
<1>2. ~ Had("copied", u) /\ ~ Repeated(url[u].key)
  BY <1>1, RepeatedStays DEF Had
<1>3. u \in Uploads /\ url[u] # None /\ u # 0
  BY UploadsNat DEF DocTypes, DocStore
<1> PICK k : k = url[u].key
  OBVIOUS
<1>4. k \in FileKeys /\ k[2] = 0 /\ k[3] = 0 /\ IsUrl(k[1]) /\ k = url'[u].key
  BY <1>1, <1>3, UrlIsPlain DEF IsUrl
<1>5. Announced(k)' => Announced(k)
  BY <1>4, CallAnnounces
<1>6. RowsFrom(c)
  BY CallRows
<1>7. \A r, s \in rows' : r.id = s.id => r = s
  BY DEF DocTypes, DocStore, RowsTyped
<1>8. CASE ~ (InsertUploaded(c) /\ call[c].by = u)
  <2>1. \A r \in rows' : r.by = u => \E s \in rows : s.id = r.id /\ s.by = u
    BY <1>3, <1>6, <1>8 DEF RowsFrom
  <2>2. \A r, s \in rows' : r.by = u /\ s.by = u => r = s
    BY <1>7, <2>1 DEF OnceOk
  <2>3. \A r \in rows' : r.by = u => ~ Announced(k)'
    BY <1>5, <2>1 DEF OnceOk
  <2> QED BY <1>4, <2>2, <2>3 DEF OnceOk
<1>9. CASE InsertUploaded(c) /\ call[c].by = u
  <2>1. call[c].key = k
    BY <1>2, <1>9, SavedRow DEF InsertUploaded, AtHome, Repeated
  <2>2. Brings(c, k)
    BY <1>4, <1>9, <2>1 DEF Brings, InsertUploaded
  <2>3. \A r \in rows : r.by # u
    BY <2>2 DEF OnceOk, Announced
  <2>4. \A r \in rows' : r.by = u => r.id = ids + 1
    BY <1>3, <1>6, <2>3 DEF RowsFrom
  <2>5. \A r, s \in rows' : r.by = u /\ s.by = u => r = s
    BY <1>7, <2>4
  <2>6. ~ Told(k) /\ \A d \in Calls \ {c} : ~ Brings(d, k)
    BY <1>2, <1>4, <2>2 DEF KeyInv, KeyOk
  <2>7. DocOver(c)
    BY <1>9, InsertUploadedTypes
  <2>8. \A d \in Calls : ~ Brings(d, k)'
    BY <1>1, <2>6, <2>7, OthersKeep, OverKeeps DEF DocOver, Now
  <2>9. ~ Told(k)'
    BY <1>1, <1>9, <2>6 DEF InsertUploaded, Told, IsUrl
  <2> QED BY <1>4, <2>5, <2>8, <2>9 DEF OnceOk, Announced
<1> QED BY <1>8, <1>9

\* A step of no call that announces a key is the use of a URL with that key.
LEMMA OnceBesides ==
  ASSUME DocTypes, DocTypes', OriginInv, NEW u \in used, OnceOk(u), ~ Repeated(url[u].key)',
         GenerateUrl \/ PutObject \/ ObjectLands \/ ObjectLost \/ RemovalLands \/ PatchCopies
  PROVE  OnceOk(u)'
<1>1. Later /\ UNCHANGED <<rows, call>>
  BY BesidesLater DEF GenerateUrl, PutObject, ObjectLands, ObjectLost, RemovalLands, PatchCopies, fileRows
<1>3. u \in Uploads /\ url[u] # None /\ url'[u] = url[u]
  BY <1>1, UrlStays
<1> PICK k : k = url[u].key
  OBVIOUS
<1>2. ~ Repeated(k)
  BY <1>1, <1>3, RepeatedStays DEF Later
<1>4. k \in FileKeys /\ k[2] = 0 /\ k[3] = 0 /\ IsUrl(k[1]) /\ k = url'[u].key
  BY <1>3, UrlIsPlain DEF IsUrl
<1>5. \A e \in raised' : e.key = k => e \in raised
  <2>1. CASE PutObject
    <3>1. PICK v \in Uploads \ used :
            /\ url[v] # None
            /\ raised' = raised \cup {[key |-> url[v].key, by |-> v]}
      BY <2>1, PutDoes
    <3>2. url[v].key # k
      BY <1>2, <1>3, <3>1 DEF OriginInv, UrlsApart, Repeated
    <3> QED BY <3>1, <3>2
  <2>2. CASE PatchCopies
    <3>1. PICK o \in stored : CopyTo(PatchedTo(o[1]), o)
      BY <2>2 DEF PatchCopies
    <3>2. o[1] \in FileKeys
      BY DEF DocTypes, DocStore, StoredTyped
    <3>3. PatchedTo(o[1]) # k
      BY <1>4, <3>2, SameNames
    <3> QED BY <3>1, <3>3 DEF CopyTo
  <2>3. CASE GenerateUrl \/ ObjectLands \/ ObjectLost \/ RemovalLands
    BY <2>3 DEF GenerateUrl, ObjectLands, ObjectLost, RemovalLands
  <2> QED BY <2>1, <2>2, <2>3
<1>6. Told(k)' => Told(k)
  BY <1>4, <1>5 DEF Told
<1>7. \A c \in Calls : Brings(c, k)' => Brings(c, k)
  BY <1>1, <1>4 DEF Brings
<1> QED BY <1>1, <1>4, <1>6, <1>7 DEF OnceOk, Announced

LEMMA UploadsKept ==
  ASSUME DocTypes, DocTypes', OriginInv, OriginInv', KeyInv, UploadInv, DocNext
  PROVE  UploadInv'
<1> SUFFICES ASSUME NEW u \in used', ~ Had("copied", u)', ~ Repeated(url[u].key)' PROVE OnceOk(u)'
  BY DEF UploadInv
<1>1. CASE u \in used
  <2>1. Later
    BY CallLater, BesidesLater DEF DocNext
  <2>2. happened \subseteq happened' /\ url'[u] = url[u]
    BY <1>1, <2>1, UrlStays DEF Later
  <2> PICK k : k = url[u].key
    OBVIOUS
  <2>3. ~ Repeated(k)'
    BY <2>2 DEF Repeated
  <2>4. ~ Repeated(k)
    BY <2>2, <2>3, RepeatedStays
  <2>5. ~ Had("copied", u)
    BY <2>2 DEF Had
  <2>6. OnceOk(u)
    BY <1>1, <2>4, <2>5 DEF UploadInv
  <2>7. CASE GenerateUrl \/ PutObject \/ ObjectLands \/ ObjectLost \/ RemovalLands \/ PatchCopies
    BY <1>1, <2>3, <2>6, <2>7, OnceBesides
  <2>8. ASSUME NEW c \in Calls, DocCallStep(c) PROVE OnceOk(u)'
    BY <1>1, <2>3, <2>6, <2>8, UploadOnceKept
  <2> QED BY <2>7, <2>8 DEF DocNext
<1>2. CASE u \notin used
  <2>1. UNCHANGED rows
    <3>1. CASE PutObject
      BY <3>1 DEF PutObject, fileRows
    <3>2. CASE ~ PutObject
      <4>1. UNCHANGED used
        <5>1. \A c \in Calls : DocCallStep(c) => UNCHANGED used
          BY CallLater DEF browser
        <5> QED BY <3>2, <5>1 DEF DocNext, GenerateUrl, ObjectLands, ObjectLost, RemovalLands, PatchCopies, browser
      <4> QED BY <1>2, <4>1
    <3> QED BY <3>1, <3>2
  <2>2. \A r \in rows : r.by # u
    <3>1. u # 0
      BY UploadsNat DEF DocTypes, DocStore
    <3> QED BY <1>2, <3>1 DEF OriginInv, RowOrigin
  <2> QED BY <2>1, <2>2 DEF OnceOk
<1> QED BY <1>1, <1>2
-----------------------------------------------------------------------------
(* Two calls on a row are noted.                                           *)

\* A call that takes a row now has it for itself, or this is noted.
TouchesFrom(c) ==
  /\ DocSteps(c)
  /\ \A x \in 1 .. MaxRows :
       Touches(c, x)' => \/ Touches(c, x) \/ <<"beside", x>> \in happened'
                         \/ \A d \in Calls \ {c} : ~ Touches(d, x)

LEMMA BesideStays ==
  ASSUME BesideInv, NEW c \in Calls, TouchesFrom(c), happened \subseteq happened'
  PROVE  BesideInv'
<1> SUFFICES ASSUME NEW b \in Calls, NEW d \in Calls, NEW x \in 1 .. MaxRows,
                    Touches(b, x)', Touches(d, x)', b # d
             PROVE  Had("beside", x)'
  BY DEF BesideInv
<1>1. \A e \in Calls \ {c} : Touches(e, x)' => Touches(e, x)
  BY DEF TouchesFrom, DocSteps, Touches, Active
<1>2. Had("beside", x) => Had("beside", x)'
  BY DEF Had
<1>3. CASE b # c /\ d # c
  BY <1>1, <1>2, <1>3 DEF BesideInv
<1>4. ASSUME NEW e \in Calls \ {c}, Touches(e, x)', Touches(c, x)' PROVE Had("beside", x)'
  <2>1. Touches(e, x)
    BY <1>1, <1>4
  <2>2. Touches(c, x) => Had("beside", x)
    BY <2>1 DEF BesideInv
  <2> QED BY <1>2, <1>4, <2>1, <2>2 DEF TouchesFrom, Had
<1> QED BY <1>3, <1>4

LEMMA OverTouches ==
  ASSUME NEW c \in Calls, DocOver(c)
  PROVE  TouchesFrom(c)
BY DocOperates DEF TouchesFrom, DocOver, Now, Touches, Active

LEMMA SameTouches ==
  ASSUME DocTypes, NEW c \in Calls, NEW pc, NEW key, NEW ptr, NEW by, NEW left,
         Now(c, call[c].op, pc, key, call[c].row, ptr, by, left)
  PROVE  TouchesFrom(c)
BY DEF TouchesFrom, Now, Touches, Active

\* An operation starts on row id (0: none).
LEMMA StartTouches ==
  ASSUME DocTypes, NEW c \in Calls, NEW op, op # "onboarding", NEW pc, NEW key, NEW id,
         Starts(c, op, pc, key, id), id = 0 \/ DocBeside({id})
  PROVE  TouchesFrom(c)
<1> SUFFICES ASSUME NEW x \in 1 .. MaxRows, Touches(c, x)', NEW d \in Calls \ {c}, Touches(d, x)
             PROVE  <<"beside", x>> \in happened'
  BY DEF TouchesFrom, Starts, Now
<1>1. x = id /\ x # 0
  BY DEF Starts, Now, Touches, Active
<1>2. Running
  BY DocOperates DEF Touches, Active, Running
<1> QED BY <1>1, <1>2 DEF DocBeside, With

LEMMA OnboardingTouches ==
  ASSUME DocTypes, NEW c \in Calls, SaveOnboarding(c)
  PROVE  TouchesFrom(c)
<1>1. Starts(c, "onboarding", "read", NoKey, 0) /\ DocBeside({CompanyRow, SignedRow})
  BY SaveOnboardingDoes
<1> SUFFICES ASSUME NEW x \in 1 .. MaxRows, Touches(c, x)', NEW d \in Calls \ {c}, Touches(d, x)
             PROVE  <<"beside", x>> \in happened'
  BY <1>1 DEF TouchesFrom, Starts, Now
<1>2. x \in {CompanyRow, SignedRow}
  BY <1>1 DEF Starts, Now, Touches, Active
<1>3. Running
  BY DocOperates DEF Touches, Active, Running
<1> QED BY <1>1, <1>2, <1>3 DEF DocBeside, With

LEMMA HeadTouches ==
  ASSUME DocTypes, NEW c \in Calls, HeadObject(c)
  PROVE  TouchesFrom(c)
<1>1. CASE DocOver(c)
  BY <1>1, OverTouches
<1>2. ASSUME NEW o,
             Now(c, "save", NextStep(o[2]), call[c].key, o[2].row, call[c].ptr, o[2].by, {}),
             (\E d \in Calls \ {c} : Active(d)) => <<"beside", o[2].row>> \in happened'
      PROVE  TouchesFrom(c)
  <2> SUFFICES ASSUME NEW x \in 1 .. MaxRows, Touches(c, x)', NEW d \in Calls \ {c}, Touches(d, x)
               PROVE  <<"beside", x>> \in happened'
    BY <1>2 DEF TouchesFrom, Now
  <2>1. x = o[2].row
    BY <1>2 DEF Now, Touches, Active
  <2>2. Active(d)
    BY DocOperates DEF Touches, Active
  <2> QED BY <1>2, <2>1, <2>2
<1> QED BY <1>1, <1>2, HeadDoes

\* The row for the employee is a new one.
LEMMA EmployeeTouches ==
  ASSUME DocTypes, NEW c \in Calls, RowForEmployee(c)
  PROVE  TouchesFrom(c)
<1>1. Now(c, "onboarding", call[c].pc, call[c].key, ids + 1, call[c].ptr, call[c].by,
          call[c].left \ {"row"})
  BY EmployeeRowDoes
<1>2. call[c].op = "onboarding"
  BY DEF RowForEmployee, Ready
<1> SUFFICES ASSUME NEW x \in 1 .. MaxRows, Touches(c, x)', ~ Touches(c, x),
                    NEW d \in Calls \ {c}, Touches(d, x)
             PROVE  FALSE
  BY <1>1 DEF TouchesFrom, Now
<1>3. x = ids + 1
  BY <1>1, <1>2 DEF Now, Touches, Active
<1>4. call[d].row <= ids /\ call[d].row \in Nat /\ ids \in Nat /\ ids >= 2
  BY DocLocalType, RowsAssumption DEF DocCallType, DocLocals, DocTypes, DocStore
<1> QED BY <1>3, <1>4 DEF Touches, CompanyRow, SignedRow

LEMMA UploadedTouches ==
  ASSUME DocTypes, NEW c \in Calls,
         Deliver(c) \/ CreateEsignatureMetadata(c) \/ InsertUploaded(c)
         \/ LoadCurrent(c) \/ UpdatePointer(c)
  PROVE  TouchesFrom(c)
<1>1. CASE Deliver(c)
  <2>1. PICK e \in raised : Starts(c, "save", "head", e.key, 0)
    BY <1>1, DeliverDoes
  <2> QED BY <2>1, StartTouches
<1>2. CASE CreateEsignatureMetadata(c)
  BY <1>2, MetaDoes, OverTouches, SameTouches DEF DocPlace
<1>3. CASE InsertUploaded(c) \/ UpdatePointer(c)
  BY <1>3, InsertUploadedTypes, UpdatePointerTypes, OverTouches
<1>4. CASE LoadCurrent(c)
  BY <1>4, LoadCurrentDoes, OverTouches, SameTouches DEF DocPlace
<1> QED BY <1>1, <1>2, <1>3, <1>4

LEMMA EditedTouches ==
  ASSUME DocTypes, NEW c \in Calls,
         \/ Request(c) \/ ReadForEdit(c) \/ WriteBack(c) \/ ReadForReplace(c) \/ ReplaceFile(c)
         \/ DeleteCompanyDocument(c) \/ DeleteCompanyDocumentRecord(c)
         \/ DeleteEmployeeDocument(c) \/ DeleteEmployeeDocumentRecord(c)
  PROVE  TouchesFrom(c)
<1>1. CASE Request(c)
  <2>1. PICK op, id : op # "onboarding" /\ Starts(c, op, "read", NoKey, id) /\ DocBeside({id})
    BY <1>1, RequestDoes
  <2> QED BY <2>1, StartTouches
<1>2. CASE ReadForEdit(c)
  <2>1. ASSUME NEW r, Now(c, "edit", "write", call[c].key, call[c].row, r.ptr, call[c].by, {})
        PROVE  TouchesFrom(c)
    BY <1>2, <2>1, SameTouches DEF ReadForEdit, At
  <2> QED BY <1>2, <2>1, ReadForEditDoes, OverTouches
<1>3. CASE WriteBack(c)
  BY <1>3, WriteBackTypes, OverTouches
<1>4. CASE ReadForReplace(c)
  <2>1. ASSUME NEW r, Now(c, "replace", "upload", call[c].key, call[c].row, r.ptr, call[c].by, {})
        PROVE  TouchesFrom(c)
    BY <1>4, <2>1, SameTouches DEF ReadForReplace, At
  <2> QED BY <1>4, <2>1, ReadForReplaceDoes, OverTouches
<1>5. CASE ReplaceFile(c)
  <2>1. ASSUME NEW k, Replaced(c, k) PROVE TouchesFrom(c)
    BY <1>5, <2>1, SameTouches DEF Replaced, ReplaceFile, At
  <2> QED BY <1>5, <2>1, ReplaceFileDoes
<1>6. CASE DeleteCompanyDocument(c) \/ DeleteEmployeeDocument(c)
  BY <1>6, LoadForDeleteDoes, OverTouches, SameTouches DEF DocPlace, DeleteCompanyDocument, DeleteEmployeeDocument
<1>7. CASE DeleteCompanyDocumentRecord(c) \/ DeleteEmployeeDocumentRecord(c)
  BY <1>7, DropDoes, OverTouches DEF DeleteCompanyDocumentRecord, DeleteEmployeeDocumentRecord
<1> QED BY <1>1, <1>2, <1>3, <1>4, <1>5, <1>6, <1>7

LEMMA CreatedTouches ==
  ASSUME DocTypes, NEW c \in Calls,
         CreateCompanyDocument(c) \/ ChooseKey(c) \/ InsertMetadata(c) \/ InsertCompanyFile(c)
  PROVE  TouchesFrom(c)
<1>1. CASE CreateCompanyDocument(c)
  BY <1>1, CreationDoes, StartTouches
<1>2. CASE ChooseKey(c)
  <2>1. call[c].row = 0 /\ call[c].op = "create"
    BY <1>2, DocLocalType DEF ChooseKey, At, DocCallType
  <2> QED BY <1>2, <2>1, ChooseKeyDoes, SameTouches
<1>3. CASE InsertMetadata(c)
  BY <1>3, InsertMetadataTypes, SameTouches DEF DocPlace
<1>4. CASE InsertCompanyFile(c)
  BY <1>4, InsertCompanyFileTypes, OverTouches
<1> QED BY <1>1, <1>2, <1>3, <1>4

LEMMA OnboardedTouches ==
  ASSUME DocTypes, NEW c \in Calls,
         \/ ListTaskList(c) \/ ListSigned(c)
         \/ CopyCompany(c) \/ CopySigned(c) \/ DeleteSigned(c) \/ PointSigned(c) \/ OneFails(c)
         \/ Saved(c) \/ DocFail(c)
  PROVE  TouchesFrom(c)
<1>2. CASE ListTaskList(c)
  <2>1. call[c].row = 0 /\ call[c].op = "onboarding"
    BY <1>2, DocLocalType DEF ListTaskList, At, DocCallType
  <2>2. ASSUME NEW r, Now(c, "onboarding", "list", r.ptr, 0, call[c].ptr, call[c].by, CompanySteps)
        PROVE  TouchesFrom(c)
    BY <2>1, <2>2, SameTouches
  <2> QED BY <1>2, <2>2, ListTaskDoes, SameTouches DEF DocPlace
<1>3. CASE ListSigned(c)
  <2>1. ASSUME NEW r, Now(c, "onboarding", "run", call[c].key, call[c].row, r.ptr, call[c].by,
                          call[c].left \cup SignedSteps)
        PROVE  TouchesFrom(c)
    BY <1>3, <2>1 DEF ListSigned, At, TouchesFrom, Now, Touches, Active
  <2> QED BY <1>3, <2>1, ListSignedDoes, SameTouches DEF DocPlace
<1>4. ASSUME NEW steps, Finish(c, steps) PROVE TouchesFrom(c)
  BY <1>4, FinishNow, SameTouches
<1>5. CASE CopyCompany(c) \/ CopySigned(c)
  BY <1>4, <1>5 DEF CopyCompany, CopySigned, CopyStep
<1>6. CASE DeleteSigned(c) \/ PointSigned(c) \/ OneFails(c)
  BY <1>4, <1>6 DEF DeleteSigned, PointSigned, OneFails
<1>7. CASE Saved(c) \/ DocFail(c)
  BY <1>7, SavedTypes, DocFailTypes, OverTouches
<1> QED BY <1>2, <1>3, <1>5, <1>6, <1>7

LEMMA CallTouches ==
  ASSUME DocTypes, NEW c \in Calls, DocCallStep(c)
  PROVE  TouchesFrom(c)
<1>1. CASE \/ Deliver(c) \/ HeadObject(c) \/ CreateEsignatureMetadata(c) \/ InsertUploaded(c)
           \/ LoadCurrent(c) \/ UpdatePointer(c)
  BY <1>1, UploadedTouches, HeadTouches
<1>2. CASE \/ Request(c) \/ ReadForEdit(c) \/ WriteBack(c) \/ ReadForReplace(c) \/ ReplaceFile(c)
           \/ DeleteCompanyDocument(c) \/ DeleteCompanyDocumentRecord(c)
           \/ DeleteEmployeeDocument(c) \/ DeleteEmployeeDocumentRecord(c)
  BY <1>2, EditedTouches
<1>3. CASE CreateCompanyDocument(c) \/ ChooseKey(c) \/ InsertMetadata(c) \/ InsertCompanyFile(c)
  BY <1>3, CreatedTouches
<1>4. CASE \/ SaveOnboarding(c) \/ ListTaskList(c) \/ ListSigned(c) \/ RowForEmployee(c)
           \/ CopyCompany(c) \/ CopySigned(c) \/ DeleteSigned(c) \/ PointSigned(c) \/ OneFails(c)
           \/ Saved(c) \/ DocFail(c)
  BY <1>4, OnboardedTouches, OnboardingTouches, EmployeeTouches
<1> QED BY <1>1, <1>2, <1>3, <1>4 DEF DocCallStep

LEMMA BesidesKept ==
  ASSUME DocTypes, BesideInv, DocNext
  PROVE  BesideInv'
<1>1. CASE GenerateUrl \/ PutObject \/ ObjectLands \/ ObjectLost \/ RemovalLands \/ PatchCopies
  <2>1. UNCHANGED call /\ happened \subseteq happened'
    BY <1>1, BesidesLater DEF GenerateUrl, PutObject, ObjectLands, ObjectLost, RemovalLands, PatchCopies, Later
  <2> QED BY <2>1 DEF BesideInv, Touches, Active, Had
<1>2. ASSUME NEW c \in Calls, DocCallStep(c) PROVE BesideInv'
  BY <1>2, CallTouches, CallLater, BesideStays DEF Later
<1> QED BY <1>1, <1>2 DEF DocNext
-----------------------------------------------------------------------------
(* What a call read is true while no other call is on the row.             *)

\* The rows that a step of c writes are new, or c touches them.
LEMMA CallWrites ==
  ASSUME DocTypes, NEW c \in Calls, DocCallStep(c)
  PROVE  \A r \in rows' : r.id = ids + 1 \/ Touches(c, r.id)
                          \/ \E s \in rows : s.id = r.id /\ s.ptr = r.ptr
<1>1. CASE InsertUploaded(c) \/ InsertCompanyFile(c) \/ RowForEmployee(c)
  <2>1. \E owner, k, by : Insert(owner, k, by)
    BY <1>1 DEF InsertUploaded, InsertCompanyFile, RowForEmployee
  <2>2. \E n : rows' = rows \cup {n} /\ n.id = ids + 1
    BY <2>1, InsertRow
  <2> QED BY <2>2
<1>2. CASE UpdatePointer(c) \/ WriteBack(c)
  <2>1. \A r \in rows' : r.id = call[c].row \/ \E s \in rows : s.id = r.id /\ s.ptr = r.ptr
    BY <1>2, UpdatePointerTypes, WriteBackTypes DEF Pointed
  <2>2. Active(c)
    BY <1>2, DocOperates DEF UpdatePointer, WriteBack, At, Active
  <2> QED BY <2>1, <2>2 DEF Touches
<1>3. CASE PointSigned(c)
  BY <1>3, PointSignedTypes DEF Pointed, Touches, PointSigned, Ready
<1>4. CASE DeleteCompanyDocumentRecord(c) \/ DeleteEmployeeDocumentRecord(c)
  BY <1>4 DEF DropRow, DeleteCompanyDocumentRecord, DeleteEmployeeDocumentRecord
<1>5. CASE ~ \/ InsertUploaded(c) \/ InsertCompanyFile(c) \/ RowForEmployee(c) \/ UpdatePointer(c)
             \/ WriteBack(c) \/ PointSigned(c) \/ DeleteCompanyDocumentRecord(c)
             \/ DeleteEmployeeDocumentRecord(c)
  <2>1. UNCHANGED fileRows
    BY <1>5, Zenon DEF DocCallStep, Deliver, HeadObject, CreateEsignatureMetadata, LoadCurrent,
      Request, ReadForEdit, ReadForReplace, ReplaceFile, DeleteCompanyDocument,
      DeleteEmployeeDocument, LoadForDelete, CreateCompanyDocument, ChooseKey, InsertMetadata,
      SaveOnboarding, ListTaskList, ListSigned, CopyStep, CopyCompany, CopySigned, DeleteSigned,
      OneFails, Saved, DocFail
  <2> QED BY <2>1 DEF fileRows
<1> QED BY <1>1, <1>2, <1>3, <1>4, <1>5

LEMMA RowsOnce ==
  ASSUME DocTypes
  PROVE  /\ \A x : \A r, s \in Row(x) : r = s
         /\ \A r \in rows : r.id <= ids /\ r.id \in 1 .. MaxRows
         /\ ids \in Nat /\ ids >= 2
         /\ \A c \in Calls : call[c].row <= ids /\ call[c].row \in Nat /\ call[c].row <= MaxRows
BY DocLocalType, RowsAssumption DEF DocTypes, DocStore, RowsTyped, Row, FileRecords, DocCallType, DocLocals

\* A call that takes no step reads what it read.
LEMMA ReadStays ==
  ASSUME DocTypes, BesideInv', NEW c \in Calls, DocCallStep(c), NEW d \in Calls \ {c},
         ReadOk(call[d]), BesideInv
  PROVE  ReadOk(call[d])'
<1>1. DocSteps(c) /\ happened \subseteq happened'
  BY CallLater, CallSaves DEF SavesFrom, Later
<1> PICK l : l = call[d]
  OBVIOUS
<1>2. l = call'[d]
  BY <1>1 DEF DocSteps
<1>3. ASSUME NEW x \in 1 .. MaxRows, Touches(d, x), NEW k,
             Had("beside", x) \/ \A r \in Row(x) : r.ptr = k
      PROVE  Had("beside", x)' \/ \A r \in Row(x)' : r.ptr = k
  <2>1. Had("beside", x) => Had("beside", x)'
    BY <1>1 DEF Had
  <2>2. CASE Touches(c, x)
    BY <1>3, <2>1, <2>2 DEF BesideInv
  <2>3. CASE ~ Touches(c, x)
    <3>1. x # ids + 1
      BY <1>3, RowsOnce DEF Touches, CompanyRow, SignedRow
    <3>2. \A r \in Row(x)' : \E s \in Row(x) : s.ptr = r.ptr
      BY <2>3, <3>1, CallWrites DEF Row
    <3> QED BY <1>3, <2>1, <3>2
  <2> QED BY <2>2, <2>3
<1>4. l.op # None => l.row = 0 \/ (l.row \in 1 .. MaxRows /\ Touches(d, l.row))
  BY RowsOnce DEF Touches, Active
<1>5. l.op = "onboarding" => SignedRow \in 1 .. MaxRows /\ Touches(d, SignedRow)
  BY RowsAssumption DEF Touches, SignedRow
<1>6. l.op = "edit" => l.row # 0
  BY DocLocalType DEF DocCallType
<1>7. ReadOk(l)'
  <2>1. l.op = "edit" /\ l.pc = "write" =>
          Had("beside", l.row)' \/ \A r \in Row(l.row)' : r.ptr = l.ptr
    BY <1>3, <1>4, <1>6, DocOperates DEF ReadOk
  <2>2. l.op = "onboarding" /\ "pointSigned" \in l.left =>
          Had("beside", SignedRow)' \/ \A r \in Row(SignedRow)' : r.ptr = l.ptr
    BY <1>3, <1>5 DEF ReadOk
  <2>3. l.op = "onboarding" /\ l.row # 0 /\ "row" \notin l.left /\ "copyCompany" \in l.left =>
          Had("beside", l.row)' \/ \A r \in Row(l.row)' : r.ptr = EmployeeKey
    BY <1>3, <1>4, DocOperates DEF ReadOk
  <2> QED BY <2>1, <2>2, <2>3 DEF ReadOk
<1> QED BY <1>2, <1>7 DEF ReadOk

\* Who reads nothing is right.
LEMMA ReadsNone ==
  ASSUME NEW c \in Calls, call'[c].op = "edit" => call'[c].pc # "write",
         call'[c].op # "onboarding" \/ call'[c].left = {}
  PROVE  ReadOk(call[c])'
BY DEF ReadOk

LEMMA OverReads ==
  ASSUME NEW c \in Calls, DocOver(c)
  PROVE  ReadOk(call[c])'
BY DocOperates, ReadsNone DEF DocOver, Now

\* The rows that an onboarding has read are as they were.
LEMMA OnboardingReads ==
  ASSUME DocTypes, NEW c \in Calls, ReadOk(call[c]), NEW left, happened \subseteq happened',
         call[c].op = "onboarding",
         Now(c, "onboarding", call'[c].pc, call'[c].key, call[c].row, call[c].ptr, call[c].by, left),
         "pointSigned" \in left => "pointSigned" \in call[c].left /\ Row(SignedRow)' = Row(SignedRow),
         "row" \notin left /\ "copyCompany" \in left =>
            /\ "row" \notin call[c].left /\ "copyCompany" \in call[c].left
            /\ \A r \in Row(call[c].row)' : r \in Row(call[c].row) \/ r.id = SignedRow
  PROVE  ReadOk(call[c])'
<1> PICK l, m : l = call[c] /\ m = call'[c]
  OBVIOUS
<1>1. /\ m.op = "onboarding" /\ m.row = l.row /\ m.ptr = l.ptr /\ m.left = left
      /\ l.op = "onboarding" /\ l.row # SignedRow
  BY DocLocalType DEF Now, DocCallType
<1>2. \A x : Had("beside", x) => Had("beside", x)'
  BY DEF Had
<1>3. "pointSigned" \in left => Had("beside", SignedRow)' \/ \A r \in Row(SignedRow)' : r.ptr = l.ptr
  BY <1>1, <1>2 DEF ReadOk
<1>4. l.row # 0 /\ "row" \notin left /\ "copyCompany" \in left =>
        Had("beside", l.row)' \/ \A r \in Row(l.row)' : r.ptr = EmployeeKey
  BY <1>1, <1>2 DEF ReadOk, Row
<1>5. ReadOk(m)'
  BY <1>1, <1>3, <1>4 DEF ReadOk
<1> QED BY <1>5 DEF ReadOk

LEMMA FinishReads ==
  ASSUME DocTypes, NEW c \in Calls, ReadOk(call[c]), happened \subseteq happened',
         call[c].op = "onboarding", NEW steps, Finish(c, steps),
         "row" \in steps => "copyCompany" \in steps, UNCHANGED rows
  PROVE  ReadOk(call[c])'
<1> PICK left : left = call[c].left \ steps
  OBVIOUS
<1>1. Now(c, "onboarding", call[c].pc, call[c].key, call[c].row, call[c].ptr, call[c].by, left)
  BY FinishNow
<1>2. call'[c].pc = call[c].pc /\ call'[c].key = call[c].key
  BY <1>1 DEF Now
<1>3. Row(SignedRow)' = Row(SignedRow) /\ Row(call[c].row)' = Row(call'[c].row)
  BY <1>1 DEF Row, Now
<1>4. \A r \in Row(call[c].row)' : r \in Row(call[c].row)
  BY <1>1 DEF Row, Now
<1> QED BY <1>1, <1>2, <1>3, <1>4, OnboardingReads

LEMMA EditReads ==
  ASSUME DocTypes, NEW c \in Calls, ReadForEdit(c)
  PROVE  ReadOk(call[c])'
<1>1. UNCHANGED rows
  BY DEF ReadForEdit, fileRows
<1>2. CASE DocOver(c)
  BY <1>2, OverReads
<1>3. ASSUME NEW r \in Row(call[c].row),
             Now(c, "edit", "write", call[c].key, call[c].row, r.ptr, call[c].by, {})
      PROVE  ReadOk(call[c])'
  <2> PICK x, m : x = call[c].row /\ m = call'[c]
    OBVIOUS
  <2>1. m.op = "edit" /\ m.row = x /\ m.ptr = r.ptr
    BY <1>3 DEF Now
  <2>2. \A s \in Row(x)' : s.ptr = r.ptr
    BY <1>1, RowsOnce DEF Row
  <2>3. ReadOk(m)'
    BY <2>1, <2>2 DEF ReadOk
  <2> QED BY <2>3 DEF ReadOk
<1> QED BY <1>2, <1>3, ReadForEditDoes

LEMMA ListReads ==
  ASSUME DocTypes, NEW c \in Calls, ListSigned(c), ReadOk(call[c])
  PROVE  ReadOk(call[c])'
<1>1. UNCHANGED <<rows, happened>>
  BY DEF ListSigned, fileRows
<1>2. CASE DocPlace(c, "run")
  BY <1>1, <1>2 DEF ReadOk, DocPlace, Now, Had, Row
<1>3. ASSUME NEW r \in Row(SignedRow),
             Now(c, "onboarding", "run", call[c].key, call[c].row, r.ptr, call[c].by,
                 call[c].left \cup SignedSteps)
      PROVE  ReadOk(call[c])'
  <2> PICK l, m : l = call[c] /\ m = call'[c]
    OBVIOUS
  <2>1. /\ m.op = "onboarding" /\ m.row = l.row /\ m.ptr = r.ptr /\ m.left = l.left \cup SignedSteps
        /\ l.op = "onboarding"
    BY <1>3 DEF Now, ListSigned, At
  <2>2. \A s \in Row(SignedRow)' : s.ptr = r.ptr
    BY <1>1, RowsOnce DEF Row
  <2>3. ReadOk(m)'
    BY <1>1, <2>1, <2>2, StepsOfOnboarding DEF ReadOk, Row, Had
  <2> QED BY <2>3 DEF ReadOk
<1> QED BY <1>2, <1>3, ListSignedDoes

LEMMA EmployeeReads ==
  ASSUME DocTypes, NEW c \in Calls, RowForEmployee(c), ReadOk(call[c])
  PROVE  ReadOk(call[c])'
<1> PICK x, k : x = ids + 1 /\ k = EmployeeKey
  OBVIOUS
<1>0. Insert("onboarding", k, 0)
  BY EmployeeRowDoes
<1>1. PICK n : rows' = rows \cup {n} /\ n.id = x /\ n.ptr = k
  BY <1>0, InsertRow
<1>2. Now(c, "onboarding", call[c].pc, call[c].key, ids + 1, call[c].ptr, call[c].by,
          call[c].left \ {"row"}) /\ call[c].op = "onboarding"
  BY EmployeeRowDoes DEF RowForEmployee, Ready
<1>3. happened \subseteq happened'
  BY CallLater DEF Later, DocCallStep
<1> PICK l, m : l = call[c] /\ m = call'[c]
  OBVIOUS
<1>4. /\ m.op = "onboarding" /\ m.row = x /\ m.ptr = l.ptr /\ m.left = l.left \ {"row"}
      /\ l.op = "onboarding"
  BY <1>2 DEF Now
<1>5. \A r \in Row(x)' : r.ptr = k
  BY <1>1, RowsOnce DEF Row
<1>6. \A r \in Row(SignedRow)' : r \in Row(SignedRow)
  BY <1>1, RowsOnce DEF Row, SignedRow
<1>7. "pointSigned" \in m.left => Had("beside", SignedRow)' \/ \A r \in Row(SignedRow)' : r.ptr = m.ptr
  BY <1>3, <1>4, <1>6 DEF ReadOk, Had
<1>8. ReadOk(m)'
  BY <1>4, <1>5, <1>7 DEF ReadOk
<1> QED BY <1>8 DEF ReadOk

LEMMA FinishesReads ==
  ASSUME DocTypes, NEW c \in Calls,
         ListTaskList(c) \/ CopyCompany(c) \/ CopySigned(c) \/ DeleteSigned(c) \/ OneFails(c),
         ReadOk(call[c])
  PROVE  ReadOk(call[c])'
<1>0. happened \subseteq happened' /\ UNCHANGED rows
  <2>1. DocCallStep(c)
    BY DEF DocCallStep
  <2>2. UNCHANGED fileRows
    BY DEF ListTaskList, CopyCompany, CopySigned, CopyStep, DeleteSigned, OneFails
  <2> QED BY <2>1, <2>2, CallLater DEF Later, fileRows
<1>1. CASE CopyCompany(c) \/ CopySigned(c)
  <2>1. PICK step \in {"copyCompany", "copySigned"} :
          Ready(c, step) /\ (Finish(c, {step}) \/ Finish(c, {step} \cup After(step)))
    BY <1>1 DEF CopyCompany, CopySigned, CopyStep
  <2>2. "row" \notin After(step) /\ step # "row" /\ call[c].op = "onboarding"
    BY <2>1, ReadySteps, StepsOfOnboarding DEF Ready
  <2>3. \A steps : Finish(c, steps) /\ "row" \notin steps => ReadOk(call[c])'
    BY <1>0, <2>2, FinishReads
  <2> QED BY <2>1, <2>2, <2>3
<1>2. CASE DeleteSigned(c)
  BY <1>0, <1>2, FinishReads DEF DeleteSigned, Ready
<1>3. CASE OneFails(c)
  <2>1. PICK step \in call[c].left : Ready(c, step) /\ Finish(c, {step} \cup After(step))
    BY <1>3 DEF OneFails
  <2>2. step \in CompanySteps \cup SignedSteps /\ call[c].op = "onboarding"
    BY <2>1, DocLocalType DEF DocLocals, Ready
  <2>3. "row" \in {step} \cup After(step) => "copyCompany" \in {step} \cup After(step)
    BY <2>1, <2>2, ReadySteps, StepsOfOnboarding DEF After, Before
  <2> PICK steps : steps = {step} \cup After(step)
    OBVIOUS
  <2> QED BY <1>0, <2>1, <2>2, <2>3, FinishReads
<1>4. CASE ListTaskList(c)
  <2>1. CASE DocPlace(c, "list") /\ call[c].left = {}
    BY <2>1, <1>4, DocOperates, ReadsNone DEF DocPlace, Now, ListTaskList, At
  <2>2. ASSUME NEW k, Now(c, "onboarding", "list", k, 0, call[c].ptr, call[c].by, CompanySteps)
        PROVE  ReadOk(call[c])'
    BY <2>2, StepsOfOnboarding DEF ReadOk, Now
  <2> QED BY <1>4, <2>1, <2>2, ListTaskDoes
<1> QED BY <1>1, <1>2, <1>3, <1>4

LEMMA PointReads ==
  ASSUME DocTypes, NEW c \in Calls, PointSigned(c), ReadOk(call[c])
  PROVE  ReadOk(call[c])'
<1> PICK left : left = call[c].left \ {"pointSigned"}
  OBVIOUS
<1>1. Now(c, "onboarding", call[c].pc, call[c].key, call[c].row, call[c].ptr, call[c].by, left)
      /\ call[c].op = "onboarding"
  BY FinishNow DEF PointSigned, Ready
<1>2. call'[c].pc = call[c].pc /\ call'[c].key = call[c].key
  BY <1>1 DEF Now
<1> PICK k : k = MovedTo(call[c].ptr)
  OBVIOUS
<1>3. rows' = {IF r.id = SignedRow THEN [r EXCEPT !.ptr = k] ELSE r : r \in rows}
  BY DEF PointSigned, Point
<1>4. \A r \in rows' : r \in rows \/ r.id = SignedRow
  <2>1. \A r \in rows : [r EXCEPT !.ptr = k].id = r.id
    BY DEF DocTypes, DocStore, RowsTyped, FileRecords
  <2> QED BY <1>3, <2>1
<1>5. \A r \in Row(call[c].row)' : r \in Row(call[c].row) \/ r.id = SignedRow
  BY <1>1, <1>4 DEF Row, Now
<1>6. happened \subseteq happened'
  BY CallLater DEF Later, DocCallStep
<1> QED BY <1>1, <1>2, <1>5, <1>6, OnboardingReads

LEMMA OtherReads ==
  ASSUME DocTypes, NEW c \in Calls,
         \/ Deliver(c) \/ HeadObject(c) \/ CreateEsignatureMetadata(c) \/ InsertUploaded(c)
         \/ LoadCurrent(c) \/ UpdatePointer(c)
         \/ Request(c) \/ WriteBack(c) \/ ReadForReplace(c) \/ ReplaceFile(c)
         \/ DeleteCompanyDocument(c) \/ DeleteCompanyDocumentRecord(c)
         \/ DeleteEmployeeDocument(c) \/ DeleteEmployeeDocumentRecord(c)
         \/ CreateCompanyDocument(c) \/ ChooseKey(c) \/ InsertMetadata(c) \/ InsertCompanyFile(c)
         \/ SaveOnboarding(c) \/ Saved(c) \/ DocFail(c)
  PROVE  ReadOk(call[c])'
<1>1. CASE Deliver(c)
  BY <1>1, DeliverDoes, ReadsNone DEF Starts, Now
<1>2. CASE HeadObject(c)
  <2>1. ASSUME NEW pc, NEW row, NEW by, Now(c, "save", pc, call[c].key, row, call[c].ptr, by, {})
        PROVE  ReadOk(call[c])'
    BY <2>1, ReadsNone DEF Now
  <2> QED BY <1>2, <2>1, HeadDoes, OverReads
<1>3. ASSUME NEW pc, DocPlace(c, pc), call[c].op \in {"save", "create", "deleteCompany", "deleteEmployee"}
      PROVE  ReadOk(call[c])'
  BY <1>3, ReadsNone DEF DocPlace, Now
<1>4. CASE CreateEsignatureMetadata(c) \/ LoadCurrent(c)
  BY <1>3, <1>4, MetaDoes, LoadCurrentDoes, OverReads DEF CreateEsignatureMetadata, LoadCurrent, At
<1>5. CASE DeleteCompanyDocument(c) \/ DeleteEmployeeDocument(c)
  BY <1>3, <1>5, LoadForDeleteDoes, OverReads DEF DeleteCompanyDocument, DeleteEmployeeDocument, At
<1>6. CASE InsertMetadata(c)
  BY <1>3, <1>6, InsertMetadataTypes DEF InsertMetadata, At
<1>7. CASE InsertUploaded(c) \/ UpdatePointer(c) \/ WriteBack(c) \/ InsertCompanyFile(c) \/ Saved(c) \/ DocFail(c)
  BY <1>7, InsertUploadedTypes, UpdatePointerTypes, WriteBackTypes, InsertCompanyFileTypes, SavedTypes,
     DocFailTypes, OverReads
<1>8. CASE DeleteCompanyDocumentRecord(c) \/ DeleteEmployeeDocumentRecord(c)
  BY <1>8, DropDoes, OverReads DEF DeleteCompanyDocumentRecord, DeleteEmployeeDocumentRecord
<1>9. ASSUME NEW op, NEW id, Starts(c, op, "read", NoKey, id) PROVE ReadOk(call[c])'
  BY <1>9, ReadsNone DEF Starts, Now
<1>10. CASE Request(c) \/ CreateCompanyDocument(c) \/ SaveOnboarding(c)
  BY <1>9, <1>10, RequestDoes, CreationDoes, SaveOnboardingDoes
<1>11. CASE ReadForReplace(c) \/ ReplaceFile(c) \/ ChooseKey(c)
  <2>1. ASSUME NEW op, op \in {"replace", "create"}, NEW pc, NEW key, NEW id, NEW ptr, NEW by, NEW left,
               Now(c, op, pc, key, id, ptr, by, left)
        PROVE  ReadOk(call[c])'
    BY <2>1, ReadsNone DEF Now
  <2> QED BY <1>11, <2>1, ReadForReplaceDoes, ReplaceFileDoes, ChooseKeyDoes, OverReads DEF Replaced
<1> QED BY <1>1, <1>2, <1>4, <1>5, <1>6, <1>7, <1>8, <1>10, <1>11

LEMMA ReadsKept ==
  ASSUME DocTypes, BesideInv, BesideInv', ReadInv, DocNext
  PROVE  ReadInv'
<1>1. CASE GenerateUrl \/ PutObject \/ ObjectLands \/ ObjectLost \/ RemovalLands \/ PatchCopies
  <2>1. UNCHANGED <<call, rows>> /\ happened \subseteq happened'
    BY <1>1, BesidesLater
       DEF GenerateUrl, PutObject, ObjectLands, ObjectLost, RemovalLands, PatchCopies, Later, fileRows
  <2> QED BY <2>1 DEF ReadInv, ReadOk, Row, Had
<1>2. ASSUME NEW c \in Calls, DocCallStep(c) PROVE ReadInv'
  <2>1. ReadOk(call[c])'
    BY <1>2, OtherReads, PointReads, FinishesReads, EmployeeReads, ListReads, EditReads
       DEF DocCallStep, ReadInv
  <2>2. \A d \in Calls \ {c} : ReadOk(call[d])'
    BY <1>2, ReadStays DEF ReadInv
  <2> QED BY <2>1, <2>2 DEF ReadInv
<1> QED BY <1>1, <1>2 DEF DocNext
-----------------------------------------------------------------------------
(* The object that a call brings is there.                                 *)

LEMMA PutStores ==
  ASSUME NEW key, NEW meta, Put(key, meta), NEW k, IsStored(k) \/ k = key
  PROVE  IsStored(k)'
<1>1. <<key, meta>> \in stored' /\ <<key, meta>>[1] = key
  BY DEF Put
<1>2. CASE k = key
  BY <1>1, <1>2 DEF IsStored, Object
<1>3. CASE k # key /\ IsStored(k)
  <2>1. PICK o \in stored : o[1] = k
    BY <1>3 DEF IsStored, Object
  <2>2. o \in stored'
    BY <1>3, <2>1 DEF Put, Object
  <2> QED BY <2>1, <2>2 DEF IsStored, Object
<1> QED BY <1>2, <1>3

LEMMA LessStores ==
  ASSUME NEW key, stored' = stored \ Object(key), NEW k, IsStored(k)
  PROVE  IsStored(k)' \/ k = key
BY DEF IsStored, Object

\* An object is removed by what was to remove it, and an upload lands or is lost.
LEMMA ObjectsLast ==
  ASSUME DocTypes, DocNext, NEW k, IsStored(k) \/ k \in uploads
  PROVE  \/ IsStored(k)' \/ k \in uploads' \/ <<"uploadLost", k>> \in happened'
         \/ RemovalLands /\ k \in removals
         \/ \E c \in Calls : DeleteSigned(c) /\ k = call[c].ptr
<1>1. CASE ObjectLands
  <2>1. PICK key \in uploads : Put(key, Silent) /\ uploads' = uploads \ {key}
    BY <1>1 DEF ObjectLands
  <2> QED BY <2>1, PutStores
<1>2. CASE ObjectLost
  <2>1. UNCHANGED stored
    BY <1>2 DEF ObjectLost
  <2>2. PICK key \in uploads : Note("uploadLost", {key}) /\ uploads' = uploads \ {key}
    BY <1>2 DEF ObjectLost
  <2> QED BY <2>1, <2>2 DEF IsStored, Object, Note
<1>3. CASE RemovalLands
  <2>1. UNCHANGED uploads
    BY <1>3 DEF RemovalLands
  <2>2. PICK key \in removals : stored' = stored \ Object(key)
    BY <1>3 DEF RemovalLands
  <2> QED BY <1>3, <2>1, <2>2, LessStores
<1>4. CASE PutObject \/ PatchCopies
  <2>1. UNCHANGED uploads
    BY <1>4 DEF PutObject, PatchCopies, unawaited
  <2>2. \E key, meta : Put(key, meta)
    BY <1>4 DEF PutObject, PatchCopies, CopyTo
  <2> QED BY <2>1, <2>2, PutStores
<1>5. ASSUME NEW c \in Calls, CopyCompany(c) \/ CopySigned(c)
      PROVE  IsStored(k)' \/ k \in uploads'
  <2>1. UNCHANGED uploads
    BY <1>5 DEF CopyCompany, CopySigned, CopyStep, unawaited
  <2>2. (\E key, meta : Put(key, meta)) \/ UNCHANGED stored
    BY <1>5 DEF CopyCompany, CopySigned, CopyStep, CopyTo
  <2>3. UNCHANGED stored => (IsStored(k)' <=> IsStored(k))
    BY DEF IsStored, Object
  <2> QED BY <2>1, <2>2, <2>3, PutStores
<1>6. ASSUME NEW c \in Calls, DeleteSigned(c)
      PROVE  IsStored(k)' \/ k \in uploads' \/ k = call[c].ptr
  <2>1. UNCHANGED uploads
    BY <1>6 DEF DeleteSigned, unawaited
  <2>2. stored' = stored \ Object(call[c].ptr)
    BY <1>6 DEF DeleteSigned
  <2> QED BY <2>1, <2>2, LessStores
<1>7. CASE GenerateUrl
  BY <1>7 DEF GenerateUrl, unawaited, IsStored, Object
<1>8. ASSUME NEW c \in Calls, DocCallStep(c), ~ (CopyCompany(c) \/ CopySigned(c) \/ DeleteSigned(c))
      PROVE  IsStored(k)' \/ k \in uploads'
  <2>1. UNCHANGED stored
    BY <1>8, Zenon DEF DocCallStep, Deliver, HeadObject, CreateEsignatureMetadata, InsertUploaded, LoadCurrent,
      UpdatePointer, Request, ReadForEdit, WriteBack, ReadForReplace, ReplaceFile, DeleteCompanyDocument,
      DeleteEmployeeDocument, LoadForDelete, DeleteCompanyDocumentRecord, DeleteEmployeeDocumentRecord, DropRow,
      CreateCompanyDocument, ChooseKey, InsertMetadata, InsertCompanyFile, SaveOnboarding, ListTaskList,
      ListSigned, RowForEmployee, PointSigned, OneFails, Saved, DocFail
  <2>2. CASE ReplaceFile(c) \/ ChooseKey(c)
    BY <2>1, <2>2 DEF ReplaceFile, ChooseKey, IsStored, Object
  <2>3. CASE ~ (ReplaceFile(c) \/ ChooseKey(c))
    <3>1. UNCHANGED uploads
      BY <1>8, <2>3, Zenon DEF DocCallStep, Deliver, HeadObject, CreateEsignatureMetadata, InsertUploaded, LoadCurrent,
        UpdatePointer, Request, ReadForEdit, WriteBack, ReadForReplace, DeleteCompanyDocument,
        DeleteEmployeeDocument, LoadForDelete, DeleteCompanyDocumentRecord, DeleteEmployeeDocumentRecord, DropRow,
        CreateCompanyDocument, InsertMetadata, InsertCompanyFile, SaveOnboarding, ListTaskList,
        ListSigned, RowForEmployee, PointSigned, OneFails, Saved, DocFail, unawaited
    <3> QED BY <2>1, <3>1 DEF IsStored, Object
  <2> QED BY <2>2, <2>3
<1> QED BY <1>1, <1>2, <1>3, <1>4, <1>5, <1>6, <1>7, <1>8 DEF DocNext

LEMMA TakenByRemoval ==
  ASSUME DocTypes, NEW k, \/ k \in removals
                          \/ \E c \in Calls : DeleteSigned(c) /\ k = call[c].ptr
  PROVE  Taken(k)
<1>1. CASE k \in removals
  BY <1>1 DEF Taken
<1>2. ASSUME NEW c \in Calls, DeleteSigned(c), k = call[c].ptr PROVE Taken(k)
  <2>1. "pointSigned" \in call[c].left /\ call[c].op = "onboarding"
    BY <1>2, DocLocalType DEF DeleteSigned, Ready, DocCallType, Planned
  <2>2. Holder(k, SignedRow)
    BY <1>2, <2>1 DEF Holder, Holds
  <2> QED BY <2>2, RowsAssumption DEF Taken, SignedRow
<1> QED BY <1>1, <1>2

LEMMA ExcusedStays ==
  ASSUME happened \subseteq happened', NEW k, Excused(k)
  PROVE  Excused(k)'
BY DEF Excused, Had

\* What is brought was brought, or is on its way.
BringsFrom(c) ==
  \A k \in FileKeys : BringsNow(c, k)' => BringsNow(c, k) \/ IsStored(k)' \/ k \in uploads'

LEMMA OverBrings ==
  ASSUME NEW c \in Calls, DocOver(c)
  PROVE  BringsFrom(c)
BY OverKeeps DEF BringsFrom, BringsNow

LEMMA NoneBrings ==
  ASSUME NEW c \in Calls,
         \/ call'[c].op \notin {"create", "replace"} \/ call'[c].pc = "read"
         \/ call'[c].op = "replace" /\ call'[c].pc = "upload",
         call'[c].op = "save" => call'[c].pc = "head"
  PROVE  BringsFrom(c)
BY DEF BringsFrom, BringsNow, Brings

LEMMA PlaceBrings ==
  ASSUME NEW c \in Calls, UNCHANGED url, NEW pc, DocPlace(c, pc),
         call[c].op \in {"save", "create", "deleteCompany", "deleteEmployee"},
         call[c].op = "save" => call[c].pc # "head", call[c].op = "create" => call[c].pc # "read"
  PROVE  BringsFrom(c)
BY DEF BringsFrom, BringsNow, Brings, DocPlace, Now, IsUrl

LEMMA UploadedBrings ==
  ASSUME DocTypes, NEW c \in Calls,
         Deliver(c) \/ HeadObject(c) \/ CreateEsignatureMetadata(c) \/ InsertUploaded(c)
         \/ LoadCurrent(c) \/ UpdatePointer(c)
  PROVE  BringsFrom(c)
<1>0. UNCHANGED url
  BY CallLater DEF browser, DocCallStep
<1>1. CASE Deliver(c)
  BY <1>1, DeliverDoes, NoneBrings DEF Starts, Now
<1>2. CASE HeadObject(c)
  <2>1. ASSUME NEW o \in Object(call[c].key), NEW pc, NEW row, NEW by,
               Now(c, "save", pc, call[c].key, row, call[c].ptr, by, {})
        PROVE  BringsFrom(c)
    <3> PICK k : k = call[c].key
      OBVIOUS
    <3>1. IsStored(k)'
      BY <1>2, <2>1 DEF HeadObject, IsStored, Object
    <3>2. \A j : BringsNow(c, j)' => j = k
      BY <2>1 DEF BringsNow, Brings, Now
    <3> QED BY <3>1, <3>2 DEF BringsFrom
  <2> QED BY <1>2, <2>1, HeadDoes, OverBrings
<1>3. CASE CreateEsignatureMetadata(c) \/ LoadCurrent(c)
  BY <1>0, <1>3, MetaDoes, LoadCurrentDoes, OverBrings, PlaceBrings DEF CreateEsignatureMetadata, LoadCurrent, At
<1>4. CASE InsertUploaded(c) \/ UpdatePointer(c)
  BY <1>4, InsertUploadedTypes, UpdatePointerTypes, OverBrings
<1> QED BY <1>1, <1>2, <1>3, <1>4

LEMMA EditedBrings ==
  ASSUME DocTypes, NEW c \in Calls,
         \/ Request(c) \/ ReadForEdit(c) \/ WriteBack(c) \/ ReadForReplace(c) \/ ReplaceFile(c)
         \/ DeleteCompanyDocument(c) \/ DeleteCompanyDocumentRecord(c)
         \/ DeleteEmployeeDocument(c) \/ DeleteEmployeeDocumentRecord(c)
  PROVE  BringsFrom(c)
<1>0. UNCHANGED url
  BY CallLater DEF browser, DocCallStep
<1>1. CASE Request(c)
  BY <1>1, RequestDoes, NoneBrings DEF Starts, Now
<1>2. CASE ReadForEdit(c)
  <2>1. ASSUME NEW r, Now(c, "edit", "write", call[c].key, call[c].row, r.ptr, call[c].by, {})
        PROVE  BringsFrom(c)
    BY <2>1, NoneBrings DEF Now
  <2> QED BY <1>2, <2>1, ReadForEditDoes, OverBrings
<1>3. CASE WriteBack(c)
  BY <1>3, WriteBackTypes, OverBrings
<1>4. CASE ReadForReplace(c)
  <2>1. ASSUME NEW r, Now(c, "replace", "upload", call[c].key, call[c].row, r.ptr, call[c].by, {})
        PROVE  BringsFrom(c)
    BY <2>1, NoneBrings DEF Now
  <2> QED BY <1>4, <2>1, ReadForReplaceDoes, OverBrings
<1>5. CASE ReplaceFile(c)
  <2> PICK k \in FileKeys : Replaced(c, k)
    BY <1>5, ReplaceFileDoes
  <2>1. Now(c, "replace", "write", call[c].key, call[c].row, k, call[c].by, {}) /\ k \in uploads'
    BY DEF Replaced
  <2>2. \A j : BringsNow(c, j)' => j = k
    BY <2>1 DEF BringsNow, Brings, Now
  <2> QED BY <2>1, <2>2 DEF BringsFrom
<1>6. CASE DeleteCompanyDocument(c) \/ DeleteEmployeeDocument(c)
  BY <1>0, <1>6, LoadForDeleteDoes, OverBrings, PlaceBrings DEF DeleteCompanyDocument, DeleteEmployeeDocument, At
<1>7. CASE DeleteCompanyDocumentRecord(c) \/ DeleteEmployeeDocumentRecord(c)
  BY <1>7, DropDoes, OverBrings DEF DeleteCompanyDocumentRecord, DeleteEmployeeDocumentRecord
<1> QED BY <1>1, <1>2, <1>3, <1>4, <1>5, <1>6, <1>7

LEMMA CreatedBrings ==
  ASSUME DocTypes, NEW c \in Calls,
         CreateCompanyDocument(c) \/ ChooseKey(c) \/ InsertMetadata(c) \/ InsertCompanyFile(c)
  PROVE  BringsFrom(c)
<1>0. UNCHANGED url
  BY CallLater DEF browser, DocCallStep
<1>1. CASE CreateCompanyDocument(c)
  BY <1>1, CreationDoes, NoneBrings DEF Starts, Now
<1>2. CASE ChooseKey(c)
  <2> PICK k : k = KeyFor(CompanyName)
    OBVIOUS
  <2>1. Now(c, "create", "meta", k, 0, call[c].ptr, call[c].by, {}) /\ k \in uploads'
    BY <1>2, ChooseKeyDoes DEF ChooseKey
  <2>2. \A j : BringsNow(c, j)' => j = k
    BY <2>1 DEF BringsNow, Brings, Now
  <2> QED BY <2>1, <2>2 DEF BringsFrom
<1>3. CASE InsertMetadata(c)
  BY <1>0, <1>3, InsertMetadataTypes, PlaceBrings DEF InsertMetadata, At
<1>4. CASE InsertCompanyFile(c)
  BY <1>4, InsertCompanyFileTypes, OverBrings
<1> QED BY <1>1, <1>2, <1>3, <1>4

LEMMA OnboardedBrings ==
  ASSUME DocTypes, NEW c \in Calls,
         \/ SaveOnboarding(c) \/ ListTaskList(c) \/ ListSigned(c) \/ RowForEmployee(c)
         \/ CopyCompany(c) \/ CopySigned(c) \/ DeleteSigned(c) \/ PointSigned(c) \/ OneFails(c)
         \/ Saved(c) \/ DocFail(c)
  PROVE  BringsFrom(c)
<1>1. ASSUME call'[c].op = "onboarding" PROVE BringsFrom(c)
  BY <1>1, NoneBrings
<1>2. CASE SaveOnboarding(c) \/ ListTaskList(c) \/ ListSigned(c) \/ RowForEmployee(c)
  <2>1. call'[c].op = "onboarding"
    <3>1. CASE SaveOnboarding(c)
      BY <3>1, SaveOnboardingDoes DEF Starts, Now
    <3>2. CASE ListTaskList(c)
      BY <3>2, ListTaskDoes DEF DocPlace, Now, ListTaskList, At
    <3>3. CASE ListSigned(c)
      BY <3>3, ListSignedDoes DEF DocPlace, Now, ListSigned, At
    <3>4. CASE RowForEmployee(c)
      BY <3>4, EmployeeRowDoes DEF Now
    <3> QED BY <1>2, <3>1, <3>2, <3>3, <3>4
  <2> QED BY <1>1, <2>1
<1>3. CASE CopyCompany(c) \/ CopySigned(c) \/ DeleteSigned(c) \/ PointSigned(c) \/ OneFails(c)
  <2>1. call[c].op = "onboarding" /\ \E steps : Finish(c, steps)
    BY <1>3 DEF CopyCompany, CopySigned, CopyStep, DeleteSigned, PointSigned, OneFails, Ready
  <2>2. call'[c].op = "onboarding"
    BY <2>1, FinishNow DEF Now
  <2> QED BY <1>1, <2>2
<1>4. CASE Saved(c) \/ DocFail(c)
  BY <1>4, SavedTypes, DocFailTypes, OverBrings
<1> QED BY <1>2, <1>3, <1>4

LEMMA CallBrings ==
  ASSUME DocTypes, NEW c \in Calls, DocCallStep(c)
  PROVE  BringsFrom(c)
<1>1. CASE \/ Deliver(c) \/ HeadObject(c) \/ CreateEsignatureMetadata(c) \/ InsertUploaded(c)
           \/ LoadCurrent(c) \/ UpdatePointer(c)
  BY <1>1, UploadedBrings
<1>2. CASE \/ Request(c) \/ ReadForEdit(c) \/ WriteBack(c) \/ ReadForReplace(c) \/ ReplaceFile(c)
           \/ DeleteCompanyDocument(c) \/ DeleteCompanyDocumentRecord(c)
           \/ DeleteEmployeeDocument(c) \/ DeleteEmployeeDocumentRecord(c)
  BY <1>2, EditedBrings
<1>3. CASE CreateCompanyDocument(c) \/ ChooseKey(c) \/ InsertMetadata(c) \/ InsertCompanyFile(c)
  BY <1>3, CreatedBrings
<1>4. CASE \/ SaveOnboarding(c) \/ ListTaskList(c) \/ ListSigned(c) \/ RowForEmployee(c)
           \/ CopyCompany(c) \/ CopySigned(c) \/ DeleteSigned(c) \/ PointSigned(c) \/ OneFails(c)
           \/ Saved(c) \/ DocFail(c)
  BY <1>4, OnboardedBrings
<1> QED BY <1>1, <1>2, <1>3, <1>4 DEF DocCallStep

\* A URL that is asked for is for none of the keys that are brought.
LEMMA BringsBesides ==
  ASSUME DocTypes, OriginInv, NEW c \in Calls, Later, UNCHANGED call, NEW k \in FileKeys, BringsNow(c, k)'
  PROVE  BringsNow(c, k)
<1> SUFFICES ASSUME ~ Brings(c, k), Brings(c, k)' PROVE FALSE
  BY DEF BringsNow
<1>1. call[c].op = "save" /\ call[c].key = k /\ ~ IsUrl(k[1]) /\ IsUrl(k[1])'
  BY DEF Brings
<1>2. Known(k)
  BY <1>1, OriginOf DEF CallOrigin, SaveOrigin
<1>3. Service(k)
  BY <1>1, <1>2 DEF Known, Intro
<1>4. Service(k)'
  BY <1>3, ServiceKept
<1> QED BY <1>1, <1>4 DEF Service

LEMMA BroughtKept ==
  ASSUME DocTypes, OriginInv, KeyInv, BroughtInv, DocNext
  PROVE  BroughtInv'
<1> SUFFICES ASSUME NEW d \in Calls, NEW k \in FileKeys, BringsNow(d, k)', ~ Excused(k)'
             PROVE  IsStored(k)' \/ k \in uploads'
  BY DEF BroughtInv
<1>1. Later
  BY CallLater, BesidesLater DEF DocNext
<1>2. ~ Excused(k) /\ <<"uploadLost", k>> \notin happened'
  BY <1>1, ExcusedStays DEF Later, Excused, Had
<1>3. BringsNow(d, k) \/ IsStored(k)' \/ k \in uploads'
  <2>1. CASE GenerateUrl \/ PutObject \/ ObjectLands \/ ObjectLost \/ RemovalLands \/ PatchCopies
    <3>1. UNCHANGED call
      BY <2>1 DEF GenerateUrl, PutObject, ObjectLands, ObjectLost, RemovalLands, PatchCopies
    <3> QED BY <1>1, <3>1, BringsBesides
  <2>2. ASSUME NEW c \in Calls, DocCallStep(c) PROVE BringsNow(d, k) \/ IsStored(k)' \/ k \in uploads'
    <3>1. BringsFrom(c) /\ DocSteps(c) /\ UNCHANGED url
      BY <2>2, CallBrings, CallSaves, CallLater DEF SavesFrom, browser
    <3>2. CASE d = c
      BY <3>1, <3>2 DEF BringsFrom
    <3>3. CASE d # c
      BY <3>1, <3>3, OthersKeep DEF BringsNow, DocSteps
    <3> QED BY <3>2, <3>3
  <2> QED BY <2>1, <2>2 DEF DocNext
<1>4. CASE BringsNow(d, k)
  <2>1. IsStored(k) \/ k \in uploads
    BY <1>2, <1>4 DEF BroughtInv
  <2>2. ~ Taken(k)
    BY <1>2, <1>4 DEF KeyInv, KeyOk, BringsNow, Excused, Repeated
  <2> QED BY <1>2, <2>1, <2>2, ObjectsLast, TakenByRemoval
<1> QED BY <1>3, <1>4
-----------------------------------------------------------------------------
(* The signed copy.                                                        *)

\* A call that has started the deletion of an object of row x takes its last step.
LEMMA RemovingSteps ==
  ASSUME DocTypes, NEW c \in Calls, DocCallStep(c), NEW x, Removing(c, x)
  PROVE  \/ UpdatePointer(c) /\ call[c].op = "save"
         \/ WriteBack(c) /\ call[c].op = "replace"
         \/ rows' = rows \ Row(x)
         \/ DocFail(c)
<1>0. /\ call[c].op \in {"save", "replace", "deleteCompany", "deleteEmployee"}
      /\ call[c].pc \in {"point", "write", "drop"}
      /\ call[c].op = "save" => call[c].pc = "point"
      /\ call[c].op = "replace" => call[c].pc = "write"
      /\ call[c].op \in {"deleteCompany", "deleteEmployee"} => call[c].pc = "drop"
  BY DEF Removing
<1>1. ~ (Deliver(c) \/ HeadObject(c) \/ CreateEsignatureMetadata(c) \/ InsertUploaded(c) \/ LoadCurrent(c))
  BY <1>0 DEF Deliver, DocStart, First, HeadObject, At, CreateEsignatureMetadata, InsertUploaded, LoadCurrent
<1>2. ~ (Request(c) \/ CreateCompanyDocument(c) \/ SaveOnboarding(c))
  BY <1>0 DEF Request, StartOn, CreateCompanyDocument, SaveOnboarding, DocStart, First
<1>3. ~ (ReadForEdit(c) \/ ReadForReplace(c) \/ ReplaceFile(c) \/ DeleteCompanyDocument(c) \/ DeleteEmployeeDocument(c))
  BY <1>0 DEF ReadForEdit, ReadForReplace, ReplaceFile, DeleteCompanyDocument, DeleteEmployeeDocument, At
<1>4. ~ (ChooseKey(c) \/ InsertMetadata(c) \/ InsertCompanyFile(c) \/ ListTaskList(c) \/ ListSigned(c))
  BY <1>0 DEF ChooseKey, InsertMetadata, InsertCompanyFile, ListTaskList, ListSigned, At
<1>5. ~ (RowForEmployee(c) \/ CopyCompany(c) \/ CopySigned(c) \/ DeleteSigned(c) \/ PointSigned(c)
         \/ OneFails(c) \/ Saved(c))
  BY <1>0 DEF RowForEmployee, CopyCompany, CopySigned, CopyStep, DeleteSigned, PointSigned, OneFails, Saved, At, Ready
<1>6. \/ UpdatePointer(c) \/ WriteBack(c) \/ DeleteCompanyDocumentRecord(c)
      \/ DeleteEmployeeDocumentRecord(c) \/ DocFail(c)
  BY <1>1, <1>2, <1>3, <1>4, <1>5 DEF DocCallStep
<1>7. UpdatePointer(c) => call[c].op = "save"
  BY DEF UpdatePointer, At
<1>8. WriteBack(c) => call[c].op = "replace"
  BY <1>0 DEF WriteBack
<1>9. DeleteCompanyDocumentRecord(c) \/ DeleteEmployeeDocumentRecord(c) => rows' = rows \ Row(x)
  BY DEF DeleteCompanyDocumentRecord, DeleteEmployeeDocumentRecord, DropRow, Removing
<1> QED BY <1>6, <1>7, <1>8, <1>9

\* The deletion of an object is started by a call that read its row, and will write it.
LEMMA CallRemoves ==
  ASSUME DocTypes, NEW c \in Calls, DocCallStep(c)
  PROVE  \A k \in removals' \ removals :
           \E x \in 1 .. MaxRows : call[c].row = x /\ Holder(k, x) /\ Removing(c, x)'
<1>1. ASSUME NEW pc, DocPlace(c, pc), NEW r \in Row(call[c].row), removals' = removals \cup {r.ptr},
             \/ call[c].op = "save" /\ pc = "point"
             \/ call[c].op \in {"deleteCompany", "deleteEmployee"} /\ pc = "drop"
      PROVE  \A k \in removals' \ removals :
               \E x \in 1 .. MaxRows : call[c].row = x /\ Holder(k, x) /\ Removing(c, x)'
  <2> PICK x : x = call[c].row
    OBVIOUS
  <2>1. r \in rows /\ r.id = x /\ x \in 1 .. MaxRows
    BY <1>1, RowsOnce DEF Row
  <2>2. Holder(r.ptr, x)
    BY <2>1 DEF Holder
  <2>3. Removing(c, x)'
    BY <1>1 DEF Removing, DocPlace, Now
  <2> QED BY <1>1, <2>1, <2>2, <2>3
<1>2. CASE LoadCurrent(c)
  BY <1>1, <1>2, LoadCurrentDoes DEF LoadCurrent, At
<1>3. CASE DeleteCompanyDocument(c) \/ DeleteEmployeeDocument(c)
  BY <1>1, <1>3, LoadForDeleteDoes DEF DeleteCompanyDocument, DeleteEmployeeDocument, At
<1>4. CASE ReplaceFile(c)
  <2> PICK x, k : x = call[c].row /\ k = call[c].ptr
    OBVIOUS
  <2>1. removals' = removals \cup {k}
    BY <1>4 DEF ReplaceFile
  <2>2. x \in 1 .. MaxRows
    BY <1>4, RowsOnce, DocLocalType DEF ReplaceFile, At, DocCallType
  <2>3. Holder(k, x)
    BY <1>4 DEF Holder, Holds, ReplaceFile, At
  <2>4. Removing(c, x)'
    BY <1>4, ReplaceFileDoes DEF Removing, Replaced, Now
  <2> QED BY <2>1, <2>2, <2>3, <2>4
<1>5. CASE ~ (LoadCurrent(c) \/ DeleteCompanyDocument(c) \/ DeleteEmployeeDocument(c) \/ ReplaceFile(c))
  <2>1. UNCHANGED removals
    BY <1>5, Zenon DEF DocCallStep, Deliver, HeadObject, CreateEsignatureMetadata, InsertUploaded,
      UpdatePointer, Request, ReadForEdit, WriteBack, ReadForReplace, DeleteCompanyDocumentRecord,
      DeleteEmployeeDocumentRecord, DropRow,
      CreateCompanyDocument, ChooseKey, InsertMetadata, InsertCompanyFile, SaveOnboarding, ListTaskList,
      ListSigned, RowForEmployee, CopyCompany, CopySigned, CopyStep, DeleteSigned, PointSigned,
      OneFails, Saved, DocFail, unawaited
  <2> QED BY <2>1
<1> QED BY <1>2, <1>3, <1>4, <1>5

\* A pointer that a call writes.
LEMMA CallPoints ==
  ASSUME DocTypes, ReadInv, NEW c \in Calls, DocCallStep(c), NEW r \in rows', r.id <= ids
  PROVE  \/ \E s \in rows : s.id = r.id /\ s.ptr = r.ptr
         \/ UpdatePointer(c) /\ call[c].row = r.id /\ call[c].key = r.ptr
         \/ WriteBack(c) /\ call[c].op = "replace" /\ call[c].row = r.id /\ call[c].ptr = r.ptr
         \/ Had("beside", r.id)
         \/ /\ PointSigned(c) /\ r.id = SignedRow /\ r.ptr = MovedTo(call[c].ptr)
            /\ \E s \in Row(SignedRow) : s.ptr = call[c].ptr
<1>1. CASE UpdatePointer(c)
  BY <1>1, UpdatePointerTypes DEF Pointed
<1>2. CASE WriteBack(c)
  <2>1. PICK s \in rows : s.id = r.id /\ r.ptr = IF r.id = call[c].row THEN call[c].ptr ELSE s.ptr
    BY <1>2, WriteBackTypes DEF Pointed
  <2>2. CASE r.id = call[c].row /\ call[c].op = "edit"
    <3>1. Had("beside", call[c].row) \/ \A t \in Row(call[c].row) : t.ptr = call[c].ptr
      BY <1>2, <2>2 DEF ReadInv, ReadOk, WriteBack
    <3> QED BY <2>1, <2>2, <3>1 DEF Row
  <2> QED BY <1>2, <2>1, <2>2 DEF WriteBack
<1>3. CASE PointSigned(c)
  <2>1. PICK s \in rows : s.id = r.id /\ r.ptr = IF r.id = SignedRow THEN MovedTo(call[c].ptr) ELSE s.ptr
    BY <1>3, PointSignedTypes DEF Pointed
  <2>2. CASE r.id = SignedRow
    <3>1. Had("beside", SignedRow) \/ \A t \in Row(SignedRow) : t.ptr = call[c].ptr
      BY <1>3 DEF ReadInv, ReadOk, PointSigned, Ready
    <3> QED BY <1>3, <2>1, <2>2, <3>1 DEF Row
  <2> QED BY <2>1, <2>2
<1>4. CASE InsertUploaded(c) \/ InsertCompanyFile(c) \/ RowForEmployee(c)
  <2>1. \E owner, k, by : Insert(owner, k, by)
    BY <1>4 DEF InsertUploaded, InsertCompanyFile, RowForEmployee
  <2>2. \E n : rows' = rows \cup {n} /\ n.id = ids + 1
    BY <2>1, InsertRow
  <2> QED BY <2>2, RowsOnce
<1>5. CASE DeleteCompanyDocumentRecord(c) \/ DeleteEmployeeDocumentRecord(c)
  BY <1>5 DEF DropRow, DeleteCompanyDocumentRecord, DeleteEmployeeDocumentRecord
<1>6. CASE ~ \/ InsertUploaded(c) \/ InsertCompanyFile(c) \/ RowForEmployee(c) \/ UpdatePointer(c)
             \/ WriteBack(c) \/ PointSigned(c) \/ DeleteCompanyDocumentRecord(c)
             \/ DeleteEmployeeDocumentRecord(c)
  <2>1. UNCHANGED fileRows
    BY <1>6, Zenon DEF DocCallStep, Deliver, HeadObject, CreateEsignatureMetadata, LoadCurrent,
      Request, ReadForEdit, ReadForReplace, ReplaceFile, DeleteCompanyDocument,
      DeleteEmployeeDocument, LoadForDelete, CreateCompanyDocument, ChooseKey, InsertMetadata,
      SaveOnboarding, ListTaskList, ListSigned, CopyStep, CopyCompany, CopySigned, DeleteSigned,
      OneFails, Saved, DocFail
  <2> QED BY <2>1 DEF fileRows
<1> QED BY <1>1, <1>2, <1>3, <1>4, <1>5, <1>6

LEMMA OnboardsNot ==
  ASSUME DocTypes, NEW c \in Calls,
         \/ Deliver(c) \/ HeadObject(c) \/ CreateEsignatureMetadata(c) \/ InsertUploaded(c)
         \/ LoadCurrent(c) \/ UpdatePointer(c)
         \/ Request(c) \/ ReadForEdit(c) \/ WriteBack(c) \/ ReadForReplace(c) \/ ReplaceFile(c)
         \/ DeleteCompanyDocument(c) \/ DeleteCompanyDocumentRecord(c)
         \/ DeleteEmployeeDocument(c) \/ DeleteEmployeeDocumentRecord(c)
         \/ CreateCompanyDocument(c) \/ ChooseKey(c) \/ InsertMetadata(c) \/ InsertCompanyFile(c)
         \/ Saved(c) \/ DocFail(c)
  PROVE  call'[c].left = {}
<1>1. CASE Deliver(c)
  BY <1>1, DeliverDoes DEF Starts, Now
<1>2. CASE HeadObject(c)
  BY <1>2, HeadDoes DEF DocOver, Now
<1>3. ASSUME NEW pc, DocPlace(c, pc), call[c].op # "onboarding" PROVE call'[c].left = {}
  BY <1>3, DocLocalType DEF DocPlace, Now
<1>4. DocOver(c) => call'[c].left = {}
  BY DEF DocOver, Now
<1>5. CASE CreateEsignatureMetadata(c) \/ LoadCurrent(c)
  BY <1>3, <1>4, <1>5, MetaDoes, LoadCurrentDoes DEF CreateEsignatureMetadata, LoadCurrent, At
<1>6. CASE DeleteCompanyDocument(c) \/ DeleteEmployeeDocument(c)
  BY <1>3, <1>4, <1>6, LoadForDeleteDoes DEF DeleteCompanyDocument, DeleteEmployeeDocument, At
<1>7. CASE InsertMetadata(c)
  BY <1>3, <1>7, InsertMetadataTypes DEF InsertMetadata, At
<1>8. CASE InsertUploaded(c) \/ UpdatePointer(c) \/ WriteBack(c) \/ InsertCompanyFile(c) \/ Saved(c) \/ DocFail(c)
  BY <1>4, <1>8, InsertUploadedTypes, UpdatePointerTypes, WriteBackTypes, InsertCompanyFileTypes, SavedTypes,
     DocFailTypes
<1>9. CASE DeleteCompanyDocumentRecord(c) \/ DeleteEmployeeDocumentRecord(c)
  BY <1>4, <1>9, DropDoes DEF DeleteCompanyDocumentRecord, DeleteEmployeeDocumentRecord
<1>10. CASE Request(c) \/ CreateCompanyDocument(c)
  BY <1>10, RequestDoes, CreationDoes DEF Starts, Now
<1>11. CASE ReadForEdit(c) \/ ReadForReplace(c) \/ ReplaceFile(c) \/ ChooseKey(c)
  BY <1>4, <1>11, ReadForEditDoes, ReadForReplaceDoes, ReplaceFileDoes, ChooseKeyDoes DEF Replaced, Now
<1> QED BY <1>1, <1>2, <1>5, <1>6, <1>7, <1>8, <1>9, <1>10, <1>11

\* The row of a signed copy that is named so was that before.
LEMMA SignedNameKept ==
  ASSUME DocTypes, OriginInv, ReadInv, ~ Had("beside", SignedRow), NEW c \in Calls, DocCallStep(c),
         NEW r \in Row(SignedRow)', r.ptr[1] = 3
  PROVE  /\ \E s \in Row(SignedRow) : s.ptr[1] = 3
         /\ ~ (UpdatePointer(c) /\ call[c].row = SignedRow)
<1>1. r \in rows' /\ r.id = SignedRow /\ r.id <= ids
  BY RowsOnce DEF Row, SignedRow
<1>2. ASSUME UpdatePointer(c) PROVE call[c].key[1] # 3 \/ call[c].row # SignedRow
  <2>1. SaveOrigin(call[c]) /\ call[c].pc = "point" /\ call[c].op = "save"
    BY <1>2, OriginOf DEF CallOrigin, UpdatePointer, At
  <2>2. CASE call[c].row = SignedRow
    <3>1. Origin(call[c].key, "employee", call[c].row, call[c].by)
      BY <2>1 DEF SaveOrigin, SaveOwner
    <3>2. IsUrl(call[c].key[1])
      BY <2>2, <3>1 DEF Origin, Intro, SignedRow
    <3> QED BY <3>2, UrlNames
  <2> QED BY <2>2
<1>3. call[c].op = "replace" => call[c].row # SignedRow
  BY DocLocalType DEF DocCallType
<1>4. CASE \E s \in rows : s.id = r.id /\ s.ptr = r.ptr
  <2>1. ASSUME UpdatePointer(c), call[c].row = SignedRow PROVE FALSE
    <3>1. r.ptr = call[c].key
      BY <1>1, <2>1, UpdatePointerTypes DEF Pointed
    <3> QED BY <1>2, <2>1, <3>1
  <2> QED BY <1>1, <1>4, <2>1 DEF Row
<1>5. CASE PointSigned(c) /\ r.ptr = MovedTo(call[c].ptr) /\ \E s \in Row(SignedRow) : s.ptr = call[c].ptr
  <2>1. MovedTo(call[c].ptr)[1] = call[c].ptr[1]
    BY DocLocalType, SameNames DEF DocLocals
  <2>2. ~ UpdatePointer(c)
    BY <1>5 DEF UpdatePointer, At, PointSigned, Ready
  <2> QED BY <1>5, <2>1, <2>2
<1>6. CASE UpdatePointer(c) /\ call[c].row = r.id /\ call[c].key = r.ptr
  BY <1>1, <1>2, <1>6
<1> QED BY <1>1, <1>3, <1>4, <1>5, <1>6, CallPoints

LEMMA GoneKept ==
  ASSUME DocTypes, OriginInv, ReadInv, ~ Had("beside", SignedRow), ~ Had("failed", SignedRow)',
         SignedGone, NEW c \in Calls, DocCallStep(c)
  PROVE  SignedGone'
<1> SUFFICES ASSUME NEW r \in Row(SignedRow)', NEW k \in removals', r.ptr[1] = 3, k[1] = 3
             PROVE  \E d \in Calls : Removing(d, SignedRow)'
  BY DEF SignedGone
<1>1. CASE k \notin removals
  <2>1. PICK x \in 1 .. MaxRows : call[c].row = x /\ Holder(k, x) /\ Removing(c, x)'
    BY <1>1, CallRemoves
  <2>2. x = SignedRow
    BY <2>1, HolderKnows DEF Pointer
  <2> QED BY <2>1, <2>2
<1>2. CASE k \in removals
  <2>1. /\ \E s \in Row(SignedRow) : s.ptr[1] = 3
        /\ ~ (UpdatePointer(c) /\ call[c].row = SignedRow)
    BY SignedNameKept
  <2>2. PICK d \in Calls : Removing(d, SignedRow)
    BY <1>2, <2>1 DEF SignedGone
  <2>3. CASE d # c
    <3>1. DocSteps(c)
      BY CallSaves DEF SavesFrom
    <3>2. Removing(d, SignedRow)'
      BY <2>2, <2>3, <3>1 DEF Removing, DocSteps
    <3> QED BY <3>2
  <2>4. CASE d = c
    <3>1. call[c].row = SignedRow
      BY <2>2, <2>4 DEF Removing
    <3>2. ~ (WriteBack(c) /\ call[c].op = "replace")
      BY <3>1, DocLocalType DEF DocCallType
    <3>3. ~ DocFail(c)
      BY <3>1 DEF DocFail, Had
    <3>4. rows' # rows \ Row(SignedRow)
      BY DEF Row
    <3> QED BY <2>1, <2>2, <2>4, <3>1, <3>2, <3>3, <3>4, RemovingSteps
  <2> QED BY <2>3, <2>4
<1> QED BY <1>1, <1>2

\* An onboarding that has copied the signed document had, or does so now.
LEMMA MovedFrom ==
  ASSUME DocTypes, NEW c \in Calls, DocCallStep(c), Moved(call[c])'
  PROVE  /\ call[c].op = "onboarding" /\ call'[c].ptr = call[c].ptr
         /\ "pointSigned" \in call[c].left
         /\ "copySigned" \in call[c].left => \A k : k = MovedTo(call[c].ptr) => IsStored(k)'
<1>0. call'[c].op = "onboarding" /\ "pointSigned" \in call'[c].left /\ "copySigned" \notin call'[c].left
  BY DEF Moved
<1>1. ASSUME NEW steps, Finish(c, steps), call[c].op = "onboarding"
      PROVE  /\ call'[c].ptr = call[c].ptr /\ "pointSigned" \in call[c].left
             /\ "pointSigned" \notin steps
             /\ "copySigned" \in call[c].left => "copySigned" \in steps
  BY <1>0, <1>1, FinishNow DEF Now
<1>2. CASE CopySigned(c)
  <2>1. Ready(c, "copySigned") /\ call[c].op = "onboarding" /\ "copySigned" \in call[c].left
    BY <1>2 DEF CopySigned, CopyStep, Ready
  <2>2. "pointSigned" \in After("copySigned")
    BY DEF After, Before, SignedSteps
  <2>3. \E o : CopyTo(MovedTo(call[c].ptr), o) /\ Finish(c, {"copySigned"})
    BY <1>1, <1>2, <2>1, <2>2 DEF CopySigned, CopyStep
  <2> PICK k : k = MovedTo(call[c].ptr)
    OBVIOUS
  <2>4. IsStored(k)'
    BY <2>3, PutStores DEF CopyTo
  <2> QED BY <1>1, <2>1, <2>3, <2>4
<1>3. CASE CopyCompany(c) \/ DeleteSigned(c)
  <2>1. PICK step \in {"copyCompany", "deleteSigned"} :
          Ready(c, step) /\ (Finish(c, {step}) \/ Finish(c, {step} \cup After(step)))
    BY <1>3 DEF CopyCompany, CopyStep, DeleteSigned
  <2>2. "copySigned" \notin After(step) /\ step # "copySigned" /\ call[c].op = "onboarding"
    BY <2>1, ReadySteps, StepsOfOnboarding DEF Ready
  <2> QED BY <1>1, <2>1, <2>2
<1>4. CASE PointSigned(c)
  BY <1>0, <1>1, <1>4 DEF PointSigned, Ready
<1>5. CASE OneFails(c)
  <2>1. PICK step \in call[c].left : Ready(c, step) /\ Finish(c, {step} \cup After(step))
    BY <1>5 DEF OneFails
  <2>2. step \in CompanySteps \cup SignedSteps /\ call[c].op = "onboarding"
    BY <2>1, DocLocalType DEF DocLocals, Ready
  <2>3. step = "copySigned" => "pointSigned" \in After(step)
    BY DEF After, Before, SignedSteps
  <2>4. "copySigned" \notin After(step)
    BY <2>1, <2>2, ReadySteps
  <2> QED BY <1>1, <2>1, <2>2, <2>3, <2>4
<1>6. CASE RowForEmployee(c)
  BY <1>0, <1>6, EmployeeRowDoes DEF Now, RowForEmployee, Ready
<1>7. CASE ListTaskList(c)
  <2>1. CASE DocPlace(c, "list") /\ call[c].left = {}
    BY <1>0, <2>1 DEF DocPlace, Now
  <2>2. ASSUME NEW k, Now(c, "onboarding", "list", k, 0, call[c].ptr, call[c].by, CompanySteps)
        PROVE  FALSE
    BY <1>0, <2>2, StepsOfOnboarding DEF Now
  <2> QED BY <1>7, <2>1, <2>2, ListTaskDoes
<1>8. CASE ListSigned(c)
  <2>1. CASE DocPlace(c, "run")
    BY <1>0, <1>8, <2>1 DEF DocPlace, Now
  <2>2. ASSUME NEW k, Now(c, "onboarding", "run", call[c].key, call[c].row, k, call[c].by,
                          call[c].left \cup SignedSteps)
        PROVE  FALSE
    BY <1>0, <2>2, StepsOfOnboarding DEF Now
  <2> QED BY <1>8, <2>1, <2>2, ListSignedDoes
<1>9. CASE SaveOnboarding(c)
  BY <1>0, <1>9, SaveOnboardingDoes DEF Starts, Now
<1>10. CASE \/ Deliver(c) \/ HeadObject(c) \/ CreateEsignatureMetadata(c) \/ InsertUploaded(c)
            \/ LoadCurrent(c) \/ UpdatePointer(c)
            \/ Request(c) \/ ReadForEdit(c) \/ WriteBack(c) \/ ReadForReplace(c) \/ ReplaceFile(c)
            \/ DeleteCompanyDocument(c) \/ DeleteCompanyDocumentRecord(c)
            \/ DeleteEmployeeDocument(c) \/ DeleteEmployeeDocumentRecord(c)
            \/ CreateCompanyDocument(c) \/ ChooseKey(c) \/ InsertMetadata(c) \/ InsertCompanyFile(c)
            \/ Saved(c) \/ DocFail(c)
  <2>1. call'[c].op # "onboarding" \/ call'[c].left = {}
    BY <1>10, OnboardsNot
  <2> QED BY <1>0, <2>1
<1> QED BY <1>2, <1>3, <1>4, <1>5, <1>6, <1>7, <1>8, <1>9, <1>10 DEF DocCallStep

\* The copy of a signed document is not deleted while an onboarding is to point to it.
LEMMA MovedStays ==
  ASSUME DocTypes, OriginInv, ReadInv, BesideInv, SignedGone, ~ Had("beside", SignedRow),
         NEW d \in Calls, Moved(call[d]), Row(SignedRow) # {}, NEW k, k = MovedTo(call[d].ptr),
         ~ Excused(k)
  PROVE  k \notin removals
<1> SUFFICES ASSUME k \in removals PROVE FALSE
  OBVIOUS
<1>1. PICK r \in Row(SignedRow) : r.ptr = call[d].ptr
  BY DEF ReadInv, ReadOk, Moved
<1>2. CallOrigin(call[d]) /\ call[d].ptr \in FileKeys
  BY OriginOf, DocLocalType DEF DocLocals
<1>3. call[d].ptr[1] = 3 \/ Intro(call[d].ptr)
  BY <1>2 DEF CallOrigin, Moved, Pointer
<1>4. call[d].ptr[1] = 3
  BY <1>2, <1>3 DEF CallOrigin, Moved, Excused
<1>5. k[1] = 3
  BY <1>2, <1>4, SameNames
<1>6. PICK e \in Calls : Removing(e, SignedRow)
  BY <1>1, <1>4, <1>5 DEF SignedGone
<1>7. e # d /\ Touches(e, SignedRow)
  BY <1>6, DocOperates DEF Removing, Moved, Touches, Active
<1>8. Touches(d, SignedRow) /\ SignedRow \in 1 .. MaxRows
  BY RowsAssumption DEF Moved, Touches, SignedRow
<1> QED BY <1>7, <1>8 DEF BesideInv

LEMMA MovedKept ==
  ASSUME DocTypes, OriginInv, OriginInv', ReadInv, BesideInv, SignedGone, SignedMoved,
         ~ Had("beside", SignedRow), DocNext
  PROVE  SignedMoved'
<1> SUFFICES ASSUME Row(SignedRow)' # {}, NEW d \in Calls, Moved(call[d])', ~ Excused(MovedTo(call[d].ptr))'
             PROVE  IsStored(MovedTo(call[d].ptr))'
  BY DEF SignedMoved
<1> PICK k : k = MovedTo(call'[d].ptr)
  OBVIOUS
<1>1. Row(SignedRow) # {}
  <2>1. PICK r \in rows' : r.id = SignedRow
    BY DEF Row
  <2>2. CASE GenerateUrl \/ PutObject \/ ObjectLands \/ ObjectLost \/ RemovalLands \/ PatchCopies
    <3>1. UNCHANGED rows
      BY <2>2 DEF GenerateUrl, PutObject, ObjectLands, ObjectLost, RemovalLands, PatchCopies, fileRows
    <3> QED BY <2>1, <3>1 DEF Row
  <2>3. ASSUME NEW c \in Calls, DocCallStep(c) PROVE \E s \in rows : s.id = SignedRow
    <3>1. r.id <= ids
      BY <2>1, RowsOnce DEF SignedRow
    <3>2. \/ \E s \in rows : s.id = r.id
          \/ UpdatePointer(c) /\ call[c].row = r.id
          \/ WriteBack(c) /\ call[c].row = r.id
          \/ \E s \in Row(SignedRow) : TRUE
      BY <2>1, <2>3, <3>1, CallPoints
    <3>3. UpdatePointer(c) \/ WriteBack(c) => \E s \in rows : s.id = r.id
      BY <2>1, UpdatePointerTypes, WriteBackTypes DEF Pointed
    <3> QED BY <2>1, <3>2, <3>3 DEF Row
  <2> QED BY <2>2, <2>3 DEF DocNext, Row
<1>2. Later
  BY CallLater, BesidesLater DEF DocNext
<1>3. ~ Excused(k)' /\ ~ Excused(k) /\ <<"uploadLost", k>> \notin happened'
  BY <1>2, ExcusedStays DEF Later, Excused, Had
<1>4. \/ IsStored(k)'
      \/ Moved(call[d]) /\ k = MovedTo(call[d].ptr)
  <2>1. CASE GenerateUrl \/ PutObject \/ ObjectLands \/ ObjectLost \/ RemovalLands \/ PatchCopies
    <3>1. UNCHANGED call
      BY <2>1 DEF GenerateUrl, PutObject, ObjectLands, ObjectLost, RemovalLands, PatchCopies
    <3> QED BY <3>1 DEF Moved
  <2>2. ASSUME NEW c \in Calls, DocCallStep(c)
        PROVE  IsStored(k)' \/ (Moved(call[d]) /\ k = MovedTo(call[d].ptr))
    <3>1. CASE d # c
      <4>1. call'[d] = call[d]
        BY <2>2, <3>1, CallSaves DEF SavesFrom, DocSteps
      <4> QED BY <4>1 DEF Moved
    <3>2. CASE d = c
      BY <2>2, <3>2, MovedFrom DEF Moved
    <3> QED BY <3>1, <3>2
  <2> QED BY <2>1, <2>2 DEF DocNext
<1>5. CASE Moved(call[d]) /\ k = MovedTo(call[d].ptr)
  <2>1. IsStored(k)
    BY <1>1, <1>3, <1>5 DEF SignedMoved
  <2>2. k \notin removals
    BY <1>1, <1>3, <1>5, MovedStays
  <2>3. call[d].ptr \in FileKeys /\ call[d].ptr # k /\ k[2] # 0
    BY <1>5, DocLocalType, SameNames DEF DocLocals
  <2>4. k \notin uploads'
    BY <2>3 DEF OriginInv, Plain
  <2>5. ASSUME NEW c \in Calls, DeleteSigned(c), k = call[c].ptr PROVE FALSE
    <3>1. c # d /\ call[c].op = "onboarding"
      BY <2>3, <2>5 DEF DeleteSigned, Ready
    <3>2. Touches(c, SignedRow) /\ Touches(d, SignedRow) /\ SignedRow \in 1 .. MaxRows
      BY <1>5, <3>1, RowsAssumption DEF Touches, Moved, SignedRow
    <3> QED BY <3>1, <3>2 DEF BesideInv
  <2> QED BY <1>3, <2>1, <2>2, <2>4, <2>5, ObjectsLast
<1> QED BY <1>4, <1>5

LEMMA SignedKept ==
  ASSUME DocTypes, OriginInv, OriginInv', ReadInv, BesideInv, SignedInv, DocNext
  PROVE  SignedInv'
<1> SUFFICES ASSUME ~ Had("beside", SignedRow)', ~ Had("failed", SignedRow)'
             PROVE  SignedGone' /\ SignedMoved'
  BY DEF SignedInv
<1>1. ~ Had("beside", SignedRow) /\ ~ Had("failed", SignedRow)
  <2>1. happened \subseteq happened'
    BY CallLater, BesidesLater DEF DocNext, Later
  <2> QED BY <2>1 DEF Had
<1>2. SignedGone /\ SignedMoved
  BY <1>1 DEF SignedInv
<1>3. CASE GenerateUrl \/ PutObject \/ ObjectLands \/ ObjectLost \/ RemovalLands \/ PatchCopies
  <2>1. UNCHANGED <<call, rows>> /\ removals' \subseteq removals
    BY <1>3 DEF GenerateUrl, PutObject, ObjectLands, ObjectLost, RemovalLands, PatchCopies, fileRows, unawaited
  <2> QED BY <1>1, <1>2, <2>1, MovedKept DEF SignedGone, Removing, Row
<1>4. ASSUME NEW c \in Calls, DocCallStep(c) PROVE SignedGone'
  BY <1>1, <1>2, <1>4, GoneKept
<1> QED BY <1>1, <1>2, <1>3, <1>4, MovedKept DEF DocNext
-----------------------------------------------------------------------------
(* A row points to an object.                                              *)

LEMMA OnboardSteps ==
  ASSUME DocTypes, NEW c \in Calls, DocCallStep(c), call[c].op = "onboarding"
  PROVE  \/ ListTaskList(c) \/ ListSigned(c) \/ RowForEmployee(c) \/ CopyCompany(c) \/ CopySigned(c)
         \/ DeleteSigned(c) \/ PointSigned(c) \/ OneFails(c) \/ Saved(c) \/ DocFail(c)
<1>1. ~ (Deliver(c) \/ Request(c) \/ CreateCompanyDocument(c) \/ SaveOnboarding(c))
  <2>1. call[c].pc # "idle"
    BY DocLocalType, DocOperates
  <2> QED BY <2>1 DEF Deliver, Request, StartOn, CreateCompanyDocument, SaveOnboarding, DocStart, First
<1>2. ~ (HeadObject(c) \/ CreateEsignatureMetadata(c) \/ InsertUploaded(c) \/ LoadCurrent(c) \/ UpdatePointer(c))
  BY DEF HeadObject, CreateEsignatureMetadata, InsertUploaded, LoadCurrent, UpdatePointer, At
<1>3. ~ (ReadForEdit(c) \/ WriteBack(c) \/ ReadForReplace(c) \/ ReplaceFile(c))
  BY DEF ReadForEdit, WriteBack, ReadForReplace, ReplaceFile, At
<1>4. ~ \/ DeleteCompanyDocument(c) \/ DeleteCompanyDocumentRecord(c)
        \/ DeleteEmployeeDocument(c) \/ DeleteEmployeeDocumentRecord(c)
  BY DEF DeleteCompanyDocument, DeleteEmployeeDocument, DeleteCompanyDocumentRecord,
         DeleteEmployeeDocumentRecord, DropRow, At
<1>5. ~ (ChooseKey(c) \/ InsertMetadata(c) \/ InsertCompanyFile(c))
  BY DEF ChooseKey, InsertMetadata, InsertCompanyFile, At
<1> QED BY <1>1, <1>2, <1>3, <1>4, <1>5 DEF DocCallStep

\* The steps that an onboarding takes, or gives up.
LEMMA OnboardTakes ==
  ASSUME DocTypes, NEW c \in Calls, DocCallStep(c), call[c].op = "onboarding", call[c].left # {}
  PROVE  \/ <<"failed", SignedRow>> \in happened' /\ <<"failed", call[c].row>> \in happened'
         \/ ListSigned(c)
         \/ RowForEmployee(c)
         \/ \E steps : /\ Finish(c, steps)
                       /\ \/ CopyCompany(c) /\ steps = {"copyCompany"}
                             /\ (IsStored(EmployeeKey)' \/ <<"failed", call[c].row>> \in happened')
                          \/ CopySigned(c) /\ "copySigned" \in call[c].left
                             /\ steps \subseteq SignedSteps
                          \/ DeleteSigned(c) /\ steps = {"deleteSigned"}
                          \/ PointSigned(c) /\ steps = {"pointSigned"}
<1>1. ~ (ListTaskList(c) \/ Saved(c))
  BY DocLocalType DEF ListTaskList, Saved, At, DocCallType, Planned
<1>2. CASE OneFails(c) \/ DocFail(c)
  BY <1>2 DEF OneFails, DocFail, Note
<1>3. CASE CopyCompany(c)
  <2>1. After("copyCompany") = {}
    BY DEF After, Before, CompanySteps, SignedSteps
  <2>2. Finish(c, {"copyCompany"})
    BY <1>3, <2>1 DEF CopyCompany, CopyStep
  <2>3. IsStored(EmployeeKey)' \/ <<"failed", call[c].row>> \in happened'
    <3> PICK k : k = EmployeeKey
      OBVIOUS
    <3>1. (\E o : CopyTo(k, o)) \/ <<"failed", call[c].row>> \in happened'
      BY <1>3 DEF CopyCompany, CopyStep, Note
    <3>2. (\E o : CopyTo(k, o)) => IsStored(k)'
      BY PutStores DEF CopyTo
    <3>3. EmployeeKey' = k
      BY DEF EmployeeKey
    <3> QED BY <3>1, <3>2
  <2> QED BY <1>3, <2>2, <2>3
<1>4. CASE CopySigned(c)
  <2>1. After("copySigned") \subseteq SignedSteps
    BY DEF After, Before, CompanySteps, SignedSteps
  <2>2. "copySigned" \in call[c].left
    BY <1>4 DEF CopySigned, CopyStep, Ready
  <2>3. Finish(c, {"copySigned"}) \/ Finish(c, {"copySigned"} \cup After("copySigned"))
    BY <1>4 DEF CopySigned, CopyStep
  <2>4. {"copySigned"} \subseteq SignedSteps
    BY DEF SignedSteps
  <2>5. {"copySigned"} \cup After("copySigned") \subseteq SignedSteps
    BY <2>1, <2>4
  <2> QED BY <1>4, <2>2, <2>3, <2>4, <2>5
<1>5. CASE DeleteSigned(c) \/ PointSigned(c)
  BY <1>5 DEF DeleteSigned, PointSigned
<1> QED BY <1>1, <1>2, <1>3, <1>4, <1>5, OnboardSteps

LEMMA MovingLasts ==
  ASSUME DocTypes, NEW c \in Calls, DocCallStep(c), NEW d \in Calls, Moving(d, SignedRow),
         ~ Had("failed", SignedRow)'
  PROVE  Moving(d, SignedRow)' \/ (d = c /\ PointSigned(c))
<1>1. DocSteps(c)
  BY CallSaves DEF SavesFrom
<1>2. CASE d # c
  BY <1>1, <1>2 DEF Moving, DocSteps
<1>3. CASE d = c
  <2>1. /\ call[c].op = "onboarding" /\ "deleteSigned" \notin call[c].left /\ "pointSigned" \in call[c].left
        /\ "copySigned" \notin call[c].left /\ call[c].left # {}
    BY <1>3, DocLocalType DEF Moving, DocCallType, Planned
  <2>2. ~ ListSigned(c)
    BY <2>1, ListSignedDoes, StepsOfOnboarding
  <2>3. CASE RowForEmployee(c)
    BY <1>3, <2>1, <2>3, EmployeeRowDoes DEF Moving, Now
  <2>4. ASSUME NEW steps, Finish(c, steps), "pointSigned" \notin steps PROVE Moving(c, SignedRow)'
    BY <2>1, <2>4, FinishNow DEF Moving, Now
  <2> QED BY <1>3, <2>1, <2>2, <2>3, <2>4, OnboardTakes DEF Had
<1> QED BY <1>2, <1>3

LEMMA CopyingLasts ==
  ASSUME DocTypes, NEW c \in Calls, DocCallStep(c), NEW d \in Calls, NEW x, CopyingCompany(d, x),
         ~ Had("failed", x)'
  PROVE  CopyingCompany(d, x)' \/ \A k : k = EmployeeKey => IsStored(k)'
<1>1. DocSteps(c)
  BY CallSaves DEF SavesFrom
<1>2. CASE d # c
  BY <1>1, <1>2 DEF CopyingCompany, DocSteps
<1>3. CASE d = c
  <2>1. /\ call[c].op = "onboarding" /\ "row" \notin call[c].left /\ "copyCompany" \in call[c].left
        /\ call[c].left # {} /\ call[c].row = x
    BY <1>3 DEF CopyingCompany
  <2>2. CASE ListSigned(c)
    <3>1. CASE DocPlace(c, "run")
      BY <1>3, <2>1, <3>1 DEF CopyingCompany, DocPlace, Now
    <3>2. ASSUME NEW k, Now(c, "onboarding", "run", call[c].key, call[c].row, k, call[c].by,
                            call[c].left \cup SignedSteps)
          PROVE  CopyingCompany(c, x)'
      BY <2>1, <3>2, StepsOfOnboarding DEF CopyingCompany, Now
    <3> QED BY <1>3, <2>2, <3>1, <3>2, ListSignedDoes
  <2>3. ~ RowForEmployee(c)
    BY <2>1 DEF RowForEmployee, Ready
  <2>4. ASSUME NEW steps, Finish(c, steps), "copyCompany" \notin steps PROVE CopyingCompany(c, x)'
    BY <2>1, <2>4, FinishNow DEF CopyingCompany, Now
  <2>5. IsStored(EmployeeKey)' => \A k : k = EmployeeKey => IsStored(k)'
    BY DEF IsStored, Object, EmployeeKey
  <2> QED BY <1>3, <2>1, <2>2, <2>3, <2>4, <2>5, OnboardTakes, StepsOfOnboarding DEF Had
<1> QED BY <1>2, <1>3

LEMMA RemovingLasts ==
  ASSUME DocTypes, NEW c \in Calls, DocCallStep(c), NEW d \in Calls, NEW x, Removing(d, x),
         ~ Had("failed", x)', \E r \in rows' : r.id = x
  PROVE  \/ Removing(d, x)'
         \/ UpdatePointer(c) /\ call[c].row = x
         \/ WriteBack(c) /\ call[c].op = "replace" /\ call[c].row = x
<1>1. DocSteps(c)
  BY CallSaves DEF SavesFrom
<1>2. CASE d # c
  BY <1>1, <1>2 DEF Removing, DocSteps
<1>3. CASE d = c
  <2>1. call[c].row = x
    BY <1>3 DEF Removing
  <2>2. ~ DocFail(c)
    BY <2>1 DEF DocFail, Had
  <2>3. rows' # rows \ Row(x)
    BY DEF Row
  <2> QED BY <1>3, <2>1, <2>2, <2>3, RemovingSteps
<1> QED BY <1>2, <1>3

\* The object of a row is deleted by what will write the row.
LEMMA ObjectPlace ==
  ASSUME DocTypes, KeyInv, DocNext, NEW k \in FileKeys, NEW x \in 1 .. MaxRows, Holder(k, x),
         ~ Excused(k), <<"uploadLost", k>> \notin happened', IsStored(k) \/ k \in uploads
  PROVE  \/ IsStored(k)' \/ k \in uploads'
         \/ RemovalLands /\ k \in removals
         \/ x = SignedRow /\ \E c \in Calls : Moving(c, SignedRow)'
<1> SUFFICES ASSUME NEW c \in Calls, DeleteSigned(c), k = call[c].ptr
             PROVE  x = SignedRow /\ Moving(c, SignedRow)'
  BY ObjectsLast
<1>1. "pointSigned" \in call[c].left /\ call[c].op = "onboarding"
  BY DocLocalType DEF DeleteSigned, Ready, DocCallType, Planned
<1>2. Holder(k, SignedRow) /\ SignedRow \in 1 .. MaxRows
  BY <1>1, RowsAssumption DEF Holder, Holds, SignedRow
<1>3. x = SignedRow
  BY <1>2 DEF KeyInv, KeyOk, Excused, Repeated
<1>4. Moving(c, SignedRow)'
  BY <1>1, FinishNow DEF DeleteSigned, Moving, Now
<1> QED BY <1>3, <1>4

LEMMA PlaceBesides ==
  ASSUME DocTypes, KeyInv, PointInv,
         GenerateUrl \/ PutObject \/ ObjectLands \/ ObjectLost \/ RemovalLands \/ PatchCopies
  PROVE  PointInv'
<1>1. UNCHANGED <<call, rows>> /\ removals' \subseteq removals
  BY DEF GenerateUrl, PutObject, ObjectLands, ObjectLost, RemovalLands, PatchCopies, fileRows, unawaited
<1>2. happened \subseteq happened'
  BY BesidesLater DEF Later
<1> SUFFICES ASSUME NEW r \in rows PROVE PlaceOk(r.id, r.ptr)'
  BY <1>1 DEF PointInv
<1> PICK x, k : x = r.id /\ k = r.ptr
  OBVIOUS
<1>3. x \in 1 .. MaxRows /\ k \in FileKeys /\ Holder(k, x)
  BY RowIds
<1> SUFFICES ASSUME ~ Had("beside", x)', ~ Had("failed", x)', ~ Excused(k)' PROVE PlaceOk(x, k)'
  BY DEF PlaceOk
<1>4. ~ Excused(k) /\ ~ Had("beside", x) /\ ~ Had("failed", x) /\ <<"uploadLost", k>> \notin happened'
  BY <1>2, ExcusedStays DEF Excused, Had
<1>5. /\ k \in removals => \E c \in Calls : Removing(c, x)
      /\ \/ IsStored(k) \/ k \in uploads
         \/ \E c \in Calls : Removing(c, x) \/ Moving(c, x) \/ CopyingCompany(c, x)
  BY <1>4 DEF PointInv, PlaceOk
<1>6. \A c \in Calls : /\ Removing(c, x) => Removing(c, x)'
                       /\ Moving(c, x) => Moving(c, x)'
                       /\ CopyingCompany(c, x) => CopyingCompany(c, x)'
  BY <1>1 DEF Removing, Moving, CopyingCompany
<1>7. IsStored(k) \/ k \in uploads =>
        \/ IsStored(k)' \/ k \in uploads' \/ k \in removals \/ \E c \in Calls : Moving(c, x)'
  BY <1>3, <1>4, ObjectPlace DEF DocNext
<1> QED BY <1>1, <1>5, <1>6, <1>7 DEF PlaceOk

\* The object of a key that a call brings is there when the call writes the row.
LEMMA BroughtPlace ==
  ASSUME DocTypes, KeyInv, BroughtInv, happened \subseteq happened', NEW c \in Calls,
         NEW k \in FileKeys, BringsNow(c, k), UNCHANGED <<stored, unawaited>>, NEW x
  PROVE  PlaceOk(x, k)'
<1> SUFFICES ASSUME ~ Excused(k)' PROVE PlaceOk(x, k)'
  BY DEF PlaceOk
<1>1. ~ Excused(k)
  BY ExcusedStays
<1>2. ~ Taken(k)
  BY <1>1 DEF KeyInv, KeyOk, BringsNow, Excused, Repeated
<1>3. k \notin removals'
  BY <1>2 DEF Taken, unawaited
<1>4. IsStored(k)' \/ k \in uploads'
  BY <1>1 DEF BroughtInv, IsStored, Object, unawaited
<1> QED BY <1>3, <1>4 DEF PlaceOk

LEMMA UpdatePlace ==
  ASSUME DocTypes, OriginInv, KeyInv, BroughtInv, NEW c \in Calls, DocCallStep(c), UpdatePointer(c), NEW x,
         NEW k, k = call[c].key
  PROVE  PlaceOk(x, k)'
<1>1. SaveOrigin(call[c]) /\ call[c].pc = "point" /\ call[c].op = "save"
  BY OriginOf DEF CallOrigin, UpdatePointer, At
<1>2. Origin(call[c].key, "employee", call[c].row, call[c].by) /\ call[c].row # 0
  BY <1>1 DEF SaveOrigin, SaveOwner
<1>3. k \in FileKeys
  BY DocLocalType DEF DocLocals
<1>4. BringsNow(c, k)
  BY <1>1, <1>2 DEF Origin, Intro, BringsNow, Brings
<1>5. UNCHANGED <<stored, unawaited>> /\ happened \subseteq happened'
  BY DEF UpdatePointer
<1> QED BY <1>3, <1>4, <1>5, BroughtPlace

LEMMA ReplacePlace ==
  ASSUME DocTypes, OriginInv, KeyInv, BroughtInv, NEW c \in Calls, WriteBack(c), call[c].op = "replace",
         NEW x, NEW k, k = call[c].ptr
  PROVE  PlaceOk(x, k)'
<1>1. k \in FileKeys
  BY DocLocalType DEF DocLocals
<1>2. BringsNow(c, k)
  BY DEF WriteBack, BringsNow, Brings
<1>3. UNCHANGED <<stored, unawaited>> /\ happened \subseteq happened'
  BY DEF WriteBack
<1> QED BY <1>1, <1>2, <1>3, BroughtPlace

LEMMA InsertedPlace ==
  ASSUME DocTypes, OriginInv, KeyInv, BroughtInv, NEW c \in Calls, InsertUploaded(c) \/ InsertCompanyFile(c),
         NEW x, NEW k, k = call[c].key
  PROVE  PlaceOk(x, k)'
<1>1. k \in FileKeys
  BY DocLocalType DEF DocLocals
<1>2. BringsNow(c, k)
  <2>1. CASE InsertUploaded(c)
    <3>1. call[c].op = "save" /\ call[c].pc \in {"file", "companyFile"}
      BY <2>1 DEF InsertUploaded
    <3>2. Intro(k)
      BY <3>1, SavedRow
    <3> QED BY <3>1, <3>2 DEF BringsNow, Brings, Intro
  <2>2. CASE InsertCompanyFile(c)
    BY <2>2 DEF InsertCompanyFile, BringsNow, Brings, At
  <2> QED BY <2>1, <2>2
<1>3. UNCHANGED <<stored, unawaited>> /\ happened \subseteq happened'
  BY DEF InsertUploaded, InsertCompanyFile
<1> QED BY <1>1, <1>2, <1>3, BroughtPlace

\* The row of a signed document is pointed to the copy that was made.
LEMMA SignedPlace ==
  ASSUME DocTypes, OriginInv, ReadInv, BesideInv, SignedInv, NEW c \in Calls, PointSigned(c),
         Row(SignedRow) # {}, NEW k, k = MovedTo(call[c].ptr)
  PROVE  PlaceOk(SignedRow, k)'
<1>1. UNCHANGED <<stored, unawaited, happened>>
  BY DEF PointSigned
<1> SUFFICES ASSUME ~ Had("beside", SignedRow), ~ Had("failed", SignedRow), ~ Excused(k)
             PROVE  k \notin removals /\ IsStored(k)
  BY <1>1 DEF PlaceOk, Had, Excused, IsStored, Object, unawaited, SignedRow
<1>2. SignedGone /\ SignedMoved
  BY DEF SignedInv
<1>3. Ready(c, "pointSigned")
  BY DEF PointSigned
<1>4. "pointSigned" \in SignedSteps
  BY StepsOfOnboarding
<1>5. Moved(call[c])
  BY <1>3, <1>4, ReadySteps DEF Moved, Ready
<1> QED BY <1>2, <1>5, MovedStays DEF SignedMoved

LEMMA EmployeePlace ==
  ASSUME DocTypes, NEW c \in Calls, RowForEmployee(c), NEW x, x = ids + 1, NEW k, k = EmployeeKey
  PROVE  PlaceOk(x, k)'
<1>1. CASE EmployeeKey \in removals
  <2>1. <<"sameKey", k>> \in happened'
    BY <1>1 DEF RowForEmployee, Note
  <2> QED BY <2>1 DEF PlaceOk, Excused, Had
<1>2. CASE EmployeeKey \notin removals
  <2>1. k \notin removals'
    BY <1>2 DEF RowForEmployee, unawaited
  <2>2. "copyCompany" \in call[c].left
    BY DocLocalType DEF RowForEmployee, Ready, DocCallType, Planned
  <2>3. CopyingCompany(c, x)'
    BY <2>2, EmployeeRowDoes DEF CopyingCompany, Now
  <2> QED BY <2>1, <2>3 DEF PlaceOk
<1> QED BY <1>1, <1>2

\* A row that keeps its pointer.
LEMMA PlaceStays ==
  ASSUME DocTypes, KeyInv, ReadInv, PointInv, NEW c \in Calls, DocCallStep(c),
         NEW r \in rows', NEW s \in rows, s.id = r.id, s.ptr = r.ptr,
         ~ (UpdatePointer(c) /\ call[c].row = r.id),
         ~ (WriteBack(c) /\ call[c].op = "replace" /\ call[c].row = r.id)
  PROVE  PlaceOk(r.id, r.ptr)'
<1>0. DocNext /\ happened \subseteq happened'
  BY CallLater DEF DocNext, Later
<1> PICK x, k : x = r.id /\ k = r.ptr
  OBVIOUS
<1>1. x \in 1 .. MaxRows /\ k \in FileKeys /\ Holder(k, x)
  BY RowIds
<1> SUFFICES ASSUME ~ Had("beside", x)', ~ Had("failed", x)', ~ Excused(k)' PROVE PlaceOk(x, k)'
  BY DEF PlaceOk
<1>2. ~ Excused(k) /\ ~ Had("beside", x) /\ ~ Had("failed", x) /\ <<"uploadLost", k>> \notin happened'
  BY <1>0, ExcusedStays DEF Excused, Had
<1>3. PlaceOk(x, k)
  BY DEF PointInv
<1>4. /\ k \in removals => \E d \in Calls : Removing(d, x)
      /\ \/ IsStored(k) \/ k \in uploads
         \/ \E d \in Calls : Removing(d, x) \/ Moving(d, x) \/ CopyingCompany(d, x)
  BY <1>2, <1>3 DEF PlaceOk
<1>5. ASSUME NEW d \in Calls, Removing(d, x) PROVE Removing(d, x)'
  BY <1>5, RemovingLasts
<1>6. ASSUME NEW d \in Calls, Moving(d, x) PROVE Moving(d, x)'
  <2>1. x = SignedRow /\ call[d].op = "onboarding" /\ "pointSigned" \in call[d].left
    BY <1>6 DEF Moving
  <2>2. s \in Row(SignedRow)
    BY <2>1 DEF Row
  <2>3. s.ptr = call[d].ptr
    BY <1>2, <2>1, <2>2 DEF ReadInv, ReadOk
  <2>4. ASSUME d = c, PointSigned(c) PROVE FALSE
    <3>1. Pointed(SignedRow, MovedTo(call[c].ptr)) /\ r.id = SignedRow
      BY <2>1, <2>4, PointSignedTypes
    <3>2. r.ptr = MovedTo(call[c].ptr)
      BY <3>1 DEF Pointed
    <3>3. k = MovedTo(k)
      BY <2>3, <2>4, <3>2
    <3>4. k[2] = k[2] + 1 /\ k[2] \in Nat
      BY <1>1, <3>3, SameNames
    <3> QED BY <3>4
  <2> QED BY <1>6, <2>1, <2>4, MovingLasts
<1>7. ASSUME NEW d \in Calls, CopyingCompany(d, x) PROVE CopyingCompany(d, x)' \/ IsStored(k)'
  <2>1. /\ call[d].op = "onboarding" /\ call[d].row = x /\ x # 0
        /\ "row" \notin call[d].left /\ "copyCompany" \in call[d].left
    BY <1>1, <1>7 DEF CopyingCompany
  <2>2. s \in Row(x)
    BY DEF Row
  <2>3. s.ptr = EmployeeKey
    BY <1>2, <2>1, <2>2 DEF ReadInv, ReadOk
  <2> QED BY <1>7, <2>3, CopyingLasts
<1>8. k \in removals' => \E d \in Calls : Removing(d, x)'
  <2>1. CASE k \in removals
    BY <1>4, <1>5, <2>1
  <2>2. CASE k \in removals' \ removals
    <3>1. PICK y \in 1 .. MaxRows : Holder(k, y) /\ Removing(c, y)'
      BY <2>2, CallRemoves
    <3>2. x = y
      BY <1>1, <1>2, <3>1 DEF KeyInv, KeyOk, Excused, Repeated
    <3> QED BY <3>1, <3>2
  <2> QED BY <2>1, <2>2
<1>9. CASE IsStored(k) \/ k \in uploads
  <2>1. \/ IsStored(k)' \/ k \in uploads'
        \/ k \in removals
        \/ x = SignedRow /\ \E d \in Calls : Moving(d, SignedRow)'
    BY <1>0, <1>1, <1>2, <1>9, ObjectPlace
  <2>2. x = SignedRow => \A d \in Calls : Moving(d, SignedRow)' => Moving(d, x)'
    BY DEF Moving, SignedRow
  <2> QED BY <1>4, <1>5, <1>8, <2>1, <2>2 DEF PlaceOk
<1>10. CASE \E d \in Calls : Removing(d, x) \/ Moving(d, x) \/ CopyingCompany(d, x)
  BY <1>5, <1>6, <1>7, <1>8, <1>10 DEF PlaceOk
<1> QED BY <1>4, <1>9, <1>10

LEMMA RowsUntouched ==
  ASSUME NEW c \in Calls,
         \/ Deliver(c) \/ HeadObject(c) \/ CreateEsignatureMetadata(c) \/ LoadCurrent(c)
         \/ Request(c) \/ ReadForEdit(c) \/ ReadForReplace(c) \/ ReplaceFile(c)
         \/ DeleteCompanyDocument(c) \/ DeleteEmployeeDocument(c)
         \/ CreateCompanyDocument(c) \/ ChooseKey(c) \/ InsertMetadata(c)
         \/ SaveOnboarding(c) \/ ListTaskList(c) \/ ListSigned(c) \/ CopyCompany(c) \/ CopySigned(c)
         \/ DeleteSigned(c) \/ OneFails(c) \/ Saved(c) \/ DocFail(c)
  PROVE  UNCHANGED rows
<1>1. CASE Deliver(c) \/ HeadObject(c) \/ CreateEsignatureMetadata(c) \/ LoadCurrent(c)
  <2>1. CASE Deliver(c)
    BY <2>1, Zenon DEF Deliver, fileRows
  <2>2. CASE HeadObject(c) \/ CreateEsignatureMetadata(c) \/ LoadCurrent(c)
    BY <2>2, Zenon DEF HeadObject, CreateEsignatureMetadata, LoadCurrent, fileRows
  <2> QED BY <1>1, <2>1, <2>2
<1>2. CASE Request(c) \/ ReadForEdit(c) \/ ReadForReplace(c) \/ ReplaceFile(c)
  BY <1>2 DEF Request, ReadForEdit, ReadForReplace, ReplaceFile, fileRows
<1>3. CASE DeleteCompanyDocument(c) \/ DeleteEmployeeDocument(c)
  BY <1>3 DEF DeleteCompanyDocument, DeleteEmployeeDocument, LoadForDelete, fileRows
<1>4. CASE CreateCompanyDocument(c) \/ ChooseKey(c) \/ InsertMetadata(c)
  BY <1>4 DEF CreateCompanyDocument, ChooseKey, InsertMetadata, fileRows
<1>5. CASE SaveOnboarding(c) \/ ListTaskList(c) \/ ListSigned(c)
  <2>1. CASE SaveOnboarding(c)
    BY <2>1, Zenon DEF SaveOnboarding, fileRows
  <2>2. CASE ListTaskList(c)
    BY <2>2, Zenon DEF ListTaskList, fileRows
  <2>3. CASE ListSigned(c)
    BY <2>3, Zenon DEF ListSigned, fileRows
  <2> QED BY <1>5, <2>1, <2>2, <2>3
<1>6. CASE CopyCompany(c) \/ CopySigned(c)
  BY <1>6 DEF CopyCompany, CopySigned, CopyStep, fileRows
<1>7. CASE DeleteSigned(c) \/ OneFails(c) \/ Saved(c) \/ DocFail(c)
  BY <1>7 DEF DeleteSigned, OneFails, Saved, DocFail, fileRows
<1> QED BY <1>1, <1>2, <1>3, <1>4, <1>5, <1>6, <1>7

\* A new row.
LEMMA NewRow ==
  ASSUME DocTypes, NEW c \in Calls, DocCallStep(c), NEW r \in rows', r.id > ids
  PROVE  \/ (InsertUploaded(c) \/ InsertCompanyFile(c)) /\ r.ptr = call[c].key
         \/ RowForEmployee(c) /\ r.id = ids + 1 /\ r.ptr = EmployeeKey
<1>1. \A s \in rows : s.id <= ids /\ s.id # r.id
  BY RowsOnce
<1>2. ASSUME UNCHANGED rows \/ rows' \subseteq rows PROVE FALSE
  BY <1>1, <1>2
<1>3. ASSUME NEW id, NEW k, Pointed(id, k) PROVE FALSE
  BY <1>1, <1>3 DEF Pointed
<1>4. CASE InsertUploaded(c) \/ InsertCompanyFile(c)
  <2>1. \E owner, by : Insert(owner, call[c].key, by)
    BY <1>4 DEF InsertUploaded, InsertCompanyFile
  <2> QED BY <1>1, <1>4, <2>1, InsertRow
<1>5. CASE RowForEmployee(c)
  <2>1. Insert("onboarding", EmployeeKey, 0)
    BY <1>5 DEF RowForEmployee
  <2> QED BY <1>1, <1>5, <2>1, InsertRow
<1>6. CASE UpdatePointer(c) \/ WriteBack(c) \/ PointSigned(c)
  BY <1>3, <1>6, UpdatePointerTypes, WriteBackTypes, PointSignedTypes
<1>7. CASE \/ Deliver(c) \/ HeadObject(c) \/ CreateEsignatureMetadata(c) \/ LoadCurrent(c)
           \/ Request(c) \/ ReadForEdit(c) \/ ReadForReplace(c) \/ ReplaceFile(c)
           \/ DeleteCompanyDocument(c) \/ DeleteEmployeeDocument(c)
           \/ CreateCompanyDocument(c) \/ ChooseKey(c) \/ InsertMetadata(c)
  BY <1>2, <1>7, RowsUntouched
<1>8. CASE \/ SaveOnboarding(c) \/ ListTaskList(c) \/ ListSigned(c) \/ CopyCompany(c) \/ CopySigned(c)
           \/ DeleteSigned(c) \/ OneFails(c) \/ Saved(c) \/ DocFail(c)
  BY <1>2, <1>8, RowsUntouched
<1>9. CASE DeleteCompanyDocumentRecord(c) \/ DeleteEmployeeDocumentRecord(c)
  BY <1>2, <1>9 DEF DeleteCompanyDocumentRecord, DeleteEmployeeDocumentRecord, DropRow
<1> QED BY <1>4, <1>5, <1>6, <1>7, <1>8, <1>9 DEF DocCallStep

LEMMA PointsKept ==
  ASSUME DocTypes, DocTypes', OriginInv, KeyInv, BesideInv, ReadInv, BroughtInv, SignedInv,
         PointInv, DocNext
  PROVE  PointInv'
<1> SUFFICES ASSUME NEW c \in Calls, DocCallStep(c), NEW r \in rows'
             PROVE  PlaceOk(r.id, r.ptr)'
  BY PlaceBesides DEF DocNext, PointInv
<1> PICK x, k : x = r.id /\ k = r.ptr
  OBVIOUS
<1>1. r.id \in Nat
  BY DEF DocTypes, DocStore, RowsTyped, FileRecords
<1>2. CASE r.id > ids
  <2>1. CASE (InsertUploaded(c) \/ InsertCompanyFile(c)) /\ k = call[c].key
    BY <2>1, InsertedPlace
  <2>2. CASE RowForEmployee(c) /\ x = ids + 1 /\ k = EmployeeKey
    BY <2>2, EmployeePlace
  <2> QED BY <1>2, <2>1, <2>2, NewRow
<1>3. CASE r.id <= ids
  <2>1. CASE UpdatePointer(c) /\ call[c].row = r.id
    <3>1. r.ptr = call[c].key
      BY <2>1, UpdatePointerTypes DEF Pointed
    <3> QED BY <2>1, <3>1, UpdatePlace
  <2>2. CASE WriteBack(c) /\ call[c].op = "replace" /\ call[c].row = r.id
    <3>1. r.ptr = call[c].ptr
      BY <2>2, WriteBackTypes DEF Pointed
    <3> QED BY <2>2, <3>1, ReplacePlace
  <2>3. CASE Had("beside", r.id)
    <3>1. <<"beside", r.id>> \in happened'
      BY <2>3, CallLater DEF Later, Had
    <3> QED BY <3>1 DEF PlaceOk, Had
  <2>4. CASE PointSigned(c) /\ x = SignedRow /\ k = MovedTo(call[c].ptr) /\ Row(SignedRow) # {}
    <3>1. PlaceOk(SignedRow, k)'
      BY <2>4, SignedPlace
    <3>2. SignedRow' = x
      BY <2>4 DEF SignedRow
    <3> QED BY <2>4, <3>1, <3>2
  <2>5. CASE /\ \E s \in rows : s.id = r.id /\ s.ptr = r.ptr
             /\ ~ (UpdatePointer(c) /\ call[c].row = r.id)
             /\ ~ (WriteBack(c) /\ call[c].op = "replace" /\ call[c].row = r.id)
    BY <2>5, PlaceStays
  <2> QED BY <1>3, <2>1, <2>2, <2>3, <2>4, <2>5, CallPoints
<1>4. ids \in Nat
  BY RowsOnce
<1> QED BY <1>1, <1>2, <1>3, <1>4

\* When nothing is under way, this is the property.
LEMMA PointedTo ==
  ASSUME DocTypes, PointInv
  PROVE  PointsToObject
<1> SUFFICES ASSUME Quiet, NEW r \in rows
             PROVE  IsStored(r.ptr) \/ Excused(r.ptr) \/ Had("failed", r.id) \/ Had("beside", r.id)
  BY DEF PointsToObject
<1>1. \A c \in Calls : /\ call[c].op = None
                       /\ ~ (Removing(c, r.id) \/ Moving(c, r.id) \/ CopyingCompany(c, r.id))
  BY DocOperates DEF Quiet, AllEnded, Active, Removing, Moving, CopyingCompany
<1>2. r.ptr \notin uploads
  BY DEF Quiet
<1> QED BY <1>1, <1>2 DEF PointInv, PlaceOk
-----------------------------------------------------------------------------
(* The latest file.                                                        *)

\* An object that replaces no row, or is the latest that does.
Fine(o) == o[2].row # 0 => latest[o[2].row] = o[2].by \/ Had("reordered", o[2].row)

\* What a save of a file will write, it had read, or is told by the object.
OrderFrom(c) ==
  call'[c].op = "save" =>
    \/ call'[c].pc = "head" /\ \E e \in raised : e.key = call'[c].key
    \/ /\ call[c].op = "save" /\ call'[c].key = call[c].key /\ call'[c].pc # "head"
       /\ \/ call[c].pc # "head" /\ call'[c].row = call[c].row /\ call'[c].by = call[c].by
          \/ /\ call[c].pc = "head"
             /\ \E o \in Object(call[c].key) : o[2].row = call'[c].row /\ o[2].by = call'[c].by

LEMMA OrderStays ==
  ASSUME NEW i \in 1 .. MaxRows, InOrder(i), UNCHANGED latest, happened \subseteq happened',
         \A o \in stored' : o \in stored \/ Fine(o)',
         \A e \in raised' : e \in raised \/ \A o \in stored' : o[1] = e.key => Fine(o)',
         \A c \in Calls : call'[c] = call[c] \/ OrderFrom(c)
  PROVE  InOrder(i)'
<1> SUFFICES ASSUME ~ Had("reordered", i)' PROVE InOrder(i)'
  BY DEF InOrder
<1>0. i # 0 /\ \A o : Fine(o)' /\ o[2].row = i => o[2].by = latest'[i]
  BY DEF Fine, Had
<1>1. /\ \A e \in raised, o \in stored : o[1] = e.key /\ o[2].row = i => o[2].by = latest[i]
      /\ \A c \in Calls, o \in stored :
           call[c].op = "save" /\ call[c].pc = "head" /\ o[1] = call[c].key /\ o[2].row = i =>
             o[2].by = latest[i]
      /\ \A c \in Calls :
           call[c].op = "save" /\ call[c].pc # "head" /\ call[c].row = i => call[c].by = latest[i]
  BY DEF InOrder, Had
<1>2. \A e \in raised', o \in stored' : o[1] = e.key /\ o[2].row = i => o[2].by = latest'[i]
  BY <1>0, <1>1
<1>3. ASSUME NEW c \in Calls, NEW o \in stored', call'[c].op = "save", call'[c].pc = "head",
             o[1] = call'[c].key, o[2].row = i
      PROVE  o[2].by = latest'[i]
  <2>1. CASE o \in stored
    BY <1>1, <1>3, <2>1 DEF OrderFrom
  <2> QED BY <1>0, <1>3, <2>1
<1>4. ASSUME NEW c \in Calls, call'[c].op = "save", call'[c].pc # "head", call'[c].row = i
      PROVE  call'[c].by = latest'[i]
  <2>1. CASE call[c].op = "save" /\ call[c].pc # "head" /\ call'[c].row = call[c].row /\ call'[c].by = call[c].by
    BY <1>1, <1>4, <2>1
  <2>2. ASSUME call[c].op = "save", call[c].pc = "head",
               NEW o \in Object(call[c].key), o[2].row = call'[c].row, o[2].by = call'[c].by
        PROVE  call'[c].by = latest'[i]
    BY <1>1, <1>4, <2>2 DEF Object
  <2> QED BY <1>4, <2>1, <2>2 DEF OrderFrom
<1> QED BY <1>2, <1>3, <1>4 DEF InOrder

LEMMA OverOrder ==
  ASSUME NEW c \in Calls, DocOver(c)
  PROVE  OrderFrom(c)
BY DocOperates DEF DocOver, Now, OrderFrom

\* A call that saves no file, or takes its next step.
LEMMA NowOrder ==
  ASSUME NEW c \in Calls, NEW op, NEW pc, NEW key, NEW id, NEW ptr, NEW by, NEW left,
         Now(c, op, pc, key, id, ptr, by, left),
         op = "save" => /\ call[c].op = "save" /\ call[c].pc # "head" /\ pc # "head"
                        /\ key = call[c].key /\ id = call[c].row /\ by = call[c].by
  PROVE  OrderFrom(c)
BY DEF Now, OrderFrom

LEMMA UploadedOrder ==
  ASSUME DocTypes, NEW c \in Calls,
         Deliver(c) \/ HeadObject(c) \/ CreateEsignatureMetadata(c) \/ InsertUploaded(c)
         \/ LoadCurrent(c) \/ UpdatePointer(c)
  PROVE  OrderFrom(c)
<1>1. CASE Deliver(c)
  BY <1>1, DeliverDoes DEF Starts, Now, OrderFrom
<1>2. CASE HeadObject(c)
  <2>1. CASE DocOver(c)
    BY <2>1, OverOrder
  <2>2. ASSUME NEW o \in Object(call[c].key),
               Now(c, "save", NextStep(o[2]), call[c].key, o[2].row, call[c].ptr, o[2].by, {})
        PROVE  OrderFrom(c)
    <3>1. call[c].op = "save" /\ call[c].pc = "head"
      BY <1>2, Zenon DEF HeadObject, At
    <3>2. NextStep(o[2]) # "head"
      BY DEF NextStep
    <3> QED BY <2>2, <3>1, <3>2 DEF Now, OrderFrom
  <2> QED BY <1>2, <2>1, <2>2, HeadDoes
<1>3. CASE CreateEsignatureMetadata(c)
  <2>1. call[c].op = "save" /\ call[c].pc = "meta"
    BY <1>3 DEF CreateEsignatureMetadata, At
  <2>2. DocPlace(c, "companyFile") => OrderFrom(c)
    BY <2>1 DEF DocPlace, Now, OrderFrom
  <2> QED BY <1>3, <2>2, OverOrder, MetaDoes
<1>4. CASE LoadCurrent(c)
  <2>1. call[c].op = "save" /\ call[c].pc = "current"
    BY <1>4 DEF LoadCurrent, At
  <2>2. DocPlace(c, "point") => OrderFrom(c)
    BY <2>1 DEF DocPlace, Now, OrderFrom
  <2> QED BY <1>4, <2>2, OverOrder, LoadCurrentDoes
<1>5. CASE InsertUploaded(c) \/ UpdatePointer(c)
  BY <1>5, OverOrder, InsertUploadedTypes, UpdatePointerTypes
<1> QED BY <1>1, <1>2, <1>3, <1>4, <1>5

\* The other calls save no file.
LEMMA CallOrder ==
  ASSUME DocTypes, NEW c \in Calls, DocCallStep(c)
  PROVE  OrderFrom(c)
<1> SUFFICES ASSUME call'[c].op = "save" PROVE OrderFrom(c)
  BY DEF OrderFrom
<1>1. CASE DocOver(c)
  BY <1>1, OverOrder
<1>2. ASSUME NEW op, NEW pc, NEW key, NEW id, op # "save", Starts(c, op, pc, key, id) PROVE FALSE
  BY <1>2 DEF Starts, Now
<1>3. ASSUME NEW op, NEW pc, NEW key, NEW id, NEW ptr, NEW by, NEW left, op # "save",
             Now(c, op, pc, key, id, ptr, by, left)
      PROVE  FALSE
  BY <1>3 DEF Now
<1>4. ASSUME call[c].op # "save", NEW pc, DocPlace(c, pc) PROVE FALSE
  BY <1>4 DEF DocPlace, Now
<1>5. ASSUME NEW steps, Finish(c, steps), call[c].op = "onboarding" PROVE FALSE
  BY <1>5, FinishNow DEF Now
<1>6. CASE Request(c)
  BY <1>2, <1>6, RequestDoes
<1>7. CASE ReadForEdit(c) \/ ReadForReplace(c)
  BY <1>1, <1>3, <1>7, ReadForEditDoes, ReadForReplaceDoes
<1>8. CASE ReplaceFile(c) \/ ChooseKey(c)
  BY <1>3, <1>8, ReplaceFileDoes, ChooseKeyDoes DEF Replaced
<1>9. CASE DeleteCompanyDocument(c) \/ DeleteEmployeeDocument(c)
  BY <1>1, <1>4, <1>9, LoadForDeleteDoes DEF DeleteCompanyDocument, DeleteEmployeeDocument, At
<1>10. CASE DeleteCompanyDocumentRecord(c) \/ DeleteEmployeeDocumentRecord(c)
  BY <1>1, <1>10, DropDoes DEF DeleteCompanyDocumentRecord, DeleteEmployeeDocumentRecord
<1>11. CASE WriteBack(c) \/ InsertCompanyFile(c) \/ Saved(c) \/ DocFail(c)
  BY <1>1, <1>11, WriteBackTypes, InsertCompanyFileTypes, SavedTypes, DocFailTypes
<1>12. CASE CreateCompanyDocument(c) \/ SaveOnboarding(c)
  BY <1>2, <1>12, CreationDoes, SaveOnboardingDoes
<1>13. CASE InsertMetadata(c)
  BY <1>4, <1>13, InsertMetadataTypes DEF InsertMetadata, At
<1>14. CASE ListTaskList(c)
  <2>1. call[c].op # "save"
    BY <1>14, Zenon DEF ListTaskList, At
  <2> QED BY <1>3, <1>4, <1>14, <2>1, ListTaskDoes
<1>15. CASE ListSigned(c)
  <2>1. call[c].op # "save"
    BY <1>15, Zenon DEF ListSigned, At
  <2> QED BY <1>3, <1>4, <1>15, <2>1, ListSignedDoes
<1>16. CASE RowForEmployee(c)
  BY <1>3, <1>16, EmployeeRowDoes
<1>17. CASE CopyCompany(c) \/ CopySigned(c) \/ DeleteSigned(c) \/ PointSigned(c) \/ OneFails(c)
  BY <1>5, <1>17 DEF CopyCompany, CopySigned, CopyStep, DeleteSigned, PointSigned, OneFails, Ready
<1> QED BY <1>6, <1>7, <1>8, <1>9, <1>10, <1>11, <1>12, <1>13, <1>14, <1>15, <1>16, <1>17,
           UploadedOrder DEF DocCallStep

\* What the objects and the events are after a step: those that were, or in order.
ObjectsFine ==
  /\ \A o \in stored' : o \in stored \/ Fine(o)'
  /\ \A e \in raised' : e \in raised \/ \A o \in stored' : o[1] = e.key => Fine(o)'

LEMMA CopyFine ==
  ASSUME NEW o, NEW to, CopyTo(to, o), UNCHANGED latest, Older(o) \subseteq happened'
  PROVE  ObjectsFine
<1>1. ASSUME NEW p, p[2] = o[2] PROVE Fine(p)'
  <2>1. o[2].row # 0 /\ latest[o[2].row] # o[2].by => <<"reordered", o[2].row>> \in happened'
    BY DEF Older
  <2> QED BY <1>1, <2>1 DEF Fine, Had
<1>2. \A p \in stored' : (p \in stored /\ p[1] # to) \/ p = <<to, o[2]>>
  BY DEF CopyTo, Put, Object
<1>3. \A p : p = <<to, o[2]>> => p[2] = o[2]
  OBVIOUS
<1>4. \A e \in raised' : e \in raised \/ e.key = to
  BY DEF CopyTo
<1> QED BY <1>1, <1>2, <1>3, <1>4 DEF ObjectsFine

LEMMA LessFine ==
  ASSUME stored' \subseteq stored, raised' \subseteq raised
  PROVE  ObjectsFine
BY DEF ObjectsFine

LEMMA CallFine ==
  ASSUME DocTypes, NEW c \in Calls, DocCallStep(c)
  PROVE  ObjectsFine
<1>0. UNCHANGED latest /\ happened \subseteq happened'
  BY CallLater DEF browser, Later
<1>1. CASE Deliver(c) \/ HeadObject(c) \/ CreateEsignatureMetadata(c) \/ InsertUploaded(c)
  <2>1. CASE Deliver(c)
    <3>1. UNCHANGED stored
      BY <2>1 DEF Deliver
    <3>2. raised' \subseteq raised
      BY <2>1, DeliverDoes
    <3> QED BY <3>1, <3>2, LessFine
  <2>2. CASE HeadObject(c) \/ CreateEsignatureMetadata(c) \/ InsertUploaded(c)
    <3>1. UNCHANGED <<stored, raised>>
      BY <2>2, Zenon DEF HeadObject, CreateEsignatureMetadata, InsertUploaded
    <3> QED BY <3>1, LessFine
  <2> QED BY <1>1, <2>1, <2>2
<1>2. CASE LoadCurrent(c) \/ UpdatePointer(c) \/ Request(c) \/ ReadForEdit(c) \/ WriteBack(c)
  BY <1>2, LessFine DEF LoadCurrent, UpdatePointer, Request, ReadForEdit, WriteBack
<1>3. CASE ReadForReplace(c) \/ ReplaceFile(c) \/ DeleteCompanyDocument(c) \/ DeleteEmployeeDocument(c)
  BY <1>3, LessFine DEF ReadForReplace, ReplaceFile, DeleteCompanyDocument, DeleteEmployeeDocument,
     LoadForDelete
<1>4. CASE DeleteCompanyDocumentRecord(c) \/ DeleteEmployeeDocumentRecord(c)
  BY <1>4, LessFine DEF DeleteCompanyDocumentRecord, DeleteEmployeeDocumentRecord, DropRow
<1>5. CASE CreateCompanyDocument(c) \/ ChooseKey(c) \/ InsertMetadata(c) \/ InsertCompanyFile(c)
  BY <1>5, LessFine DEF CreateCompanyDocument, ChooseKey, InsertMetadata, InsertCompanyFile
<1>6. CASE SaveOnboarding(c) \/ ListTaskList(c) \/ ListSigned(c) \/ RowForEmployee(c)
  <2>1. UNCHANGED <<stored, raised>>
    <3>1. CASE SaveOnboarding(c) \/ RowForEmployee(c)
      BY <3>1, Zenon DEF SaveOnboarding, RowForEmployee
    <3>2. CASE ListTaskList(c) \/ ListSigned(c)
      BY <3>2, Zenon DEF ListTaskList, ListSigned
    <3> QED BY <1>6, <3>1, <3>2
  <2> QED BY <2>1, LessFine
<1>7. CASE PointSigned(c) \/ OneFails(c) \/ Saved(c) \/ DocFail(c)
  BY <1>7, LessFine DEF PointSigned, OneFails, Saved, DocFail
<1>8. CASE DeleteSigned(c)
  BY <1>8, LessFine DEF DeleteSigned
<1>9. CASE CopyCompany(c) \/ CopySigned(c)
  <2>1. \/ UNCHANGED <<stored, raised>>
        \/ \E o, to : CopyTo(to, o) /\ Older(o) \subseteq happened'
    <3>1. CASE CopyCompany(c)
      BY <3>1 DEF CopyCompany, CopyStep
    <3>2. CASE CopySigned(c)
      BY <3>2 DEF CopySigned, CopyStep
    <3> QED BY <1>9, <3>1, <3>2
  <2> QED BY <1>0, <2>1, CopyFine, LessFine
<1> QED BY <1>1, <1>2, <1>3, <1>4, <1>5, <1>6, <1>7, <1>8, <1>9 DEF DocCallStep

\* The upload of a file that replaces a row, when nothing that replaces it is under way.
LEMMA PutOrder ==
  ASSUME DocTypes, PutObject, NEW i \in 1 .. MaxRows, InOrder(i)
  PROVE  InOrder(i)'
<1>1. PICK u \in Uploads \ used :
        /\ Put(url[u].key, [owner |-> url[u].owner, row |-> url[u].row, by |-> u])
        /\ raised' = raised \cup {[key |-> url[u].key, by |-> u]}
        /\ \A j \in 1 .. MaxRows : latest'[j] = IF url[u].row = j THEN u ELSE latest[j]
        /\ happened \subseteq happened'
        /\ url[u].row # 0 /\ url[u].row \in Busy \cup Expected =>
              <<"reordered", url[u].row>> \in happened'
  BY PutDoes
<1>2. UNCHANGED call
  BY DEF PutObject
<1> PICK k, j : k = url[u].key /\ j = url[u].row
  OBVIOUS
<1> SUFFICES ASSUME ~ Had("reordered", i)' PROVE InOrder(i)'
  BY DEF InOrder
<1>3. /\ \A e \in raised, o \in stored : o[1] = e.key /\ o[2].row = i => o[2].by = latest[i]
      /\ \A c \in Calls, o \in stored :
           call[c].op = "save" /\ call[c].pc = "head" /\ o[1] = call[c].key /\ o[2].row = i =>
             o[2].by = latest[i]
      /\ \A c \in Calls :
           call[c].op = "save" /\ call[c].pc # "head" /\ call[c].row = i => call[c].by = latest[i]
  BY <1>1 DEF InOrder, Had
<1>4. \A o \in stored' : (o \in stored /\ o[1] # k) \/ (o[1] = k /\ o[2].row = j /\ o[2].by = u)
  BY <1>1 DEF Put, Object
<1>5. \A e \in raised' : e \in raised \/ e.key = k
  BY <1>1
<1>6. CASE i # j
  <2>1. latest'[i] = latest[i]
    BY <1>1, <1>6
  <2> QED BY <1>2, <1>3, <1>4, <1>5, <1>6, <2>1 DEF InOrder
<1>7. CASE i = j
  <2>1. latest'[i] = u
    BY <1>1, <1>7
  <2>2. i \notin Busy /\ i \notin Expected
    BY <1>1, <1>7 DEF Had
  <2>0. \A o \in stored : o[2].row \in RowsOf(o[1])
    BY DEF RowsOf, Object
  <2>3. ASSUME NEW e \in raised, NEW o \in stored, o[1] = e.key, o[2].row = i PROVE FALSE
    <3>1. i \in RowsOf(e.key)
      BY <2>0, <2>3
    <3>2. RowsOf(e.key) \in {RowsOf(f.key) : f \in raised}
      OBVIOUS
    <3> QED BY <2>2, <3>1, <3>2 DEF Expected
  <2>4. ASSUME NEW c \in Calls, NEW o \in stored, call[c].op = "save", o[1] = call[c].key, o[2].row = i
        PROVE  FALSE
    <3>1. i \in RowsOf(call[c].key)
      BY <2>0, <2>4
    <3>2. c \in {e \in Calls : call[e].op = "save"}
      BY <2>4
    <3> PICK saves : saves = {e \in Calls : call[e].op = "save"}
      OBVIOUS
    <3>3. i \in UNION {RowsOf(call[d].key) : d \in saves}
      BY <3>1, <3>2
    <3>4. Expected = (UNION {RowsOf(e.key) : e \in raised}) \cup (UNION {RowsOf(call[d].key) : d \in saves})
      BY DEF Expected
    <3>5. i \in Expected
      BY <3>3, <3>4
    <3> QED BY <2>2, <3>5
  <2>5. \A c \in Calls : call[c].op = "save" => call[c].row # i
    BY <2>2, DocOperates DEF Busy, Active
  <2> QED BY <1>2, <1>4, <1>5, <2>1, <2>3, <2>4, <2>5 DEF InOrder
<1> QED BY <1>6, <1>7

LEMMA OrdersKept ==
  ASSUME DocTypes, DocNext, NEW i \in 1 .. MaxRows, InOrder(i)
  PROVE  InOrder(i)'
<1>1. ASSUME NEW c \in Calls, DocCallStep(c) PROVE InOrder(i)'
  <2>1. UNCHANGED latest /\ happened \subseteq happened' /\ DocSteps(c)
    BY <1>1, CallLater, CallSaves DEF browser, Later, SavesFrom
  <2>2. \A d \in Calls : call'[d] = call[d] \/ OrderFrom(d)
    BY <1>1, <2>1, CallOrder DEF DocSteps
  <2> QED BY <1>1, <2>1, <2>2, CallFine, OrderStays DEF ObjectsFine
<1>2. CASE GenerateUrl \/ ObjectLands \/ ObjectLost \/ RemovalLands \/ PatchCopies
  <2>1. UNCHANGED <<latest, call>> /\ happened \subseteq happened'
    <3>1. UNCHANGED <<latest, call>>
      BY <1>2 DEF GenerateUrl, ObjectLands, ObjectLost, RemovalLands, PatchCopies, browser
    <3>2. happened \subseteq happened'
      BY <1>2, BesidesLater DEF Later
    <3> QED BY <3>1, <3>2
  <2>2. ASSUME GenerateUrl \/ ObjectLost PROVE ObjectsFine
    <3>1. UNCHANGED <<stored, raised>>
      BY <2>2, Zenon DEF GenerateUrl, ObjectLost
    <3> QED BY <3>1, LessFine
  <2>3. ASSUME RemovalLands PROVE ObjectsFine
    <3>1. UNCHANGED raised /\ \E k : stored' = stored \ Object(k)
      BY <2>3, Zenon DEF RemovalLands
    <3> QED BY <3>1, LessFine
  <2>4. ASSUME ObjectLands PROVE ObjectsFine
    <3>1. PICK k : Put(k, Silent)
      BY <2>4 DEF ObjectLands
    <3>2. \A o \in stored' : o \in stored \/ o[2].row = 0
      BY <3>1 DEF Put, Silent
    <3>3. UNCHANGED raised
      BY <2>4, Zenon DEF ObjectLands
    <3>4. \A o \in stored' : o \in stored \/ Fine(o)'
      BY <3>2 DEF Fine
    <3> QED BY <3>3, <3>4 DEF ObjectsFine
  <2>5. ASSUME PatchCopies PROVE ObjectsFine
    <3>1. \E o, to : CopyTo(to, o) /\ Older(o) \subseteq happened'
      BY <2>5 DEF PatchCopies
    <3> QED BY <2>1, <3>1, CopyFine
  <2>6. ObjectsFine
    BY <1>2, <2>2, <2>3, <2>4, <2>5
  <2> QED BY <2>1, <2>6, OrderStays DEF ObjectsFine
<1>3. CASE PutObject
  BY <1>3, PutOrder
<1> QED BY <1>1, <1>2, <1>3 DEF DocNext

\* What a call has read of a row, its row has or another call has read.
LEMMA CallHolds ==
  ASSUME DocTypes, NEW c \in Calls, DocCallStep(c), NEW k, NEW x, Holds(c, k, x)'
  PROVE  Holder(k, x)
<1>0. /\ call'[c].op \in {"edit", "replace", "onboarding"}
      /\ call'[c].op \in {"edit", "replace"} => call'[c].pc \in {"write", "upload"}
      /\ call'[c].op = "replace" => call'[c].pc = "upload"
      /\ call'[c].op = "onboarding" => "pointSigned" \in call'[c].left /\ call'[c].ptr = k /\ x = SignedRow
      /\ call'[c].op # "onboarding" => call'[c].ptr = k /\ call'[c].row = x
  BY DEF Holds, SignedRow
<1>1. ~ DocOver(c)
  BY OverKeeps
<1>2. ASSUME NEW op, NEW pc, NEW key, NEW id, NEW ptr, NEW by, NEW left,
             Now(c, op, pc, key, id, ptr, by, left),
             \/ op \notin {"edit", "replace", "onboarding"}
             \/ op \in {"edit", "replace"} /\ pc \notin {"write", "upload"}
             \/ op = "replace" /\ pc # "upload"
             \/ op = "onboarding" /\ "pointSigned" \notin left
      PROVE  FALSE
  BY <1>0, <1>2 DEF Now
<1>3. ASSUME NEW op, NEW key, NEW id, Starts(c, op, "read", key, id) PROVE FALSE
  BY <1>2, <1>3 DEF Starts
<1>4. ASSUME NEW r \in Row(call[c].row), NEW op \in {"edit", "replace"}, NEW pc, NEW key, NEW by,
             Now(c, op, pc, key, call[c].row, r.ptr, by, {})
      PROVE  Holder(k, x)
  <2>1. r \in rows /\ r.id = call[c].row
    BY DEF Row
  <2>2. k = r.ptr /\ x = r.id
    BY <1>0, <1>4, <2>1 DEF Now
  <2> QED BY <2>1, <2>2, RowIds
<1>5. CASE Deliver(c) \/ HeadObject(c) \/ CreateEsignatureMetadata(c) \/ InsertUploaded(c)
           \/ LoadCurrent(c) \/ UpdatePointer(c)
  <2>1. call'[c].op \in {"save", None}
    <3>1. CASE Deliver(c)
      BY <3>1, DeliverDoes DEF Starts, Now
    <3>2. CASE HeadObject(c)
      BY <3>2, HeadDoes DEF DocOver, Now
    <3>3. CASE CreateEsignatureMetadata(c)
      BY <3>3, MetaDoes DEF CreateEsignatureMetadata, At, DocPlace, DocOver, Now
    <3>4. CASE LoadCurrent(c)
      <4>1. call[c].op = "save"
        BY <3>4 DEF LoadCurrent, At
      <4> QED BY <3>4, <4>1, LoadCurrentDoes DEF DocPlace, DocOver, Now
    <3>5. CASE InsertUploaded(c) \/ UpdatePointer(c)
      BY <3>5, InsertUploadedTypes, UpdatePointerTypes DEF DocOver, Now
    <3> QED BY <1>5, <3>1, <3>2, <3>3, <3>4, <3>5
  <2> QED BY <1>0, <2>1, DocOperates
<1>6. CASE Request(c) \/ CreateCompanyDocument(c) \/ SaveOnboarding(c)
  BY <1>3, <1>6, RequestDoes, CreationDoes, SaveOnboardingDoes
<1>7. CASE ReadForEdit(c)
  BY <1>1, <1>4, <1>7, ReadForEditDoes
<1>8. CASE ReadForReplace(c)
  BY <1>1, <1>4, <1>8, ReadForReplaceDoes
<1>9. CASE ReplaceFile(c) \/ ChooseKey(c)
  BY <1>2, <1>9, ReplaceFileDoes, ChooseKeyDoes DEF Replaced
<1>10. CASE DeleteCompanyDocument(c) \/ DeleteEmployeeDocument(c)
  <2>1. call[c].op \in {"deleteCompany", "deleteEmployee"}
    BY <1>10 DEF DeleteCompanyDocument, DeleteEmployeeDocument, At
  <2> QED BY <1>1, <1>2, <1>10, <2>1, LoadForDeleteDoes DEF DeleteCompanyDocument, DeleteEmployeeDocument, DocPlace
<1>11. CASE \/ DeleteCompanyDocumentRecord(c) \/ DeleteEmployeeDocumentRecord(c) \/ WriteBack(c)
            \/ InsertCompanyFile(c) \/ Saved(c) \/ DocFail(c)
  BY <1>1, <1>11, DropDoes, WriteBackTypes, InsertCompanyFileTypes, SavedTypes, DocFailTypes
     DEF DeleteCompanyDocumentRecord, DeleteEmployeeDocumentRecord
<1>12. CASE InsertMetadata(c)
  BY <1>2, <1>12, InsertMetadataTypes DEF InsertMetadata, At, DocPlace
<1>13. CASE ListTaskList(c)
  <2>1. ASSUME NEW key, NEW ptr, NEW by, Now(c, "onboarding", "list", key, 0, ptr, by, CompanySteps)
        PROVE  FALSE
    BY <1>2, <2>1, StepsOfOnboarding
  <2>2. ASSUME DocPlace(c, "list"), call[c].left = {} PROVE FALSE
    <3>1. call[c].op = "onboarding"
      BY <1>13, Zenon DEF ListTaskList, At
    <3> QED BY <1>2, <2>2, <3>1 DEF DocPlace
  <2> QED BY <1>13, <2>1, <2>2, ListTaskDoes
<1>14. CASE ListSigned(c)
  <2>1. ASSUME DocPlace(c, "run"), call[c].left \cap SignedSteps = {} PROVE FALSE
    <3>1. call[c].op = "onboarding" /\ "pointSigned" \notin call[c].left
      BY <1>14, <2>1, StepsOfOnboarding, Zenon DEF ListSigned, At
    <3> QED BY <1>2, <2>1, <3>1 DEF DocPlace
  <2>2. ASSUME NEW r \in Row(SignedRow),
               Now(c, "onboarding", "run", call[c].key, call[c].row, r.ptr, call[c].by,
                     call[c].left \cup SignedSteps)
        PROVE  Holder(k, x)
    <3>1. r \in rows /\ r.id = SignedRow
      BY DEF Row
    <3>2. k = r.ptr /\ x = r.id
      BY <1>0, <2>2, <3>1 DEF Now
    <3> QED BY <3>1, <3>2, RowIds
  <2> QED BY <1>14, <2>1, <2>2, ListSignedDoes
<1>15. CASE RowForEmployee(c)
  <2>1. call[c].op = "onboarding"
    BY <1>15 DEF RowForEmployee, Ready
  <2>2. Now(c, "onboarding", call[c].pc, call[c].key, ids + 1, call[c].ptr, call[c].by, call[c].left \ {"row"})
    BY <1>15, EmployeeRowDoes
  <2>3. Holds(c, k, x)
    BY <1>0, <2>1, <2>2 DEF Now, Holds
  <2> QED BY <2>3 DEF Holder
<1>16. CASE CopyCompany(c) \/ CopySigned(c) \/ DeleteSigned(c) \/ PointSigned(c) \/ OneFails(c)
  <2>1. call[c].op = "onboarding" /\ \E steps : Finish(c, steps)
    BY <1>16 DEF CopyCompany, CopySigned, CopyStep, DeleteSigned, PointSigned, OneFails, Ready
  <2> QED BY <2>1, FinishHolds
<1> QED BY <1>5, <1>6, <1>7, <1>8, <1>9, <1>10, <1>11, <1>12, <1>13, <1>14, <1>15, <1>16 DEF DocCallStep

\* A row has a key that was a row's, or that the save of an upload brings.
LEMMA CallGives ==
  ASSUME DocTypes, OriginInv, NEW c \in Calls, DocCallStep(c), NEW r \in rows',
         IsUrl(r.ptr[1]), r.ptr[2] = 0, r.ptr[3] = 0
  PROVE  Holder(r.ptr, r.id) \/ ((UpdatePointer(c) \/ InsertUploaded(c)) /\ r.ptr = call[c].key)
<1>0. \A s \in rows : Holder(s.ptr, s.id)
  BY RowIds
<1>1. CASE InsertUploaded(c) \/ InsertCompanyFile(c)
  <2>1. \E owner, by : Insert(owner, call[c].key, by)
    BY <1>1 DEF InsertUploaded, InsertCompanyFile
  <2>2. r \in rows \/ r.ptr = call[c].key
    BY <2>1, InsertRow
  <2>3. InsertCompanyFile(c) => Plain(call[c].key)
    BY OriginOf DEF InsertCompanyFile, At, CallOrigin
  <2> QED BY <1>0, <1>1, <2>2, <2>3 DEF Plain, Service
<1>2. CASE RowForEmployee(c)
  <2>1. Insert("onboarding", EmployeeKey, 0)
    BY <1>2 DEF RowForEmployee
  <2>2. r \in rows \/ r.ptr = EmployeeKey
    BY <2>1, InsertRow
  <2>3. ~ IsUrl(EmployeeKey[1])
    BY EmployeeKeyIs
  <2> QED BY <1>0, <2>2, <2>3
<1>3. CASE UpdatePointer(c)
  <2>1. (r.ptr = call[c].key /\ r.id = call[c].row) \/ Holder(r.ptr, r.id)
    BY <1>3, UpdatePointerTypes, PointedHolders
  <2> QED BY <1>3, <2>1
<1>4. CASE WriteBack(c)
  <2>1. (r.ptr = call[c].ptr /\ r.id = call[c].row) \/ Holder(r.ptr, r.id)
    BY <1>4, WriteBackTypes, PointedHolders
  <2>2. \/ call[c].op = "edit" /\ call[c].pc = "write"
        \/ call[c].op = "replace" /\ call[c].pc = "write"
    BY <1>4 DEF WriteBack
  <2>3. call[c].op = "replace" /\ call[c].pc = "write" => ~ IsUrl(call[c].ptr[1])
    BY OriginOf DEF CallOrigin, Plain, Service
  <2>4. call[c].op = "edit" /\ call[c].pc = "write" => Holder(call[c].ptr, call[c].row)
    BY DEF Holder, Holds
  <2> QED BY <2>1, <2>2, <2>3, <2>4
<1>5. CASE PointSigned(c)
  <2>1. (r.ptr = MovedTo(call[c].ptr) /\ r.id = SignedRow) \/ Holder(r.ptr, r.id)
    BY <1>5, PointSignedTypes, PointedHolders
  <2>2. MovedTo(call[c].ptr)[2] # 0
    BY DocLocalType, SameNames DEF DocLocals
  <2> QED BY <2>1, <2>2
<1>6. CASE rows' \subseteq rows
  BY <1>0, <1>6
<1>7. \/ rows' \subseteq rows \/ UNCHANGED rows
      \/ InsertUploaded(c) \/ InsertCompanyFile(c) \/ RowForEmployee(c) \/ UpdatePointer(c)
      \/ WriteBack(c) \/ PointSigned(c)
  <2>1. CASE DeleteCompanyDocumentRecord(c) \/ DeleteEmployeeDocumentRecord(c)
    BY <2>1 DEF DeleteCompanyDocumentRecord, DeleteEmployeeDocumentRecord, DropRow
  <2> QED BY <2>1, RowsUntouched DEF DocCallStep
<1> QED BY <1>1, <1>2, <1>3, <1>4, <1>5, <1>6, <1>7

\* A key that is taken now was, or is given by the save of an upload.
LEMMA TakenFrom ==
  ASSUME DocTypes, DocTypes', OriginInv, NEW c \in Calls, DocCallStep(c), NEW k \in FileKeys,
         IsUrl(k[1]), k[2] = 0, k[3] = 0, Taken(k)'
  PROVE  Taken(k) \/ ((UpdatePointer(c) \/ InsertUploaded(c)) /\ k = call[c].key)
<1>1. CASE k \in removals'
  <2>1. CASE k \in removals
    BY <2>1 DEF Taken
  <2>2. CASE k \notin removals
    BY <1>1, <2>2, CallRemoves DEF Taken
  <2> QED BY <2>1, <2>2
<1>2. ASSUME NEW x \in 1 .. MaxRows, NEW r \in rows', r.ptr = k, r.id = x
      PROVE  Taken(k) \/ ((UpdatePointer(c) \/ InsertUploaded(c)) /\ k = call[c].key)
  BY <1>2, CallGives DEF Taken
<1>3. ASSUME NEW x \in 1 .. MaxRows, NEW d \in Calls, Holds(d, k, x)'
      PROVE  Taken(k)
  <2>1. CASE d = c
    BY <1>3, <2>1, CallHolds DEF Taken
  <2>2. CASE d # c
    <3>1. call'[d] = call[d]
      BY <2>2, CallSaves DEF SavesFrom, DocSteps
    <3>2. Holds(d, k, x)
      BY <1>3, <3>1 DEF Holds, SignedRow
    <3> QED BY <3>2 DEF Taken, Holder
  <2> QED BY <2>1, <2>2
<1>4. CASE \E x \in 1 .. MaxRows : Holder(k, x)'
  BY <1>2, <1>3, <1>4 DEF Holder
<1> QED BY <1>1, <1>4 DEF Taken

\* The last upload that replaces a row.
LEMMA LatestUpload ==
  ASSUME DocTypes, NEW i \in 1 .. MaxRows, NEW u, u = latest[i], u # 0
  PROVE  /\ u \in used /\ u \in Uploads /\ url[u] # None /\ url[u].row = i
         /\ url[u].key \in FileKeys /\ IsUrl(url[u].key[1])
         /\ url[u].key[2] = 0 /\ url[u].key[3] = 0 /\ url[u].key = FileKey(url[u].key[1])
<1>1. u \in used /\ url[u].row = i
  BY DEF DocTypes, DocStore
<1>2. u \in Uploads /\ url[u] # None
  BY <1>1 DEF DocTypes, DocStore
<1> QED BY <1>1, <1>2, UrlIsPlain DEF IsUrl

LEMMA SameUpload ==
  ASSUME DocTypes, OriginInv, NEW u \in Uploads, url[u] # None, NEW v \in used,
         url[v].key[1] = url[u].key[1], ~ Had("sameKey", url[u].key)
  PROVE  v = u
<1>1. v \in Uploads /\ url[v] # None
  BY DEF DocTypes, DocStore
<1>2. url[v].key = url[u].key
  BY <1>1, UrlIsPlain
<1> QED BY <1>1, <1>2 DEF OriginInv, UrlsApart

\* A function that saves a file of the last upload has read what its URL says.
LEMMA SaveOf ==
  ASSUME DocTypes, OriginInv, NEW c \in Calls, call[c].op = "save", call[c].pc # "head",
         NEW u \in Uploads, url[u] # None, call[c].key[1] = url[u].key[1], ~ Had("sameKey", url[u].key)
  PROVE  /\ call[c].by = u /\ call[c].row = url[u].row /\ SaveOwner(call[c].pc) = url[u].owner
         /\ call[c].pc \in {"meta", "file", "companyFile"} <=> call[c].row = 0
<1>1. SaveOrigin(call[c])
  BY OriginOf DEF CallOrigin
<1>2. Origin(call[c].key, SaveOwner(call[c].pc), call[c].row, call[c].by)
  BY <1>1 DEF SaveOrigin
<1>3. ~ Service(call[c].key)
  BY DEF Service, IsUrl
<1>4. /\ call[c].by \in used /\ url[call[c].by].key[1] = call[c].key[1]
      /\ SaveOwner(call[c].pc) = url[call[c].by].owner /\ call[c].row = url[call[c].by].row
  BY <1>2, <1>3 DEF Origin
<1>5. call[c].by = u
  BY <1>4, SameUpload
<1> QED BY <1>1, <1>4, <1>5 DEF SaveOrigin

\* The pointer of the row that the last upload replaces is written.
LEMMA UpdateShows ==
  ASSUME DocTypes, OriginInv, NEW c \in Calls, UpdatePointer(c), NEW i \in 1 .. MaxRows,
         call[c].row = i, InOrder(i), ~ Had("reordered", i), NEW u, u = latest[i], u # 0
  PROVE  call[c].key[1] = url[u].key[1]
<1>1. call[c].op = "save" /\ call[c].pc = "point"
  BY DEF UpdatePointer, At
<1>2. call[c].by = u
  BY <1>1 DEF InOrder
<1>3. SaveOrigin(call[c])
  BY <1>1, OriginOf DEF CallOrigin
<1>4. Origin(call[c].key, "employee", i, u)
  BY <1>1, <1>2, <1>3 DEF SaveOrigin, SaveOwner
<1> QED BY <1>4 DEF Origin

\* The object of an upload stays until its key is taken.
LEMMA ObjectStays ==
  ASSUME DocTypes, OriginInv, DocNext, NEW u \in used, NEW k, k = url[u].key, ~ Taken(k),
         ~ Had("sameKey", k), NEW o \in Object(k)
  PROVE  o \in stored'
<1>0. /\ o \in stored /\ o[1] = k /\ u \in Uploads /\ url[u] # None /\ k \in FileKeys
      /\ k[2] = 0 /\ k[3] = 0 /\ IsUrl(k[1])
  <2>1. u \in Uploads /\ url[u] # None
    BY DEF DocTypes, DocStore
  <2> QED BY <2>1, UrlIsPlain DEF Object, IsUrl
<1>1. ASSUME NEW key, NEW meta, Put(key, meta), key # k PROVE o \in stored'
  BY <1>0, <1>1 DEF Put, Object
<1>2. CASE ObjectLands
  <2>1. PICK key \in uploads : Put(key, Silent)
    BY <1>2 DEF ObjectLands
  <2>2. ~ IsUrl(key[1])
    BY <2>1 DEF OriginInv, Plain, Service
  <2> QED BY <1>0, <1>1, <2>1, <2>2
<1>3. CASE RemovalLands
  <2>1. PICK key \in removals : stored' = stored \ Object(key)
    BY <1>3 DEF RemovalLands
  <2> QED BY <1>0, <2>1 DEF Object, Taken
<1>4. CASE PutObject
  <2>1. PICK v \in Uploads \ used :
          url[v] # None /\ Put(url[v].key, [owner |-> url[v].owner, row |-> url[v].row, by |-> v])
    BY <1>4, PutDoes
  <2>2. url[v].key # k
    BY <1>0, <2>1 DEF OriginInv, UrlsApart
  <2> QED BY <1>1, <2>1, <2>2
<1>5. CASE PatchCopies
  <2>1. PICK p \in stored : Put(PatchedTo(p[1]), p[2])
    BY <1>5 DEF PatchCopies, CopyTo
  <2>2. PatchedTo(p[1])[3] # 0
    BY <2>1, SameNames DEF DocTypes, DocStore, StoredTyped
  <2> QED BY <1>0, <1>1, <2>1, <2>2
<1>6. ASSUME NEW c \in Calls, CopyCompany(c) PROVE o \in stored'
  <2>1. (\E meta : Put(EmployeeKey, meta)) \/ UNCHANGED stored
    BY <1>6 DEF CopyCompany, CopyStep, CopyTo
  <2>2. EmployeeKey # k
    BY <1>0, EmployeeKeyIs
  <2> QED BY <1>0, <1>1, <2>1, <2>2
<1>7. ASSUME NEW c \in Calls, CopySigned(c) PROVE o \in stored'
  <2>1. (\E meta : Put(MovedTo(call[c].ptr), meta)) \/ UNCHANGED stored
    BY <1>7 DEF CopySigned, CopyStep, CopyTo
  <2>2. MovedTo(call[c].ptr)[2] # 0
    BY DocLocalType, SameNames DEF DocLocals
  <2> QED BY <1>0, <1>1, <2>1, <2>2
<1>8. ASSUME NEW c \in Calls, DeleteSigned(c) PROVE o \in stored'
  <2>1. k # call[c].ptr
    BY <1>8, TakenByRemoval
  <2>2. stored' = stored \ Object(call[c].ptr)
    BY <1>8 DEF DeleteSigned
  <2> QED BY <1>0, <2>1, <2>2 DEF Object
<1>9. CASE GenerateUrl \/ ObjectLost
  <2>1. UNCHANGED stored
    BY <1>9, Zenon DEF GenerateUrl, ObjectLost
  <2> QED BY <1>0, <2>1
<1>10. ASSUME NEW c \in Calls, DocCallStep(c), ~ (CopyCompany(c) \/ CopySigned(c) \/ DeleteSigned(c))
       PROVE  o \in stored'
  <2>1. UNCHANGED stored
    BY <1>10, Zenon DEF DocCallStep, Deliver, HeadObject, CreateEsignatureMetadata, InsertUploaded, LoadCurrent,
      UpdatePointer, Request, ReadForEdit, WriteBack, ReadForReplace, ReplaceFile, DeleteCompanyDocument,
      DeleteEmployeeDocument, LoadForDelete, DeleteCompanyDocumentRecord, DeleteEmployeeDocumentRecord, DropRow,
      CreateCompanyDocument, ChooseKey, InsertMetadata, InsertCompanyFile, SaveOnboarding, ListTaskList,
      ListSigned, RowForEmployee, PointSigned, OneFails, Saved, DocFail
  <2> QED BY <1>0, <2>1
<1> QED BY <1>2, <1>3, <1>4, <1>5, <1>6, <1>7, <1>8, <1>9, <1>10 DEF DocNext

LEMMA SaveSteps ==
  ASSUME DocTypes, NEW c \in Calls, DocCallStep(c), call[c].op = "save"
  PROVE  \/ HeadObject(c) \/ CreateEsignatureMetadata(c) \/ InsertUploaded(c) \/ LoadCurrent(c)
         \/ UpdatePointer(c) \/ DocFail(c)
<1>1. ~ (Deliver(c) \/ Request(c) \/ CreateCompanyDocument(c) \/ SaveOnboarding(c))
  <2>1. call[c].pc # "idle"
    BY DocLocalType, DocOperates
  <2>2. \A l : ~ DocStart(c, l)
    BY <2>1 DEF DocStart, First
  <2>3. ~ Deliver(c)
    BY <2>2, Zenon DEF Deliver
  <2>4. ~ (Request(c) \/ CreateCompanyDocument(c) \/ SaveOnboarding(c))
    BY <2>2, Zenon DEF Request, StartOn, CreateCompanyDocument, SaveOnboarding
  <2> QED BY <2>3, <2>4
<1>2. ~ (ReadForEdit(c) \/ WriteBack(c) \/ ReadForReplace(c) \/ ReplaceFile(c))
  BY DEF ReadForEdit, WriteBack, ReadForReplace, ReplaceFile, At
<1>3. ~ \/ DeleteCompanyDocument(c) \/ DeleteCompanyDocumentRecord(c)
        \/ DeleteEmployeeDocument(c) \/ DeleteEmployeeDocumentRecord(c)
  BY DEF DeleteCompanyDocument, DeleteEmployeeDocument, DeleteCompanyDocumentRecord,
         DeleteEmployeeDocumentRecord, DropRow, At
<1>4. ~ (ChooseKey(c) \/ InsertMetadata(c) \/ InsertCompanyFile(c))
  BY DEF ChooseKey, InsertMetadata, InsertCompanyFile, At
<1>5. ~ (ListTaskList(c) \/ ListSigned(c) \/ Saved(c))
  BY Zenon DEF ListTaskList, ListSigned, Saved, At
<1>6. ~ \/ RowForEmployee(c) \/ CopyCompany(c) \/ CopySigned(c) \/ DeleteSigned(c) \/ PointSigned(c)
        \/ OneFails(c)
  BY Zenon DEF RowForEmployee, CopyCompany, CopySigned, CopyStep, DeleteSigned, PointSigned, OneFails, Ready
<1> QED BY <1>1, <1>2, <1>3, <1>4, <1>5, <1>6 DEF DocCallStep

LEMMA EventsStay ==
  ASSUME NEW c \in Calls, DocCallStep(c), ~ Deliver(c)
  PROVE  raised \subseteq raised'
<1>1. CASE CopyCompany(c) \/ CopySigned(c)
  <2>1. (\E to, o : CopyTo(to, o)) \/ UNCHANGED raised
    BY <1>1 DEF CopyCompany, CopySigned, CopyStep
  <2> QED BY <2>1 DEF CopyTo
<1>2. CASE ~ (CopyCompany(c) \/ CopySigned(c))
  <2>1. UNCHANGED raised
    BY <1>2, Zenon DEF DocCallStep, HeadObject, CreateEsignatureMetadata, InsertUploaded, LoadCurrent,
      UpdatePointer, Request, ReadForEdit, WriteBack, ReadForReplace, ReplaceFile, DeleteCompanyDocument,
      DeleteEmployeeDocument, LoadForDelete, DeleteCompanyDocumentRecord, DeleteEmployeeDocumentRecord, DropRow,
      CreateCompanyDocument, ChooseKey, InsertMetadata, InsertCompanyFile, SaveOnboarding, ListTaskList,
      ListSigned, RowForEmployee, DeleteSigned, PointSigned, OneFails, Saved, DocFail
  <2> QED BY <2>1
<1> QED BY <1>1, <1>2

\* An event of the last upload, or the function that saves it, leads to its row.
LEMMA UnderWayStays ==
  ASSUME DocTypes, OriginInv, NEW c \in Calls, DocCallStep(c), NEW i \in 1 .. MaxRows, Row(i) # {},
         NEW u, u = latest[i], u # 0, url[u].owner # "company", NEW k, k = url[u].key,
         ~ Had("sameKey", k), <<"unsaved", k>> \notin happened', NEW o \in Object(k), o[2].by = u,
         \/ \E e \in raised : e.key = k
         \/ \E d \in Calls : call[d].op = "save" /\ call[d].key = k,
         ~ (UpdatePointer(c) /\ call[c].row = i)
  PROVE  \/ \E e \in raised' : e.key = k
         \/ \E d \in Calls : call'[d].op = "save" /\ call'[d].key = k
<1>0. /\ u \in used /\ u \in Uploads /\ url[u] # None /\ url[u].row = i /\ IsUrl(k[1])
      /\ url[u].owner \in {"employee", "company"}
  BY LatestUpload, UrlIsPlain
<1>1. ASSUME NEW e \in raised, e.key = k
      PROVE  \/ \E f \in raised' : f.key = k
             \/ call'[c].op = "save" /\ call'[c].key = k
  <2>1. CASE ~ Deliver(c)
    BY <1>1, <2>1, EventsStay
  <2>2. CASE Deliver(c)
    <3>1. PICK f \in raised : /\ Starts(c, "save", "head", f.key, 0)
                              /\ raised' = raised \ {f} \/ raised' = raised
      BY <2>2, DeliverDoes
    <3>2. CASE f = e
      BY <1>1, <3>1, <3>2 DEF Starts, Now
    <3> QED BY <1>1, <3>1, <3>2
  <2> QED BY <2>1, <2>2
<1>2. ASSUME NEW d \in Calls \ {c}, call[d].op = "save", call[d].key = k
      PROVE  call'[d].op = "save" /\ call'[d].key = k
  BY <1>2, CallSaves DEF SavesFrom, DocSteps
<1>3. ASSUME call[c].op = "save", call[c].key = k
      PROVE  call'[c].op = "save" /\ call'[c].key = k
  <2>1. call[c].pc # "head" =>
          /\ call[c].row = i /\ SaveOwner(call[c].pc) = url[u].owner
          /\ call[c].pc \in {"meta", "file", "companyFile"} <=> call[c].row = 0
    BY <1>0, <1>3, SaveOf
  <2>2. CASE HeadObject(c)
    <3>1. \A p \in Object(k) : p = o
      BY ObjectKeys DEF DocTypes, DocStore, StoredTyped
    <3>2. Origin(k, o[2].owner, o[2].row, u)
      BY ObjectKeys DEF OriginInv
    <3>3. o[2].owner = url[u].owner
      BY <1>0, <3>2 DEF Origin, Service
    <3>4. Handled(o[2])
      BY <1>0, <3>3 DEF Handled
    <3>5. \E p \in Object(k) : Now(c, "save", NextStep(p[2]), k, p[2].row, call[c].ptr, p[2].by, {})
      BY <1>3, <2>2, <3>4, HeadDoes
    <3> QED BY <3>5 DEF Now
  <2>3. ~ CreateEsignatureMetadata(c)
    <3>1. call[c].pc # "meta"
      BY <2>1 DEF SaveOwner
    <3> QED BY <3>1 DEF CreateEsignatureMetadata, At
  <2>4. ~ InsertUploaded(c)
    <3>1. call[c].pc \notin {"file", "companyFile"}
      BY <2>1
    <3> QED BY <3>1 DEF InsertUploaded
  <2>5. CASE LoadCurrent(c)
    <3>1. call[c].pc = "current"
      BY <2>5 DEF LoadCurrent, At
    <3>2. DocPlace(c, "point")
      BY <2>1, <2>5, <3>1, LoadCurrentDoes
    <3> QED BY <1>3, <3>2 DEF DocPlace, Now
  <2>6. ~ UpdatePointer(c)
    <3>1. UpdatePointer(c) => call[c].pc = "point"
      BY DEF UpdatePointer, At
    <3> QED BY <2>1, <3>1
  <2>7. ~ DocFail(c)
    BY <1>3 DEF DocFail
  <2> QED BY <1>3, <2>2, <2>3, <2>4, <2>5, <2>6, <2>7, SaveSteps
<1> QED BY <1>1, <1>2, <1>3

LEMMA TakenNot ==
  ASSUME DocTypes, DocTypes', OriginInv, NEW c \in Calls, DocCallStep(c), NEW i \in 1 .. MaxRows,
         NEW u, u = latest[i], u # 0, NEW k, k = url[u].key, ~ Had("sameKey", k), ~ Taken(k),
         ~ (UpdatePointer(c) /\ call[c].row = i)
  PROVE  ~ Taken(k)'
<1> SUFFICES ASSUME Taken(k)' PROVE FALSE
  OBVIOUS
<1>0. /\ u \in Uploads /\ url[u] # None /\ url[u].row = i /\ IsUrl(k[1])
      /\ k \in FileKeys /\ k[2] = 0 /\ k[3] = 0
  BY LatestUpload
<1>1. (UpdatePointer(c) \/ InsertUploaded(c)) /\ k = call[c].key
  BY <1>0, TakenFrom
<1>2. call[c].op = "save" /\ call[c].pc \in {"point", "file", "companyFile"}
  BY <1>1 DEF UpdatePointer, InsertUploaded, At
<1>3. /\ call[c].row = i
      /\ call[c].pc \in {"meta", "file", "companyFile"} <=> call[c].row = 0
  <2>1. call[c].pc # "head" /\ call[c].key[1] = url[u].key[1]
    BY <1>1, <1>2
  <2> QED BY <1>0, <1>2, <2>1, SaveOf
<1>4. InsertUploaded(c) => call[c].pc \in {"file", "companyFile"}
  BY DEF InsertUploaded
<1> QED BY <1>1, <1>3, <1>4

LEMMA CallShows ==
  ASSUME DocTypes, DocTypes', OriginInv, ReadInv, LatestInv, NEW c \in Calls, DocCallStep(c), NEW r \in rows'
  PROVE  LatestOf(r)'
<1> PICK i, u : i = r.id /\ u = latest[i]
  OBVIOUS
<1> PICK k : k = url[u].key
  OBVIOUS
<1>0. UNCHANGED <<url, latest>> /\ happened \subseteq happened'
  BY CallLater DEF browser, Later
<1> SUFFICES ASSUME u # 0, url[u].owner # "company", <<"reordered", i>> \notin happened',
                    <<"beside", i>> \notin happened', <<"unsaved", k>> \notin happened',
                    <<"sameKey", k>> \notin happened'
             PROVE  Follows(r, u)'
  BY <1>0 DEF LatestOf, Disordered, Had
<1>1. ~ Had("reordered", i) /\ ~ Had("beside", i) /\ ~ Had("unsaved", k) /\ ~ Had("sameKey", k)
  BY <1>0 DEF Had
<1>2. i \in 1 .. MaxRows
  BY DEF DocTypes, DocStore, RowsTyped, FileRecords
<1>3. u \in used /\ u \in Uploads /\ url[u] # None /\ url[u].row = i
  BY <1>2, LatestUpload
<1>4. i <= ids
  BY <1>3, UrlIsPlain
<1>5. \/ \E s \in rows : s.id = i /\ s.ptr = r.ptr
      \/ UpdatePointer(c) /\ call[c].row = i /\ call[c].key = r.ptr
      \/ WriteBack(c) /\ call[c].op = "replace" /\ call[c].row = i
      \/ PointSigned(c) /\ r.ptr = MovedTo(call[c].ptr) /\ \E s \in rows : s.id = i /\ s.ptr = call[c].ptr
  BY <1>1, <1>4, CallPoints DEF Row
<1>6. PICK s \in rows : s.id = i
  <2>1. UpdatePointer(c) \/ WriteBack(c) => \E s \in rows : s.id = i
    BY UpdatePointerTypes, WriteBackTypes DEF Pointed
  <2> QED BY <1>5, <2>1
<1>7. s \in Row(i) /\ \A q \in rows : q.id = i => q = s
  BY <1>6 DEF Row, DocTypes, DocStore, RowsTyped
<1>8. Follows(s, u)
  BY <1>1, <1>6 DEF LatestInv, LatestOf, Disordered
<1>9. ~ (WriteBack(c) /\ call[c].op = "replace" /\ call[c].row = i)
  <2>1. ASSUME call[c].op = "replace", call[c].row = i PROVE s.owner = "company"
    BY <1>7, <2>1, DocLocalType DEF DocCallType
  <2>2. UrlType(u)
    BY <1>3 DEF DocTypes, DocStore
  <2>3. (s.owner = "company") = (url[u].owner = "company")
    BY <1>2, <1>3, <1>7, <2>2 DEF UrlType
  <2> QED BY <2>1, <2>3
<1>10. CASE UpdatePointer(c) /\ call[c].row = i
  <2>1. r.ptr = call[c].key
    BY <1>10, UpdatePointerTypes DEF Pointed
  <2>2. r.ptr[1] = k[1]
    BY <1>1, <1>2, <1>10, <2>1, UpdateShows DEF LatestInv
  <2> QED BY <1>0, <2>2 DEF Follows
<1>11. CASE ~ (UpdatePointer(c) /\ call[c].row = i)
  <2>1. r.ptr[1] = s.ptr[1]
    <3>1. \A q \in FileKeys : MovedTo(q)[1] = q[1]
      BY SameNames
    <3>2. call[c].ptr \in FileKeys
      BY DocLocalType DEF DocLocals
    <3> QED BY <1>5, <1>7, <1>9, <1>11, <3>1, <3>2
  <2>2. CASE s.ptr[1] = k[1]
    BY <1>0, <2>1, <2>2 DEF Follows
  <2>3. CASE s.ptr[1] # k[1]
    <3>1. /\ ~ Taken(k)
          /\ \/ \E e \in raised : e.key = k
             \/ \E d \in Calls : call[d].op = "save" /\ call[d].key = k
      BY <1>8, <2>3 DEF Follows
    <3>2. PICK o \in Object(k) : o[2].by = u
      BY <1>8, <2>3 DEF Follows
    <3>3. \/ \E e \in raised' : e.key = k
          \/ \E d \in Calls : call'[d].op = "save" /\ call'[d].key = k
      BY <1>1, <1>2, <1>7, <1>11, <3>1, <3>2, UnderWayStays
    <3>4. ~ Taken(k)'
      BY <1>1, <1>2, <1>11, <3>1, TakenNot
    <3>5. o \in stored'
      BY <1>1, <1>3, <3>1, ObjectStays DEF DocNext
    <3>6. o[1] = k
      BY DEF Object
    <3> QED BY <1>0, <3>2, <3>3, <3>4, <3>5, <3>6 DEF Follows, Object
  <2> QED BY <2>2, <2>3
<1> QED BY <1>10, <1>11

LEMMA BesidesShow ==
  ASSUME DocTypes, DocTypes', OriginInv, LatestInv, NEW r \in rows',
         GenerateUrl \/ PutObject \/ ObjectLands \/ ObjectLost \/ RemovalLands \/ PatchCopies
  PROVE  LatestOf(r)'
<1>0. /\ UNCHANGED <<rows, call>> /\ removals' \subseteq removals /\ raised \subseteq raised'
  <2>1. UNCHANGED <<rows, call>>
    BY DEF GenerateUrl, PutObject, ObjectLands, ObjectLost, RemovalLands, PatchCopies, fileRows
  <2>2. removals' \subseteq removals
    BY DEF GenerateUrl, PutObject, ObjectLands, ObjectLost, RemovalLands, PatchCopies, unawaited
  <2>3. raised \subseteq raised'
    BY DEF GenerateUrl, PutObject, ObjectLands, ObjectLost, RemovalLands, PatchCopies, CopyTo
  <2> QED BY <2>1, <2>2, <2>3
<1>1. Later
  BY BesidesLater
<1>2. \A x : Taken(x)' => Taken(x)
  BY <1>0 DEF Taken, Holder, Holds, SignedRow
<1> PICK i : i = r.id
  OBVIOUS
<1>3. i \in 1 .. MaxRows
  BY <1>0, RowIds
<1>4. CASE latest'[i] = latest[i]
  <2> PICK u : u = latest[i]
    OBVIOUS
  <2> PICK k : k = url[u].key
    OBVIOUS
  <2> SUFFICES ASSUME u # 0 PROVE LatestOf(r)'
    BY <1>4 DEF LatestOf
  <2>1. u \in used /\ u \in Uploads /\ url[u] # None
    BY <1>3, LatestUpload
  <2>2. url'[u] = url[u] /\ happened \subseteq happened'
    BY <1>1, <2>1 DEF Later
  <2> SUFFICES ASSUME url[u].owner # "company", ~ Disordered(i, k)
               PROVE  Follows(r, u)'
    BY <1>4, <2>2 DEF LatestOf, Disordered, Had
  <2>3. Follows(r, u)
    BY <1>0 DEF LatestInv, LatestOf
  <2>4. CASE r.ptr[1] = k[1]
    BY <2>2, <2>4 DEF Follows
  <2>5. CASE r.ptr[1] # k[1]
    <3>1. /\ ~ Taken(k)
          /\ \/ \E e \in raised : e.key = k
             \/ \E d \in Calls : call[d].op = "save" /\ call[d].key = k
      BY <2>3, <2>5 DEF Follows
    <3>2. PICK o \in Object(k) : o[2].by = u
      BY <2>3, <2>5 DEF Follows
    <3>3. o \in stored' /\ o[1] = k
      BY <2>1, <3>1, ObjectStays DEF DocNext, Disordered, Object
    <3> QED BY <1>0, <1>2, <2>2, <3>1, <3>2, <3>3 DEF Follows, Object
  <2> QED BY <2>4, <2>5
<1>5. CASE latest'[i] # latest[i]
  <2>1. PutObject
    BY <1>5 DEF GenerateUrl, ObjectLands, ObjectLost, RemovalLands, PatchCopies, browser
  <2>2. PICK u \in Uploads \ used :
          /\ url[u] # None
          /\ Put(url[u].key, [owner |-> url[u].owner, row |-> url[u].row, by |-> u])
          /\ raised' = raised \cup {[key |-> url[u].key, by |-> u]}
          /\ \A j \in 1 .. MaxRows : latest'[j] = IF url[u].row = j THEN u ELSE latest[j]
    BY <2>1, PutDoes
  <2> PICK k : k = url[u].key
    OBVIOUS
  <2>3. latest'[i] = u /\ url'[u] = url[u] /\ happened \subseteq happened'
    BY <1>1, <1>3, <1>5, <2>2 DEF Later
  <2> SUFFICES ASSUME ~ Had("sameKey", k) PROVE Follows(r, u)'
    BY <2>3 DEF LatestOf, Disordered, Had
  <2>4. k \in FileKeys /\ k[2] = 0 /\ k[3] = 0 /\ IsUrl(k[1])
    BY <2>2, UrlIsPlain DEF IsUrl
  <2>5. ~ Taken(k)
    <3>1. SUFFICES ASSUME Known(k) PROVE FALSE
      BY TakenKnown
    <3>2. PICK v \in used : url[v].key = k
      BY <2>4, <3>1 DEF Known, Service, Intro
    <3>3. v \in Uploads /\ url[v] # None /\ v # u
      BY <2>2 DEF DocTypes, DocStore
    <3> QED BY <2>2, <3>2, <3>3 DEF OriginInv, UrlsApart
  <2>6. \E o \in stored' : o[1] = k /\ o[2].by = u
    <3>1. PICK meta : /\ meta = [owner |-> url[u].owner, row |-> url[u].row, by |-> u]
                      /\ Put(k, meta)
      BY <2>2
    <3>2. <<k, meta>> \in stored' /\ meta.by = u
      BY <3>1 DEF Put
    <3> QED BY <3>2
  <2>7. \E e \in raised' : e.key = k
    <3>1. PICK e : e = [key |-> k, by |-> u]
      OBVIOUS
    <3> QED BY <2>2, <3>1
  <2> QED BY <1>2, <2>3, <2>5, <2>6, <2>7 DEF Follows, Object
<1> QED BY <1>4, <1>5

LEMMA LatestKept ==
  ASSUME DocTypes, DocTypes', OriginInv, ReadInv, LatestInv, DocNext
  PROVE  LatestInv'
<1>1. \A i \in 1 .. MaxRows : InOrder(i)'
  BY OrdersKept DEF LatestInv
<1>2. \A r \in rows' : LatestOf(r)'
  BY CallShows, BesidesShow DEF DocNext
<1> QED BY <1>1, <1>2 DEF LatestInv

\* When no function runs, this is the property.
LEMMA LatestShown ==
  ASSUME DocTypes, OriginInv, LatestInv
  PROVE  ShowsLatest
<1> SUFFICES ASSUME AllEnded, NEW r \in rows, NEW u, u = latest[r.id], u # 0, url[u].owner # "company",
                    ~ Disordered(r.id, url[u].key), r.ptr[1] # url[u].key[1]
             PROVE  \E e \in raised : r.id \in RowsOf(e.key)
  BY DEF ShowsLatest, Disordered
<1>1. Follows(r, u)
  BY DEF LatestInv, LatestOf
<1>2. \A d \in Calls : call[d].op # "save"
  BY DocOperates DEF AllEnded, Active
<1>3. PICK e \in raised, o \in Object(url[u].key) : e.key = url[u].key /\ o[2].by = u
  BY <1>1, <1>2 DEF Follows
<1>4. o \in Object(e.key)
  BY <1>3
<1>5. r.id \in 1 .. MaxRows
  BY RowIds
<1>6. /\ u \in Uploads /\ url[u] # None /\ url[u].row = r.id /\ IsUrl(url[u].key[1])
  BY <1>5, LatestUpload
<1>7. Origin(url[u].key, o[2].owner, o[2].row, u)
  BY <1>3 DEF OriginInv, Object
<1>8. o[2].row = r.id
  BY <1>6, <1>7 DEF Origin, Service
<1> QED BY <1>4, <1>8 DEF RowsOf
-----------------------------------------------------------------------------
(* The invariant.                                                          *)

LEMMA DocInitOrigins == ASSUME DocInit PROVE OriginInv
<1>0. \A n : ~ IsUrl(n)
  BY DEF DocInit, IsUrl
<1>1. \A k \in FileKeys : k[1] \in {2, 3} => Service(k)
  BY <1>0 DEF DocInit, Service
<1>2. /\ CompanyName \in FileKeys /\ CompanyName[1] = 2 /\ SignedName \in FileKeys /\ SignedName[1] = 3
      /\ CompanyName[2] = 0 /\ CompanyName[3] = 0
  BY SmallKeys DEF CompanyName, SignedName, FileKey
<1>3. Service(CompanyName) /\ Service(SignedName)
  BY <1>1, <1>2
<1>4. UrlsApart
  BY DEF DocInit, UrlsApart
<1>5. \A o \in stored : Origin(o[1], o[2].owner, o[2].row, o[2].by)
  BY <1>3 DEF DocInit, Origin, Silent
<1>6. Pointer(CompanyRow, CompanyName) /\ Pointer(SignedRow, SignedName)
  BY <1>2, <1>3 DEF DocInit, Pointer, Known, CompanyRow, SignedRow
<1>7. \A r \in rows : RowOrigin(r)
  <2>1. ASSUME NEW r \in rows PROVE RowOrigin(r)
    <3>1. \/ r.id = CompanyRow /\ r.owner = "company" /\ r.ptr = CompanyName /\ r.by = 0
          \/ r.id = SignedRow /\ r.owner = "employee" /\ r.ptr = SignedName /\ r.by = 0
      BY <2>1 DEF DocInit
    <3> QED BY <1>2, <1>6, <3>1 DEF RowOrigin, CompanyRow, SignedRow
  <2> QED BY <2>1
<1>8. \A l \in CallsNow : l = DocIdle
  BY DEF DocInit, CallsNow
<1>9. CallOrigin(DocIdle)
  BY DocIdleType, DocOperates DEF CallOrigin
<1>10. raised = {} /\ uploads = {} /\ removals = {}
  BY DEF DocInit
<1> QED BY <1>4, <1>5, <1>7, <1>8, <1>9, <1>10 DEF OriginInv

LEMMA DocInitRest ==
  ASSUME DocInit
  PROVE  /\ KeyInv /\ UploadInv /\ BesideInv /\ ReadInv /\ BroughtInv /\ SignedInv /\ PointInv
         /\ LatestInv
<1>0. /\ raised = {} /\ uploads = {} /\ removals = {} /\ used = {} /\ happened = {}
      /\ \A c \in Calls : call[c].op = None
      /\ \A i \in 1 .. MaxRows : latest[i] = 0
  BY DocIdleType DEF DocInit
<1>1. /\ rows = {[id |-> CompanyRow, owner |-> "company", ptr |-> CompanyName, by |-> 0],
                 [id |-> SignedRow, owner |-> "employee", ptr |-> SignedName, by |-> 0]}
      /\ CompanyName # SignedName /\ CompanyName \in FileKeys /\ SignedName \in FileKeys
      /\ CompanyRow \in 1 .. MaxRows /\ SignedRow \in 1 .. MaxRows
  BY RowsAssumption, SmallKeys DEF DocInit, CompanyName, SignedName, FileKey, CompanyRow, SignedRow
<1>2. IsStored(CompanyName) /\ IsStored(SignedName)
  <2>1. ASSUME NEW key, NEW meta, <<key, meta>> \in stored PROVE IsStored(key)
    <3>1. <<key, meta>>[1] = key
      OBVIOUS
    <3> QED BY <2>1, <3>1 DEF IsStored, Object
  <2> QED BY <2>1 DEF DocInit
<1>3. \A c \in Calls : \A k, x : ~ Brings(c, k) /\ ~ Holds(c, k, x) /\ ~ Touches(c, x)
  BY <1>0, DocOperates DEF Brings, Holds, Touches, Active
<1>4. \A k : ~ Told(k)
  BY <1>0 DEF Told
<1>5. \A k, x, y : Holder(k, x) /\ Holder(k, y) => x = y
  BY <1>1, <1>3 DEF Holder
<1>6. KeyInv
  BY <1>0, <1>3, <1>4, <1>5 DEF KeyInv, KeyOk
<1>7. UploadInv /\ BesideInv /\ BroughtInv
  BY <1>0, <1>3 DEF UploadInv, BesideInv, BroughtInv, BringsNow
<1>8. ReadInv /\ SignedInv
  BY <1>0, DocOperates DEF ReadInv, ReadOk, SignedInv, SignedGone, SignedMoved, Moved
<1>9. PointInv
  <2>1. \A r \in rows : r.ptr = CompanyName \/ r.ptr = SignedName
    BY <1>1
  <2> QED BY <1>0, <1>2, <2>1 DEF PointInv, PlaceOk
<1>10. LatestInv
  <2>1. \A r \in rows : r.id \in 1 .. MaxRows
    BY <1>1
  <2>2. \A i \in 1 .. MaxRows : InOrder(i)
    BY <1>0, DocOperates DEF InOrder
  <2> QED BY <1>0, <2>1, <2>2 DEF LatestInv, LatestOf
<1> QED BY <1>6, <1>7, <1>8, <1>9, <1>10

DocInv ==
  /\ DocTypes /\ OriginInv /\ KeyInv /\ UploadInv /\ BesideInv /\ ReadInv /\ BroughtInv
  /\ SignedInv /\ PointInv /\ LatestInv

LEMMA DocInductive ==
  /\ DocInit => DocInv
  /\ DocInv /\ [DocNext]_docVars => DocInv'
<1>1. DocInit => DocInv
  BY DocInitTypes, DocInitOrigins, DocInitRest DEF DocInv
<1>2. ASSUME DocInv, DocNext PROVE DocInv'
  <2> USE <1>2 DEF DocInv
  <2>1. DocTypes'
    BY DocTypesKept
  <2>2. OriginInv' /\ KeyInv'
    BY <2>1, OriginsKept, KeysKept
  <2>3. UploadInv' /\ BesideInv'
    BY <2>1, <2>2, UploadsKept, BesidesKept
  <2>4. ReadInv' /\ BroughtInv' /\ SignedInv'
    BY <2>2, <2>3, ReadsKept, BroughtKept, SignedKept
  <2>5. PointInv' /\ LatestInv'
    BY <2>1, PointsKept, LatestKept
  <2> QED BY <2>1, <2>2, <2>3, <2>4, <2>5
<1>3. ASSUME DocInv, UNCHANGED docVars PROVE DocInv'
  <2> USE <1>3 DEF DocInv, docVars, browser, fileRows, unawaited
  <2>1. DocTypes'
    BY DEF DocTypes, DocStore, UrlType, StoredTyped, RowsTyped, DocCallType, Row, Planned
  <2>2. OriginInv'
    <3>1. \A k : (Service(k)' <=> Service(k)) /\ (Plain(k)' <=> Plain(k)) /\ (Intro(k)' <=> Intro(k))
      BY DEF Service, Plain, Intro, IsUrl, Had
    <3>2. \A x, k : Pointer(x, k)' <=> Pointer(x, k)
      BY <3>1 DEF Pointer, Known, Had, CompanyRow, SignedRow
    <3>3. \A k, owner, r, u : Origin(k, owner, r, u)' <=> Origin(k, owner, r, u)
      BY <3>1 DEF Origin, AtHome, Had
    <3>4. \A r : RowOrigin(r)' <=> RowOrigin(r)
      BY <3>2 DEF RowOrigin, CompanyRow, SignedRow
    <3>5. \A e : EventOrigin(e)' <=> EventOrigin(e)
      BY <3>1 DEF EventOrigin, Known
    <3>6. \A l : CallOrigin(l)' <=> CallOrigin(l)
      <4>1. \A l : SaveOrigin(l)' <=> SaveOrigin(l)
        BY <3>1, <3>3 DEF SaveOrigin, Known, SaveOwner
      <4>2. \A l : Pointer(SignedRow, l.ptr)' <=> Pointer(SignedRow, l.ptr)
        BY <3>2 DEF SignedRow
      <4> QED BY <3>1, <3>2, <4>1, <4>2 DEF CallOrigin, Had, MovedTo
    <3>7. UrlsApart' /\ CallsNow' = CallsNow
      BY DEF OriginInv, UrlsApart, CallsNow, Had
    <3> QED BY <3>1, <3>3, <3>4, <3>5, <3>6, <3>7 DEF OriginInv, Known
  <2>3. KeyInv' /\ UploadInv'
    BY DEF KeyInv, KeyOk, Repeated, Told, Brings, Holds, Holder, Taken, UploadInv, OnceOk, Announced, IsUrl, Had
  <2>4. BesideInv' /\ ReadInv'
    BY DEF BesideInv, Touches, Active, ReadInv, ReadOk, Row, Had
  <2>5. BroughtInv' /\ SignedInv'
    BY DEF BroughtInv, BringsNow, Brings, IsUrl, Excused, IsStored, Object, SignedInv, SignedGone, SignedMoved,
           Moved, Removing, Row, Had
  <2>6. PointInv'
    <3>1. \A x, k : PlaceOk(x, k)' <=> PlaceOk(x, k)
      BY DEF PlaceOk, Excused, IsStored, Object, Removing, Moving, CopyingCompany, Had, SignedRow
    <3> QED BY <3>1 DEF PointInv
  <2>7. LatestInv'
    BY DEF LatestInv, InOrder, LatestOf, Disordered, Follows, Taken, Holder, Holds, Object, Had
  <2> QED BY <2>1, <2>2, <2>3, <2>4, <2>5, <2>6, <2>7
<1> QED BY <1>1, <1>2, <1>3

LEMMA DocAlways == DocSpec => []DocInv
BY DocInductive, PTL DEF DocSpec

\* An upload becomes one row of dbo.FileMetadata at most, with the exceptions that
\* UploadedOnce names (saveUploadedDocumentMetadata).
THEOREM RecordedOnce == DocSpec => []UploadedOnce
<1>1. ASSUME DocTypes, OriginInv, UploadInv PROVE UploadedOnce
  <2> SUFFICES ASSUME NEW u \in Uploads, ~ Had("copied", u), ~ Repeated(url[u].key)
               PROVE  Cardinality({r \in rows : r.by = u}) <= 1
    BY DEF UploadedOnce, Repeated
  <2> PICK S : S = {r \in rows : r.by = u}
    OBVIOUS
  <2>1. \A r, s \in S : r = s
    <3>1. CASE u \in used
      BY <1>1, <3>1 DEF UploadInv, OnceOk
    <3>2. CASE u \notin used
      BY <1>1, <3>2, UploadsNat DEF OriginInv, RowOrigin
    <3> QED BY <3>1, <3>2
  <2>2. CASE S = {}
    BY <2>2, FS_EmptySet
  <2>3. ASSUME NEW r \in S PROVE Cardinality(S) <= 1
    <3>1. S = {r}
      BY <2>1, <2>3
    <3>2. Cardinality({r}) = 1
      BY FS_Singleton
    <3> QED BY <3>1, <3>2
  <2> QED BY <2>2, <2>3
<1> QED BY <1>1, DocAlways, PTL DEF DocInv

\* When nothing is under way, a row points to an object that is in the bucket, with the
\* exceptions that PointsToObject names (saveUploadedDocumentMetadata, updateS3Document,
\* deleteEmployeeDocument, saveOnboardingDocuments).
THEOREM RowsPointToObjects == DocSpec => []PointsToObject
<1>1. DocInv => PointsToObject
  BY PointedTo DEF DocInv
<1> QED BY <1>1, DocAlways, PTL

\* A row shows the last file that was uploaded to replace it, with the exceptions that
\* ShowsLatest names (saveUploadedDocumentMetadata, saveOnboardingDocuments).
THEOREM LatestIsShown == DocSpec => []ShowsLatest
<1>1. DocInv => ShowsLatest
  BY LatestShown DEF DocInv
<1> QED BY <1>1, DocAlways, PTL
=============================================================================
