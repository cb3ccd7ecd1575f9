---------------------------- MODULE PayrollProofs ----------------------------
(* Theorems about the two services that write to HR and to payroll, direct    *)
(* deposits and group term life, for any number of requests, employees,       *)
(* accounts and rows, and for any truncation and rounding.                    *)
EXTENDS DirectDeposit, GroupTermLife, TLAPS

(***************************************************************************)
(* Direct deposits.                                                        *)
(***************************************************************************)

-----------------------------------------------------------------------------
(* Types.  The locals of a request depend on its handler and on where it is, *)
(* so the lemmas say to which of the three kinds a request belongs.          *)

LEMMA ConversionTypes ==
    ASSUME NEW pay \in Pays
    PROVE  /\ CreatedCode(pay.type) \in AmountCodes
           /\ UpdatedCode(pay.type) \in AmountCodes
           /\ StoredAmount(pay) \in Amounts \cup {None}
           /\ EvoMethod(pay.type) \in {"PercOfNet", "Fixed", "None"}
           /\ pay.amt \in Amounts \cup {None}
BY ConstantsAssumption
   DEF Pays, CreatedCode, UpdatedCode, StoredAmount, EvoMethod, AmountCodes

LEMMA BlankTypes == BlankRow \in Row /\ BlankEd \in Ed
BY DEF BlankRow, BlankEd, Row, Ed, AmountCodes, Statuses

LEMMA TypeInit == Init => StoresOK
BY ConstantsAssumption, BlankTypes DEF Init, StoresOK, Ids, Request

LEMMA Kinds ==
    ASSUME NEW l \in Request
    PROVE  /\ l.op = "create" => l \in CreateRequest
           /\ l.op = "update" => l \in UpdateRequest
           /\ l.op = "remove" => l \in RemoveRequest
           /\ l.pc \in {"nachaCheck", "nachaInsert", "insert"} => l \in CreateRequest
           /\ l.pc = "write" => l \in UpdateRequest
           /\ l.pc \in {"delete", "endDate"} => l \in RemoveRequest
           /\ l.pc \in {"fetch", "keys", "evoGet", "evoPut"}
                => l \in UpdateRequest \cup RemoveRequest
           /\ l.pc = "clearCache"
                => l \in CreateRequest \cup UpdateRequest \cup RemoveRequest
BY ConstantsAssumption
   DEF Request, CreateRequest, UpdateRequest, RemoveRequest, Idle,
       CreateLabels, UpdateLabels, RemoveLabels

(* Moving a request on, alone or with one more of its locals. *)
LEMMA MovedTypes ==
    ASSUME NEW l, NEW label
    PROVE  /\ l \in CreateRequest /\ label \in CreateLabels =>
                /\ [l EXCEPT !.pc = label] \in Request
                /\ \A b \in BOOLEAN : [l EXCEPT !.pc = label, !.tok = b] \in Request
                /\ \A i \in Ids : [l EXCEPT !.pc = label, !.id = i] \in Request
           /\ l \in UpdateRequest /\ label \in UpdateLabels =>
                /\ [l EXCEPT !.pc = label] \in Request
                /\ \A s \in Statuses : [l EXCEPT !.pc = label, !.status = s] \in Request
                /\ \A e \in Ed : [l EXCEPT !.pc = label, !.ed = e] \in Request
           /\ l \in RemoveRequest /\ label \in RemoveLabels =>
                /\ [l EXCEPT !.pc = label] \in Request
                /\ \A s \in Statuses : [l EXCEPT !.pc = label, !.status = s] \in Request
                /\ \A e \in Ed : [l EXCEPT !.pc = label, !.ed = e] \in Request
<1>1. ASSUME l \in CreateRequest, label \in CreateLabels
      PROVE  /\ [l EXCEPT !.pc = label] \in Request
             /\ \A b \in BOOLEAN : [l EXCEPT !.pc = label, !.tok = b] \in Request
             /\ \A i \in Ids : [l EXCEPT !.pc = label, !.id = i] \in Request
  BY <1>1 DEF Request, CreateRequest
<1>2. ASSUME l \in UpdateRequest, label \in UpdateLabels
      PROVE  /\ [l EXCEPT !.pc = label] \in Request
             /\ \A s \in Statuses : [l EXCEPT !.pc = label, !.status = s] \in Request
             /\ \A e \in Ed : [l EXCEPT !.pc = label, !.ed = e] \in Request
  BY <1>2 DEF Request, UpdateRequest
<1>3. ASSUME l \in RemoveRequest, label \in RemoveLabels
      PROVE  /\ [l EXCEPT !.pc = label] \in Request
             /\ \A s \in Statuses : [l EXCEPT !.pc = label, !.status = s] \in Request
             /\ \A e \in Ed : [l EXCEPT !.pc = label, !.ed = e] \in Request
  BY <1>3 DEF Request, RemoveRequest
<1> QED BY <1>1, <1>2, <1>3

LEMMA SetLocals ==
    ASSUME StoresOK, NEW r \in Requests, NEW l \in Request,
           req' = [req EXCEPT ![r] = l]
    PROVE  req' \in [Requests -> Request]
BY DEF StoresOK

LEMMA ReturnType ==
    ASSUME StoresOK, NEW r \in Requests, Return(r)
    PROVE  req' \in [Requests -> Request]
BY DEF StoresOK, Return, Request

LEMMA GotoType ==
    ASSUME StoresOK, NEW r \in Requests, NEW label, Goto(r, label),
           \/ req[r] \in CreateRequest /\ label \in CreateLabels
           \/ req[r] \in UpdateRequest /\ label \in UpdateLabels
           \/ req[r] \in RemoveRequest /\ label \in RemoveLabels
    PROVE  req' \in [Requests -> Request]
BY MovedTypes, SetLocals DEF Goto

-----------------------------------------------------------------------------
(* One lemma per group of actions.                                           *)

LEMMA TypeStart ==
    ASSUME StoresOK, NEW r \in Requests, Start(r)
    PROVE  StoresOK'
<1>1. ASSUME NEW emp \in Employees, NEW acct \in Accounts, NEW pay \in Pays,
             StartCreate(r, emp, acct, pay)
      PROVE  StoresOK'
  <2> DEFINE l == [Idle EXCEPT !.pc = "nachaCheck", !.op = "create", !.emp = emp,
                               !.acct = acct, !.pay = pay]
  <2>1. l \in Request
    BY BlankTypes DEF Request, CreateRequest, CreateLabels, Idle
  <2> QED BY <1>1, <2>1, SetLocals DEF StartCreate, StoresOK
<1>2. ASSUME NEW emp \in Employees, NEW i \in Ids, NEW pay \in Pays,
             StartUpdate(r, emp, i, pay)
      PROVE  StoresOK'
  <2> DEFINE l == [Idle EXCEPT !.pc = IF pay.type = "Balance Remainder"
                                      THEN "duplicates" ELSE "fetch",
                               !.op = "update", !.emp = emp,
                               !.id = i, !.pay = pay]
  <2>1. l \in Request
    BY BlankTypes DEF Request, UpdateRequest, UpdateLabels, Idle
  <2> QED BY <1>2, <2>1, SetLocals DEF StartUpdate, StoresOK
<1>3. ASSUME NEW emp \in Employees, NEW i \in Ids, StartRemove(r, emp, i)
      PROVE  StoresOK'
  <2> DEFINE l == [Idle EXCEPT !.pc = "fetch", !.op = "remove",
                               !.emp = emp, !.id = i]
  <2>1. l \in Request
    BY BlankTypes DEF Request, RemoveRequest, RemoveLabels, Idle
  <2> QED BY <1>3, <2>1, SetLocals DEF StartRemove, StoresOK
<1> QED BY <1>1, <1>2, <1>3 DEF Start

LEMMA TypeCreate ==
    ASSUME StoresOK, NEW r \in Requests, Create(r)
    PROVE  StoresOK'
<1>0. req[r] \in Request
  BY DEF StoresOK
<1>1. CASE ReadNachaForCheck(r)
  <2>1. req[r] \in CreateRequest
    BY <1>0, <1>1, Kinds DEF ReadNachaForCheck, At
  <2>2. [req[r] EXCEPT !.pc = "duplicates", !.tok = nacha] \in Request
    BY <2>1, MovedTypes DEF StoresOK, CreateLabels
  <2> QED BY <1>1, <2>2, SetLocals DEF ReadNachaForCheck, StoresOK
<1>2. CASE CreateCheckDuplicates(r)
  <2>1. req[r] \in CreateRequest
    BY <1>0, <1>2, Kinds DEF CreateCheckDuplicates
  <2> QED BY <1>2, <2>1, GotoType, ReturnType
          DEF CreateCheckDuplicates, StoresOK, CreateLabels
<1>3. CASE ReadNachaForInsert(r)
  <2>1. req[r] \in CreateRequest
    BY <1>0, <1>3, Kinds DEF ReadNachaForInsert, At
  <2>2. [req[r] EXCEPT !.pc = "insert", !.tok = nacha] \in Request
    BY <2>1, MovedTypes DEF StoresOK, CreateLabels
  <2> QED BY <1>3, <2>2, SetLocals DEF ReadNachaForInsert, StoresOK
<1>4. CASE Insert(r)
  <2>1. req[r] \in CreateRequest
    BY <1>0, <1>4, Kinds DEF Insert, At
  <2>2. NewRow(r) \in Row
    BY <2>1, ConversionTypes DEF NewRow, Row, CreateRequest, Statuses
  <2>3. [req[r] EXCEPT !.pc = "clearCache", !.id = nextId] \in Request
    BY <1>4, <2>1, MovedTypes DEF Insert, CreateLabels
  <2>4. req' \in [Requests -> Request]
    BY <1>4, <2>3, SetLocals DEF Insert
  <2>5. nextId + 1 \in 1 .. MaxRows + 1
    BY <1>4, ConstantsAssumption DEF Insert, Ids
  <2> QED BY <1>4, <2>2, <2>4, <2>5 DEF Insert, StoresOK
<1> QED BY <1>1, <1>2, <1>3, <1>4 DEF Create

LEMMA TypeUpdate ==
    ASSUME StoresOK, NEW r \in Requests, Update(r)
    PROVE  StoresOK'
<1>0. req[r] \in Request
  BY DEF StoresOK
<1>1. CASE UpdateCheckDuplicates(r)
  <2>1. req[r] \in UpdateRequest
    BY <1>0, <1>1, Kinds DEF UpdateCheckDuplicates
  <2> QED BY <1>1, <2>1, GotoType, ReturnType
          DEF UpdateCheckDuplicates, StoresOK, UpdateLabels
<1>2. CASE UpdateFetch(r)
  <2>1. req[r] \in UpdateRequest
    BY <1>0, <1>2, Kinds DEF UpdateFetch
  <2> DEFINE status == dd[req[r].id].status
  <2>2. status \in Statuses
    BY <2>1 DEF UpdateRequest, StoresOK, Row
  <2>3. [req[r] EXCEPT !.pc = AfterUpdateFetch(status), !.status = status] \in Request
    BY <2>1, <2>2, MovedTypes DEF AfterUpdateFetch, UpdateLabels
  <2> QED BY <1>2, <2>3, SetLocals, ReturnType DEF UpdateFetch, Branch, StoresOK
<1>3. CASE UpdateWrite(r)
  <2>1. req[r] \in UpdateRequest
    BY <1>0, <1>3, Kinds DEF UpdateWrite, At
  <2>2. dd' \in [Ids -> Row]
    BY <1>3, <2>1, ConversionTypes DEF UpdateWrite, StoresOK, Row, UpdateRequest
  <2> QED BY <1>3, <2>2, ReturnType DEF UpdateWrite, StoresOK
<1> QED BY <1>1, <1>2, <1>3 DEF Update

LEMMA TypeRemove ==
    ASSUME StoresOK, NEW r \in Requests, Remove(r)
    PROVE  StoresOK'
<1>0. req[r] \in Request
  BY DEF StoresOK
<1>1. CASE RemoveFetch(r)
  <2>1. req[r] \in RemoveRequest
    BY <1>0, <1>1, Kinds DEF RemoveFetch
  <2> DEFINE status == dd[req[r].id].status
  <2>2. status \in Statuses
    BY <2>1 DEF RemoveRequest, StoresOK, Row
  <2>3. [req[r] EXCEPT !.pc = AfterRemoveFetch(status), !.status = status] \in Request
    BY <2>1, <2>2, MovedTypes DEF AfterRemoveFetch, RemoveLabels
  <2> QED BY <1>1, <2>3, SetLocals, ReturnType DEF RemoveFetch, Branch, StoresOK
<1>2. CASE Delete(r)
  <2>1. req[r] \in RemoveRequest
    BY <1>0, <1>2, Kinds DEF Delete, At
  <2> QED BY <1>2, <2>1, GotoType DEF Delete, StoresOK, RemoveLabels
<1>3. CASE EndDate(r)
  <2>1. req[r] \in RemoveRequest
    BY <1>0, <1>3, Kinds DEF EndDate, At
  <2>2. dd' \in [Ids -> Row]
    BY <1>3 DEF EndDate, StoresOK, Row
  <2> QED BY <1>3, <2>1, <2>2, GotoType DEF EndDate, StoresOK, RemoveLabels
<1> QED BY <1>1, <1>2, <1>3 DEF Remove

LEMMA TypeEvolution ==
    ASSUME StoresOK, NEW r \in Requests, Evolution(r)
    PROVE  StoresOK'
<1>0. req[r] \in Request
  BY DEF StoresOK
<1>1. CASE ReadEvolutionKeys(r)
  <2>1. req[r] \in UpdateRequest \cup RemoveRequest
    BY <1>0, <1>1, Kinds DEF ReadEvolutionKeys, At
  <2> QED BY <1>1, <2>1, GotoType, ReturnType
          DEF ReadEvolutionKeys, StoresOK, UpdateLabels, RemoveLabels
<1>2. CASE EvoGet(r)
  <2>1. req[r] \in UpdateRequest \cup RemoveRequest
    BY <1>0, <1>2, Kinds DEF EvoGet, At
  <2>2. EdToPut(r) \in Ed
    BY <2>1, ConversionTypes
       DEF EdToPut, Ed, UpdateRequest, RemoveRequest, StoresOK
  <2>3. [req[r] EXCEPT !.pc = "evoPut", !.ed = EdToPut(r)] \in Request
    BY <2>1, <2>2, MovedTypes DEF UpdateLabels, RemoveLabels
  <2> QED BY <1>2, <2>3, SetLocals DEF EvoGet, StoresOK
<1>3. CASE EvoPut(r)
  <2>1. req[r] \in UpdateRequest \cup RemoveRequest
    BY <1>0, <1>3, Kinds DEF EvoPut, At
  <2>2. req[r].ed \in Ed
    BY <2>1 DEF UpdateRequest, RemoveRequest
  <2>3. \/ req[r] \in UpdateRequest /\ AfterEvo(r) \in UpdateLabels
        \/ req[r] \in RemoveRequest /\ AfterEvo(r) \in RemoveLabels
    BY <2>1 DEF AfterEvo, UpdateRequest, RemoveRequest, UpdateLabels, RemoveLabels
  <2>4. req' \in [Requests -> Request]
    BY <1>3, <2>3, GotoType DEF EvoPut
  <2> QED BY <1>3, <2>2, <2>4 DEF EvoPut, StoresOK
<1> QED BY <1>1, <1>2, <1>3 DEF Evolution

LEMMA TypeEnd ==
    ASSUME StoresOK, NEW r \in Requests, ClearCache(r) \/ Fail(r)
    PROVE  StoresOK'
<1>0. req[r] \in Request
  BY DEF StoresOK
<1>1. CASE ClearCache(r)
  <2>1. req[r].op = "update" => req[r] \in UpdateRequest
    BY <1>0, Kinds
  <2> QED BY <1>1, <2>1, GotoType, ReturnType DEF ClearCache, StoresOK, UpdateLabels
<1>2. CASE Fail(r)
  BY <1>2, ReturnType DEF Fail, StoresOK
<1> QED BY <1>1, <1>2

LEMMA TypeHrApplication ==
    ASSUME StoresOK, HrApplication
    PROVE  StoresOK'
<1>1. ASSUME NEW i \in Ids, NEW status \in Statuses, Decide(i, status)
      PROVE  StoresOK'
  BY <1>1 DEF Decide, StoresOK, Row
<1>2. ASSUME NEW i \in Ids, SyncToEvolution(i)
      PROVE  StoresOK'
  BY <1>2 DEF SyncToEvolution, StoresOK, Row, Ed, EvoMethod
<1>3. CASE SwitchNacha
  BY <1>3 DEF SwitchNacha, StoresOK
<1> QED BY <1>1, <1>2, <1>3 DEF HrApplication, Statuses

LEMMA TypeStep ==
    ASSUME StoresOK, Step
    PROVE  StoresOK'
BY TypeStart, TypeCreate, TypeUpdate, TypeRemove, TypeEvolution,
   TypeEnd, TypeHrApplication DEF Step, Handler

-----------------------------------------------------------------------------
(* What a step does to the locals.                                           *)

Fields == {"pc", "op", "emp", "acct", "id", "pay", "tok", "status", "ed"}

LEMMA RecordFields == ASSUME NEW l \in Request PROVE DOMAIN l = Fields
BY DEF Request, CreateRequest, UpdateRequest, RemoveRequest, Idle, Fields

(* A step of one request leaves the others where they are.                   *)
LEMMA OthersStay ==
    ASSUME StoresOK, NEW r \in Requests, Start(r) \/ Handler(r) \/ Fail(r)
    PROVE  \A s \in Requests : s # r => req'[s] = req[s]
BY DEF StoresOK, Start, StartCreate, StartUpdate, StartRemove, Handler, Create,
       ReadNachaForCheck, CreateCheckDuplicates, ReadNachaForInsert, Insert,
       Update, UpdateCheckDuplicates, UpdateFetch, UpdateWrite,
       Remove, RemoveFetch, Delete, EndDate,
       Evolution, ReadEvolutionKeys, EvoGet, EvoPut, ClearCache, Fail,
       Goto, Return, Branch

(* The request itself: all fields but the ones a step names are kept.        *)
Kept(r, names) == \A f \in Fields \ names : req'[r][f] = req[r][f]

LEMMA GotoLocals ==
    ASSUME StoresOK, NEW r \in Requests, NEW label, Goto(r, label)
    PROVE  req'[r].pc = label /\ Kept(r, {"pc"})
BY RecordFields DEF StoresOK, Goto, Kept, Fields

LEMMA BranchLocals ==
    ASSUME StoresOK, NEW r \in Requests, NEW label, Branch(r, label)
    PROVE  /\ req'[r].pc = label
           /\ req'[r].status = dd[req[r].id].status
           /\ Kept(r, {"pc", "status"})
BY RecordFields DEF StoresOK, Branch, Kept, Fields

LEMMA ReturnLocals ==
    ASSUME StoresOK, NEW r \in Requests, Return(r)
    PROVE  req'[r] = Idle /\ req'[r].pc = "idle"
BY DEF StoresOK, Return, Idle

LEMMA NachaLocals ==
    ASSUME StoresOK, NEW r \in Requests
    PROVE  /\ ReadNachaForCheck(r) => /\ req'[r].pc = "duplicates"
                                      /\ req'[r].tok = nacha
                                      /\ Kept(r, {"pc", "tok"})
           /\ ReadNachaForInsert(r) => /\ req'[r].pc = "insert"
                                       /\ req'[r].tok = nacha
                                       /\ Kept(r, {"pc", "tok"})
<1>1. ASSUME NEW label,
             req' = [req EXCEPT ![r] = [req[r] EXCEPT !.pc = label, !.tok = nacha]]
      PROVE  req'[r].pc = label /\ req'[r].tok = nacha /\ Kept(r, {"pc", "tok"})
  BY <1>1, RecordFields DEF StoresOK, Kept, Fields
<1> QED BY <1>1 DEF ReadNachaForCheck, ReadNachaForInsert

LEMMA InsertLocals ==
    ASSUME StoresOK, NEW r \in Requests, Insert(r)
    PROVE  req'[r].pc = "clearCache" /\ req'[r].id = nextId /\ Kept(r, {"pc", "id"})
<1>1. req' = [req EXCEPT ![r] = [req[r] EXCEPT !.pc = "clearCache", !.id = nextId]]
  BY DEF Insert
<1> QED BY <1>1, RecordFields DEF StoresOK, Kept, Fields

LEMMA EvoGetLocals ==
    ASSUME StoresOK, NEW r \in Requests, EvoGet(r)
    PROVE  req'[r].pc = "evoPut" /\ req'[r].ed = EdToPut(r) /\ Kept(r, {"pc", "ed"})
BY RecordFields DEF StoresOK, EvoGet, Kept, Fields

LEMMA StartLocals ==
    ASSUME StoresOK, NEW r \in Requests, Start(r)
    PROVE  /\ req'[r].pc \in {"nachaCheck", "duplicates", "fetch"}
           /\ req'[r].pc = "fetch" /\ req'[r].op = "update"
                => req'[r].pay.type # "Balance Remainder"
<1>1. ASSUME NEW emp \in Employees, NEW acct \in Accounts, NEW pay \in Pays,
             StartCreate(r, emp, acct, pay)
      PROVE  req'[r].pc = "nachaCheck" /\ req'[r].op = "create"
  BY <1>1 DEF StoresOK, StartCreate, Idle
<1>2. ASSUME NEW emp \in Employees, NEW i \in Ids, NEW pay \in Pays,
             StartUpdate(r, emp, i, pay)
      PROVE  /\ req'[r].pc \in {"duplicates", "fetch"}
             /\ req'[r].pc = "fetch" => req'[r].pay.type # "Balance Remainder"
  BY <1>2 DEF StoresOK, StartUpdate, Idle
<1>3. ASSUME NEW emp \in Employees, NEW i \in Ids, StartRemove(r, emp, i)
      PROVE  req'[r].pc = "fetch" /\ req'[r].op = "remove"
  BY <1>3 DEF StoresOK, StartRemove, Idle
<1> QED BY <1>1, <1>2, <1>3 DEF Start

(* Where a step of a handler goes.                                           *)
LEMMA NextLabel ==
    ASSUME StoresOK, NEW r \in Requests
    PROVE  /\ Create(r) => req'[r].pc \in {"idle", "duplicates", "nachaInsert",
                                           "insert", "clearCache"}
           /\ Update(r) => req'[r].pc \in {"idle", "fetch", "keys", "clearCache"}
           /\ Delete(r) \/ EndDate(r) => req'[r].pc = "clearCache"
           /\ Evolution(r) => req'[r].pc \in {"idle", "evoGet", "evoPut", "endDate",
                                              "clearCache"}
           /\ ClearCache(r) \/ Fail(r) => req'[r].pc \in {"idle", "write"}
<1>1. Create(r) => req'[r].pc \in {"idle", "duplicates", "nachaInsert", "insert", "clearCache"}
  BY GotoLocals, ReturnLocals, NachaLocals, InsertLocals DEF Create, CreateCheckDuplicates
<1>2. Update(r) => req'[r].pc \in {"idle", "fetch", "keys", "clearCache"}
  BY GotoLocals, ReturnLocals, BranchLocals
     DEF Update, UpdateCheckDuplicates, UpdateFetch, UpdateWrite, AfterUpdateFetch
<1>3. Delete(r) \/ EndDate(r) => req'[r].pc = "clearCache"
  BY GotoLocals DEF Delete, EndDate
<1>4. Evolution(r) => req'[r].pc \in {"idle", "evoGet", "evoPut", "endDate", "clearCache"}
  BY GotoLocals, ReturnLocals, EvoGetLocals DEF Evolution, ReadEvolutionKeys, EvoPut, AfterEvo
<1>5. ClearCache(r) \/ Fail(r) => req'[r].pc \in {"idle", "write"}
  BY GotoLocals, ReturnLocals DEF ClearCache, Fail
<1> QED BY <1>1, <1>2, <1>3, <1>4, <1>5

-----------------------------------------------------------------------------
(* Which steps change what.                                                  *)

LEMMA WorkedOnId ==
    ASSUME StoresOK, NEW r \in Requests,
           req[r].pc \in {"fetch", "delete", "keys", "evoGet", "evoPut", "endDate", "write"}
    PROVE  req[r].id \in Ids
BY Kinds DEF StoresOK, UpdateRequest, RemoveRequest

LEMMA StepCases ==
    ASSUME StoresOK, Step, NEW r \in Requests
    PROVE  \/ req'[r] = req[r]
           \/ Start(r) \/ Handler(r) \/ Fail(r)
<1>1. HrApplication => UNCHANGED req
  BY DEF HrApplication, Decide, SyncToEvolution, SwitchNacha
<1> QED BY <1>1, OthersStay DEF Step

LEMMA Effects ==
    ASSUME StoresOK, Step
    PROVE  /\ \/ UNCHANGED <<live, nextId>>
              \/ \E r \in Requests : Insert(r) \/ Delete(r)
           /\ \/ UNCHANGED dd
              \/ \E r \in Requests : Insert(r) \/ UpdateWrite(r) \/ EndDate(r)
              \/ \E i \in Ids, status \in Statuses : Decide(i, status)
           /\ \/ UNCHANGED <<synced, ed>>
              \/ (\E r \in Requests : EvoPut(r)) /\ UNCHANGED synced
              \/ \E i \in Ids : SyncToEvolution(i)
<1>1. ASSUME NEW r \in Requests, Start(r) \/ Fail(r)
      PROVE  UNCHANGED <<live, nextId, dd, synced, ed>>
  BY <1>1 DEF Start, StartCreate, StartUpdate, StartRemove, Fail
<1>2. ASSUME NEW r \in Requests, Handler(r)
      PROVE  /\ UNCHANGED <<live, nextId>> \/ Insert(r) \/ Delete(r)
             /\ UNCHANGED dd \/ Insert(r) \/ UpdateWrite(r) \/ EndDate(r)
             /\ UNCHANGED <<synced, ed>> \/ (EvoPut(r) /\ UNCHANGED synced)
  BY <1>2
     DEF Handler, Create, ReadNachaForCheck, CreateCheckDuplicates, ReadNachaForInsert, Insert,
         Update, UpdateCheckDuplicates, UpdateFetch, UpdateWrite,
         Remove, RemoveFetch, Delete, EndDate,
         Evolution, ReadEvolutionKeys, EvoGet, EvoPut, ClearCache
<1>3. CASE HrApplication
  BY <1>3 DEF HrApplication, Decide, SyncToEvolution, SwitchNacha, Statuses
<1> QED BY <1>1, <1>2, <1>3 DEF Step

(* A request keeps what it was asked for, until it returns.                   *)
LEMMA AskedFor ==
    ASSUME StoresOK, Step, NEW r \in Requests, ~At(r, "idle"), req'[r].pc # "idle"
    PROVE  /\ req'[r].op = req[r].op /\ req'[r].emp = req[r].emp
           /\ req'[r].acct = req[r].acct /\ req'[r].pay = req[r].pay
           /\ Insert(r) \/ req'[r].id = req[r].id
<1>1. CASE Start(r)
  BY <1>1 DEF Start, StartCreate, StartUpdate, StartRemove
<1>2. CASE Fail(r) \/ Return(r)
  BY <1>2, ReturnLocals DEF Fail
<1>3. ASSUME NEW label, Goto(r, label) \/ Branch(r, label)
      PROVE  Kept(r, {"pc", "status"})
  BY <1>3, GotoLocals, BranchLocals DEF Kept
<1>4. CASE EvoGet(r) \/ ReadNachaForCheck(r) \/ ReadNachaForInsert(r) \/ Insert(r)
  BY <1>4, EvoGetLocals, NachaLocals, InsertLocals DEF Kept, Fields
<1>5. CASE Kept(r, {"pc", "status"})
  BY <1>5 DEF Kept, Fields
<1>6. CASE Handler(r)
  BY <1>2, <1>3, <1>4, <1>5, <1>6
     DEF Handler, Create, CreateCheckDuplicates, Update, UpdateCheckDuplicates, UpdateFetch,
         UpdateWrite, Remove, RemoveFetch, Delete, EndDate,
         Evolution, ReadEvolutionKeys, EvoPut, ClearCache
<1> QED BY <1>1, <1>2, <1>6, StepCases

(* The steps that history looks at.                                           *)
LEMMA PassedSteps ==
    ASSUME StoresOK, Step, NEW r \in Requests
    PROVE  /\ Passes(r, "insert") <=> Insert(r)
           /\ Passes(r, "delete") <=> Delete(r)
           /\ Passes(r, "evoPut") <=> EvoPut(r)
           /\ Passes(r, "endDate") <=> EndDate(r)
           /\ UpdateWrite(r) => At(r, "write") /\ req'[r].pc = "idle"
<1>1. /\ Insert(r) => Passes(r, "insert")
      /\ Delete(r) => Passes(r, "delete")
      /\ EvoPut(r) => Passes(r, "evoPut")
      /\ EndDate(r) => Passes(r, "endDate")
      /\ UpdateWrite(r) => At(r, "write") /\ req'[r].pc = "idle"
  <2>1. Insert(r) => Passes(r, "insert")
    BY InsertLocals DEF Insert, Passes
  <2>2. Delete(r) => Passes(r, "delete")
    BY GotoLocals DEF Delete, Passes
  <2>3. EvoPut(r) => Passes(r, "evoPut")
    BY GotoLocals DEF EvoPut, AfterEvo, Passes
  <2>4. EndDate(r) => Passes(r, "endDate")
    BY GotoLocals DEF EndDate, Passes
  <2>5. UpdateWrite(r) => At(r, "write") /\ req'[r].pc = "idle"
    BY ReturnLocals DEF UpdateWrite
  <2> QED BY <2>1, <2>2, <2>3, <2>4, <2>5
<1>2. ASSUME NEW label \in {"insert", "delete", "evoPut", "endDate"}, Passes(r, label)
      PROVE  Handler(r)
  <2>1. req'[r] # req[r]
    BY <1>2 DEF Passes, At
  <2>2. ~Start(r)
    BY <1>2 DEF Passes, At, Start, StartCreate, StartUpdate, StartRemove
  <2>3. ~Fail(r)
    BY <1>2, ReturnLocals DEF Passes, Fail
  <2> QED BY <2>1, <2>2, <2>3, StepCases
<1>3. ASSUME Handler(r)
      PROVE  /\ At(r, "insert") => Insert(r)
             /\ At(r, "delete") => Delete(r)
             /\ At(r, "evoPut") => EvoPut(r)
             /\ At(r, "endDate") => EndDate(r)
  BY <1>3
     DEF Handler, At, Create, ReadNachaForCheck, CreateCheckDuplicates, ReadNachaForInsert, Insert,
         Update, UpdateCheckDuplicates, UpdateFetch, UpdateWrite,
         Remove, RemoveFetch, Delete, EndDate,
         Evolution, ReadEvolutionKeys, EvoGet, EvoPut, ClearCache
<1> QED BY <1>1, <1>2, <1>3 DEF Passes

-----------------------------------------------------------------------------
(* History.                                                                   *)

(* While it is at work, a request meets whatever befalls its row.             *)
LEMMA MetGrows ==
    ASSUME Meets, NEW r \in Requests, req[r].pc \notin {"idle", "duplicates", "fetch"},
           req'[r].pc # "idle", ~Passes(r, "evoPut")
    PROVE  met'[r] = met[r] \cup News(req[r].id)
BY DEF Meets

LEMMA NewsType == ASSUME NEW i PROVE News(i) \subseteq {"approved", "changed"}
BY DEF News

LEMMA HistoryType ==
    ASSUME TypeOK, StoresOK', Step, Meets, Overlooks, GoesAstray
    PROVE  TypeOK'
<1>0. StoresOK
  BY DEF TypeOK
<1>1. met' \in [Requests -> SUBSET {"refused", "approved", "changed"}]
  BY NewsType DEF TypeOK, Meets
<1>2. unseen' \in [Requests -> SUBSET Ids]
  BY DEF TypeOK, StoresOK, Overlooks, Unreadable, NewRows
<1>3. ASSUME NEW r \in Requests
      PROVE  /\ Doubled(r) \subseteq {"account", "remainder"} \X SUBSET Ids
             /\ Missed(r) \subseteq {"orphan", "unended"} \X SUBSET Ids
  <2>1. unseen[r] \subseteq Ids
    BY DEF TypeOK
  <2>2. Passes(r, "insert") => nextId \in Ids
    BY <1>0, PassedSteps DEF Insert
  <2>3. At(r, "write") \/ Passes(r, "delete") \/ Passes(r, "endDate") \/ Passes(r, "evoPut")
        => req[r].id \in Ids
    BY <1>0, WorkedOnId DEF Passes, At
  <2>4. Doubled(r) \subseteq {"account", "remainder"} \X SUBSET Ids
    <3>1. \A i, j \in Ids : {i, j} \in SUBSET Ids
      OBVIOUS
    <3>2. ASSUME NEW x \in Doubled(r)
          PROVE  \E l \in {"account", "remainder"}, i \in Ids, j \in Ids : x = <<l, {i, j}>>
      BY <2>1, <2>2, <2>3, <3>2 DEF Doubled
    <3> QED BY <3>1, <3>2
  <2>5. Missed(r) \subseteq {"orphan", "unended"} \X SUBSET Ids
    BY <2>3 DEF Missed
  <2> QED BY <2>4, <2>5
<1>4. astray' \subseteq {"account", "remainder", "orphan", "unended"} \X SUBSET Ids
  BY <1>3 DEF TypeOK, GoesAstray
<1> QED BY <1>1, <1>2, <1>4 DEF TypeOK

LEMMA StoresStable == StoresOK /\ [Next]_vars => StoresOK'
<1>1. StoresOK /\ UNCHANGED vars => StoresOK'
  BY DEF vars, StoresOK
<1> QED BY <1>1, TypeStep DEF Next

\* Every store and every local has its type in every reachable state.
THEOREM TypeCorrect == Spec => []TypeOK
<1>1. Init => TypeOK
  BY TypeInit DEF Init, TypeOK
<1>2. TypeOK /\ [Next]_vars => TypeOK'
  <2>1. TypeOK /\ UNCHANGED vars => TypeOK'
    BY DEF vars, history, TypeOK, StoresOK
  <2>2. TypeOK /\ Next => TypeOK'
    BY TypeStep, HistoryType DEF Next, TypeOK
  <2> QED BY <2>1, <2>2
<1> QED BY <1>1, <1>2, PTL DEF Spec

-----------------------------------------------------------------------------
(* No orphan in Evolution.  A deposit gets its ED only when it is approved and *)
(* a delete is decided on a status read earlier: a deposit that is about to be *)
(* deleted has no ED, or the delete has met the approval.                      *)

DeletesPending(r) ==
    req[r].pc = "delete" => dd[req[r].id].status # "Approved" \/ "approved" \in met[r]

OrphanInv ==
    /\ StoresOK
    /\ \A i \in live \cup synced : i < nextId
    /\ \A i \in synced : dd[i].status = "Approved"
    /\ \A r \in Requests : DeletesPending(r)
    /\ NoOrphanEd

LEMMA OrphanInit == Init => OrphanInv
BY TypeInit DEF Init, OrphanInv, DeletesPending, NoOrphanEd, Idle

(* No step but Decide changes the status of a row that is there.              *)
LEMMA StatusKept ==
    ASSUME StoresOK, Step, NEW i \in Ids
    PROVE  \/ dd'[i].status = dd[i].status
           \/ i = nextId /\ dd'[i].status = "Pending"
           \/ dd[i].status = "Pending"
<1>1. ASSUME NEW r \in Requests, Insert(r)
      PROVE  IF i = nextId THEN dd'[i].status = "Pending" ELSE dd'[i] = dd[i]
  BY <1>1 DEF Insert, NewRow, StoresOK
<1>2. ASSUME NEW r \in Requests, UpdateWrite(r) \/ EndDate(r)
      PROVE  dd'[i].status = dd[i].status
  BY <1>2 DEF UpdateWrite, EndDate, StoresOK, Row
<1>3. ASSUME NEW j \in Ids, NEW status \in Statuses, Decide(j, status)
      PROVE  dd'[i] = dd[i] \/ dd[i].status = "Pending"
  BY <1>3 DEF Decide, StoresOK
<1> QED BY <1>1, <1>2, <1>3, Effects

LEMMA IdsBelow ==
    ASSUME StoresOK, Step, \A i \in live : i < nextId
    PROVE  /\ \A i \in live' : i < nextId'
           /\ nextId' \in Int /\ nextId \in Int /\ nextId <= nextId'
           /\ nextId \notin live
           /\ live' \subseteq live \cup {nextId}
<1>1. ASSUME NEW r \in Requests, Insert(r)
      PROVE  live' = live \cup {nextId} /\ nextId' = nextId + 1
  BY <1>1 DEF Insert
<1>2. ASSUME NEW r \in Requests, Delete(r)
      PROVE  live' \subseteq live /\ nextId' = nextId
  BY <1>2 DEF Delete
<1>3. nextId \in Int /\ live \subseteq Int
  BY DEF StoresOK, Ids
<1>4. \/ live' \subseteq live /\ nextId' = nextId
      \/ live' = live \cup {nextId} /\ nextId' = nextId + 1
  BY <1>1, <1>2, Effects
<1>5. nextId \notin live
  BY <1>3
<1>6. nextId' \in Int /\ nextId <= nextId'
  BY <1>3, <1>4
<1>7. \A i \in live' : i < nextId'
  <2>1. CASE live' \subseteq live /\ nextId' = nextId
    BY <2>1
  <2>2. CASE live' = live \cup {nextId} /\ nextId' = nextId + 1
    <3>1. ASSUME NEW i \in live'
          PROVE  i < nextId + 1
      BY <1>3, <2>2, <3>1
    <3> QED BY <2>2, <3>1
  <2> QED BY <1>4, <2>1, <2>2
<1> QED BY <1>3, <1>4, <1>5, <1>6, <1>7

LEMMA OrphanStep ==
    ASSUME OrphanInv, Step, Meets, GoesAstray
    PROVE  OrphanInv'
<1>t. StoresOK /\ StoresOK'
  BY TypeStep DEF OrphanInv
<1>b. /\ \A i \in live' : i < nextId'
      /\ nextId' \in Int /\ nextId \in Int /\ nextId <= nextId'
      /\ live' \subseteq live \cup {nextId}
  BY <1>t, IdsBelow DEF OrphanInv
<1>i. live \subseteq Ids /\ synced \subseteq Ids /\ Ids \subseteq Int
  BY <1>t DEF StoresOK, Ids
<1>s. UNCHANGED synced \/ \E i \in Ids : SyncToEvolution(i)
  BY <1>t, Effects
<1>1. \A i \in synced' : i \in synced \/ (i \in live /\ UNCHANGED <<live, dd>> /\ dd[i].status = "Approved")
  BY <1>s DEF SyncToEvolution
<1>2. \A i \in live' \cup synced' : i < nextId'
  BY <1>b, <1>i, <1>1 DEF OrphanInv
<1>3. \A i \in synced' : dd'[i].status = "Approved"
  <2>1. ASSUME NEW i \in synced
        PROVE  dd'[i].status = "Approved"
    <3>1. i \in Ids /\ i # nextId /\ dd[i].status = "Approved"
      BY <1>b, <1>i DEF OrphanInv
    <3> QED BY <1>t, <3>1, StatusKept
  <2> QED BY <1>1, <2>1
<1>4. ASSUME NEW r \in Requests
      PROVE  DeletesPending(r)'
  <2>1. CASE req'[r] = req[r]
    <3> SUFFICES ASSUME req[r].pc = "delete", dd'[req[r].id].status = "Approved"
                 PROVE  "approved" \in met'[r]
      BY <2>1 DEF DeletesPending
    <3>1. req[r].id \in Ids
      BY <1>t, WorkedOnId
    <3>2. met'[r] = met[r] \cup News(req[r].id)
      BY <2>1, MetGrows DEF Passes, At
    <3>3. CASE dd[req[r].id].status = "Approved"
      BY <3>2, <3>3 DEF OrphanInv, DeletesPending
    <3>4. CASE dd[req[r].id].status # "Approved"
      BY <3>1, <3>2, <3>4 DEF News
    <3> QED BY <3>3, <3>4
  <2>2. CASE RemoveFetch(r)
    <3>1. UNCHANGED dd
      BY <2>2 DEF RemoveFetch
    <3>2. CASE Return(r)
      BY <1>t, <3>2, ReturnLocals DEF DeletesPending
    <3>3. CASE Branch(r, AfterRemoveFetch(dd[req[r].id].status))
      BY <1>t, <3>1, <3>3, BranchLocals DEF AfterRemoveFetch, Kept, Fields, DeletesPending
    <3> QED BY <2>2, <3>2, <3>3 DEF RemoveFetch
  <2>3. CASE Start(r) \/ Fail(r) \/ (Handler(r) /\ ~RemoveFetch(r))
    BY <1>t, <2>3, StartLocals, NextLabel DEF Handler, Remove, DeletesPending
  <2> QED BY <1>t, <2>1, <2>2, <2>3, StepCases
<1>5. NoOrphanEd'
  <2>1. ASSUME NEW i \in synced' \ live'
        PROVE  <<"orphan", {i}>> \in astray'
    <3>1. i \in synced
      BY <1>1, <2>1
    <3>2. CASE i \notin live
      BY <3>1, <3>2 DEF OrphanInv, NoOrphanEd, GoesAstray
    <3>3. CASE i \in live
      <4>1. PICK r \in Requests : Delete(r)
        BY <1>t, <2>1, <3>3, Effects DEF Insert
      <4>2. i = req[r].id /\ At(r, "delete")
        BY <2>1, <3>3, <4>1 DEF Delete
      <4>3. "approved" \in met[r]
        BY <3>1, <4>2 DEF OrphanInv, DeletesPending, At
      <4>4. Passes(r, "delete")
        BY <1>t, <4>1, PassedSteps
      <4>5. <<"orphan", {i}>> \in Missed(r)
        BY <4>2, <4>3, <4>4 DEF Missed
      <4> QED BY <4>5 DEF GoesAstray
    <3> QED BY <3>2, <3>3
  <2> QED BY <2>1 DEF NoOrphanEd
<1> QED BY <1>t, <1>2, <1>3, <1>4, <1>5 DEF OrphanInv

\* For any number of requests, however they overlap and whatever fails, payroll
\* pays into a deposit that HR has lost only if it was approved after the delete
\* had read its status.
THEOREM EdsHaveDeposits == Spec => []NoOrphanEd
<1>1. OrphanInv /\ [Next]_vars => OrphanInv'
  <2>1. OrphanInv /\ UNCHANGED vars => OrphanInv'
    BY DEF vars, history, OrphanInv, StoresOK, DeletesPending, NoOrphanEd
  <2> QED BY <2>1, OrphanStep DEF Next
<1>2. OrphanInv => NoOrphanEd
  BY DEF OrphanInv
<1> QED BY <1>1, <1>2, OrphanInit, PTL DEF Spec

-----------------------------------------------------------------------------
(* End dates.  remove puts the end date into the ED before it ends the row:   *)
(* what it has put is there when it ends the row, unless the PUT was refused  *)
(* or an update put back an ED that it had read before.                       *)

EdLocals(r) ==
    /\ req[r].pc \in {"evoGet", "evoPut", "endDate"} => req[r].id \in synced
    /\ req[r].pc = "evoPut" /\ req[r].op = "remove" => req[r].ed.ended
    /\ req[r].pc = "endDate" =>
          \/ ed[req[r].id].ended
          \/ "refused" \in met[r]
          \/ <<"unended", {req[r].id}>> \in astray

EndDateInv ==
    /\ StoresOK
    /\ \A r \in Requests : EdLocals(r)
    /\ EndDateInEvoFirst

LEMMA EndDateInit == Init => EndDateInv
BY TypeInit DEF Init, EndDateInv, EdLocals, EndDateInEvoFirst, Idle

(* An end date leaves an ED only where history says so.                       *)
LEMMA EndsKept ==
    ASSUME EndDateInv, Step, GoesAstray, NEW i \in synced, ed[i].ended
    PROVE  ed'[i].ended \/ <<"unended", {i}>> \in astray'
<1>t. StoresOK /\ i \in Ids
  BY DEF EndDateInv, StoresOK
<1>1. ASSUME NEW r \in Requests, EvoPut(r), ed' # ed
      PROVE  ed'[i].ended \/ <<"unended", {i}>> \in astray'
  <2>1. /\ req[r].id \in Ids /\ Passes(r, "evoPut") /\ At(r, "evoPut")
        /\ req[r].op \in {"update", "remove"}
    BY <1>t, <1>1, WorkedOnId, PassedSteps, Kinds
       DEF EvoPut, At, StoresOK, UpdateRequest, RemoveRequest
  <2>2. \A j \in Ids : ed'[j] = IF j = req[r].id THEN req[r].ed ELSE ed[j]
    BY <1>t, <1>1 DEF EvoPut, StoresOK
  <2>3. CASE i # req[r].id
    BY <1>t, <2>2, <2>3
  <2>4. CASE i = req[r].id /\ req[r].op = "remove"
    BY <1>t, <2>1, <2>2, <2>4 DEF EndDateInv, EdLocals, At
  <2>5. CASE i = req[r].id /\ req[r].op = "update" /\ ~ed'[i].ended
    <3>1. <<"unended", {i}>> \in Missed(r)
      BY <2>1, <2>5 DEF Missed
    <3> QED BY <3>1 DEF GoesAstray
  <2> QED BY <2>1, <2>3, <2>4, <2>5
<1>2. ASSUME NEW j \in Ids, SyncToEvolution(j)
      PROVE  ed'[i] = ed[i]
  BY <1>t, <1>2 DEF SyncToEvolution, StoresOK
<1> QED BY <1>t, <1>1, <1>2, Effects

LEMMA EndDateStep ==
    ASSUME EndDateInv, Step, Meets, GoesAstray
    PROVE  EndDateInv'
<1>t. StoresOK /\ StoresOK'
  BY TypeStep DEF EndDateInv
<1>s. synced \subseteq synced'
  BY <1>t, Effects DEF SyncToEvolution
<1>a. astray \subseteq astray'
  BY DEF GoesAstray
<1>1. ASSUME NEW r \in Requests
      PROVE  EdLocals(r)'
  <2>1. CASE req'[r] = req[r]
    <3>1. req[r].pc = "endDate" => met[r] \subseteq met'[r]
      BY <2>1, MetGrows DEF Passes, At
    <3>2. req[r].pc = "endDate" /\ ed[req[r].id].ended
          => ed'[req[r].id].ended \/ <<"unended", {req[r].id}>> \in astray'
      BY EndsKept DEF EndDateInv, EdLocals
    <3> QED BY <1>s, <1>a, <2>1, <3>1, <3>2 DEF EndDateInv, EdLocals
  <2>2. CASE ReadEvolutionKeys(r)
    <3>1. req'[r].pc \in {"idle", "evoGet"} /\ (req'[r].pc = "evoGet" => req'[r].id \in synced)
      BY <1>t, <2>2, GotoLocals, ReturnLocals DEF ReadEvolutionKeys, Kept, Fields
    <3> QED BY <1>s, <3>1 DEF EdLocals
  <2>3. CASE EvoGet(r)
    <3>1. /\ req'[r].pc = "evoPut" /\ req'[r].id = req[r].id /\ req'[r].op = req[r].op
          /\ req'[r].ed = EdToPut(r)
      BY <1>t, <2>3, EvoGetLocals DEF Kept, Fields
    <3>2. req[r].id \in Ids /\ req[r].id \in synced
      BY <1>t, <2>3, WorkedOnId DEF EvoGet, At, EndDateInv, EdLocals
    <3>3. req[r].op = "remove" => EdToPut(r).ended
      BY <1>t, <3>2 DEF EdToPut, StoresOK, Ed
    <3> QED BY <1>s, <3>1, <3>2, <3>3 DEF EdLocals
  <2>4. CASE EvoPut(r)
    <3>1. req'[r].pc = AfterEvo(r) /\ req'[r].id = req[r].id
      BY <1>t, <2>4, GotoLocals DEF EvoPut, Kept, Fields
    <3>2. req[r].id \in Ids /\ req[r].id \in synced
      BY <1>t, <2>4, WorkedOnId DEF EvoPut, At, EndDateInv, EdLocals
    <3>3. met'[r] = IF ed'[req[r].id] = req[r].ed THEN {} ELSE {"refused"}
      BY <1>t, <2>4, <3>1, PassedSteps DEF Meets, EvoPut, At, AfterEvo
    <3>4. req[r].op = "remove" => req[r].ed.ended
      BY <2>4 DEF EvoPut, At, EndDateInv, EdLocals
    <3> QED BY <1>s, <3>1, <3>2, <3>3, <3>4 DEF EdLocals, AfterEvo
  <2>5. CASE Start(r) \/ Fail(r)
             \/ (Handler(r) /\ ~ReadEvolutionKeys(r) /\ ~EvoGet(r) /\ ~EvoPut(r))
    <3>1. RemoveFetch(r) => req'[r].pc \in {"idle", "delete", "keys", "clearCache"}
      BY <1>t, ReturnLocals, BranchLocals DEF RemoveFetch, AfterRemoveFetch
    <3>2. req'[r].pc \notin {"evoGet", "evoPut", "endDate"}
      BY <1>t, <2>5, <3>1, StartLocals, NextLabel DEF Handler, Remove, Evolution
    <3> QED BY <3>2 DEF EdLocals
  <2> QED BY <1>t, <2>1, <2>2, <2>3, <2>4, <2>5, StepCases
<1>2. EndDateInEvoFirst'
  <2>1. ASSUME NEW i \in live', dd'[i].ended
        PROVE  i \in synced' /\ (ed'[i].ended \/ <<"unended", {i}>> \in astray')
    <3>1. CASE i \in live /\ dd[i].ended
      BY <1>s, <1>a, <3>1, EndsKept DEF EndDateInv, EndDateInEvoFirst
    <3>2. CASE ~(i \in live /\ dd[i].ended)
      <4>1. i \in Ids
        BY <1>t DEF StoresOK
      <4>2. ASSUME NEW r \in Requests, Insert(r)
            PROVE  FALSE
        <5>1. \A j \in Ids : dd'[j] = IF j = nextId THEN NewRow(r) ELSE dd[j]
          BY <1>t, <4>2 DEF Insert, StoresOK
        <5>2. ~NewRow(r).ended
          BY DEF NewRow
        <5> QED BY <2>1, <3>2, <4>1, <4>2, <5>1, <5>2 DEF Insert
      <4>3. ASSUME NEW j \in Ids, NEW status \in Statuses, Decide(j, status)
            PROVE  dd'[i].ended = dd[i].ended /\ live' = live
        BY <1>t, <4>1, <4>3 DEF Decide, StoresOK, Row
      <4>4. ASSUME NEW r \in Requests, UpdateWrite(r)
            PROVE  dd'[i].ended = dd[i].ended /\ live' = live
        BY <1>t, <4>1, <4>4 DEF UpdateWrite, StoresOK, Row
      <4>5. UNCHANGED dd => i \in live
        BY <1>t, <4>2, Effects DEF Delete
      <4>6. PICK r \in Requests : EndDate(r)
        BY <1>t, <2>1, <3>2, <4>2, <4>3, <4>4, <4>5, Effects
      <4>7. i = req[r].id
        BY <1>t, <2>1, <3>2, <4>1, <4>6 DEF EndDate, StoresOK
      <4>8. /\ i \in synced
            /\ ed[i].ended \/ "refused" \in met[r] \/ <<"unended", {i}>> \in astray
        BY <4>6, <4>7 DEF EndDate, At, EndDateInv, EdLocals
      <4>9. "refused" \in met[r] => <<"unended", {i}>> \in astray'
        <5>1. Passes(r, "endDate")
          BY <1>t, <4>6, PassedSteps
        <5>2. "refused" \in met[r] => <<"unended", {i}>> \in Missed(r)
          BY <4>7, <5>1 DEF Missed
        <5> QED BY <5>2 DEF GoesAstray
      <4> QED BY <1>s, <1>a, <4>8, <4>9, EndsKept
    <3> QED BY <3>1, <3>2
  <2> QED BY <2>1 DEF EndDateInEvoFirst
<1> QED BY <1>t, <1>1, <1>2 DEF EndDateInv

\* For any number of requests, however they overlap and whatever fails, a deposit
\* that HR shows as ended is ended in Evolution, unless the PUT of the end was
\* refused or an update put back the ED as it was before the end.
THEOREM EndDatesReachEvoFirst == Spec => []EndDateInEvoFirst
<1>1. EndDateInv /\ [Next]_vars => EndDateInv'
  <2>1. EndDateInv /\ UNCHANGED vars => EndDateInv'
    BY DEF vars, history, EndDateInv, StoresOK, EdLocals, EndDateInEvoFirst
  <2> QED BY <2>1, EndDateStep DEF Next
<1>2. EndDateInv => EndDateInEvoFirst
  BY DEF EndDateInv
<1> QED BY <1>1, <1>2, EndDateInit, PTL DEF Spec

-----------------------------------------------------------------------------
(* The duplicate checks.  What a check has found free is taken only by rows    *)
(* that came after it, or that it could not read: the unseen ones.             *)

FreshAccount(r) ==
    \A i \in live : dd[i].emp = req[r].emp /\ dd[i].acct = req[r].acct => i \in unseen[r]

FreshRemainder(r) ==
    \A i \in live : dd[i].emp = req[r].emp /\ dd[i].code = "Balance Remainder"
                    => i \in unseen[r]

Later == {"keys", "evoGet", "evoPut", "endDate", "clearCache", "write"}

\* What the request has checked, and the row it has fetched.
UniqueLocals(r) ==
    /\ req[r].pc \in {"nachaInsert", "insert"} => FreshAccount(r)
    /\ req[r].op = "update" /\ req[r].pc # "duplicates"
           /\ req[r].pay.type = "Balance Remainder" => FreshRemainder(r)
    /\ req[r].op = "update" /\ req[r].pc \in Later
           => /\ req[r].id < nextId
              /\ req[r].id \in live => dd[req[r].id].emp = req[r].emp

UniqueInv ==
    /\ StoresOK
    /\ \A i \in live : i < nextId
    /\ \A r \in Requests : UniqueLocals(r)
    /\ DepositsUnique

LEMMA IdleHasNoOp == Idle.pc = "idle" /\ Idle.op = None /\ None # "update" /\ None # "create"
BY ConstantsAssumption DEF Idle

LEMMA UniqueInit == Init => UniqueInv
BY TypeInit, IdleHasNoOp
   DEF Init, UniqueInv, UniqueLocals, DepositsUnique, AccountUnique, PatchedRemainderUnique, Later

(* What a step does to the rows that the checks look at.                      *)
LEMMA RowsKept ==
    ASSUME StoresOK, Step, NEW i \in live, i # nextId
    PROVE  /\ dd'[i].emp = dd[i].emp /\ dd'[i].acct = dd[i].acct /\ dd'[i].tok = dd[i].tok
           /\ \/ dd'[i].code = dd[i].code
              \/ \E r \in Requests : UpdateWrite(r) /\ req[r].id = i
<1>t. i \in Ids
  BY DEF StoresOK
<1>1. ASSUME NEW r \in Requests, Insert(r)
      PROVE  dd'[i] = dd[i]
  BY <1>t, <1>1 DEF Insert, StoresOK
<1>2. ASSUME NEW r \in Requests, UpdateWrite(r)
      PROVE  /\ dd'[i].emp = dd[i].emp /\ dd'[i].acct = dd[i].acct /\ dd'[i].tok = dd[i].tok
             /\ dd'[i].code = dd[i].code \/ req[r].id = i
  BY <1>t, <1>2 DEF UpdateWrite, StoresOK, Row
<1>3. ASSUME NEW r \in Requests, EndDate(r)
      PROVE  /\ dd'[i].emp = dd[i].emp /\ dd'[i].acct = dd[i].acct /\ dd'[i].tok = dd[i].tok
             /\ dd'[i].code = dd[i].code
  BY <1>t, <1>3 DEF EndDate, StoresOK, Row
<1>4. ASSUME NEW j \in Ids, NEW status \in Statuses, Decide(j, status)
      PROVE  /\ dd'[i].emp = dd[i].emp /\ dd'[i].acct = dd[i].acct /\ dd'[i].tok = dd[i].tok
             /\ dd'[i].code = dd[i].code
  BY <1>t, <1>4 DEF Decide, StoresOK, Row
<1> QED BY <1>1, <1>2, <1>3, <1>4, Effects

(* A request relies on its check from the check on.                           *)
LEMMA ReliedBefore ==
    ASSUME StoresOK, Step, NEW r \in Requests, ReliesOnCheck(r)', ~At(r, "duplicates")
    PROVE  ReliesOnCheck(r) /\ ~At(r, "idle") /\ req'[r].pc # "idle"
<1>t. req'[r] \in Request
  BY TypeStep DEF StoresOK
<1>u. req'[r].op = "update" => req'[r].pc \in UpdateLabels
  BY <1>t, Kinds DEF UpdateRequest
<1>1. req'[r].pc # "idle"
  BY <1>u DEF ReliesOnCheck, UpdateLabels
<1>2. ~Start(r)
  BY <1>u, StartLocals DEF ReliesOnCheck, UpdateLabels
<1>3. req'[r] = req[r] => ReliesOnCheck(r) /\ ~At(r, "idle")
  BY <1>1 DEF ReliesOnCheck, At
<1>4. ASSUME Handler(r)
      PROVE  ReliesOnCheck(r) /\ ~At(r, "idle")
  <2>1. ~At(r, "idle")
    BY <1>4
       DEF Handler, At, Create, ReadNachaForCheck, CreateCheckDuplicates, ReadNachaForInsert,
           Insert, Update, UpdateCheckDuplicates, UpdateFetch, UpdateWrite,
           Remove, RemoveFetch, Delete, EndDate,
           Evolution, ReadEvolutionKeys, EvoGet, EvoPut, ClearCache
  <2>2. req'[r].op = req[r].op /\ req'[r].pay = req[r].pay
    BY <1>1, <2>1, AskedFor
  <2>3. CASE req'[r].op = "update"
    BY <1>u, <2>1, <2>2, <2>3 DEF ReliesOnCheck, At, UpdateLabels
  <2>4. CASE req'[r].pc \in {"nachaInsert", "insert"}
    <3>1. Create(r)
      BY <1>4, <2>4, NextLabel, BranchLocals, ReturnLocals
         DEF Handler, Remove, RemoveFetch, AfterRemoveFetch
    <3>2. ReadNachaForInsert(r)
      BY <2>4, <3>1, NachaLocals, InsertLocals DEF Create, CreateCheckDuplicates, At
    <3> QED BY <3>2 DEF ReadNachaForInsert, At, ReliesOnCheck
  <2> QED BY <2>1, <2>3, <2>4 DEF ReliesOnCheck
<1>5. ~Fail(r)
  BY <1>1, ReturnLocals DEF Fail
<1> QED BY <1>1, <1>2, <1>3, <1>4, <1>5, StepCases

(* Of the rows a check has to find, it has found none.                        *)
LEMMA CheckPassed ==
    ASSUME StoresOK, Step, Overlooks, NEW r \in Requests, ReliesOnCheck(r)', At(r, "duplicates")
    PROVE  /\ UNCHANGED <<live, dd>>
           /\ req'[r].pc \in {"nachaInsert", "insert"} => FreshAccount(r)'
           /\ req'[r].op = "update" /\ req'[r].pay.type = "Balance Remainder" => FreshRemainder(r)'
<1>1. req'[r].pc \notin {"idle", "duplicates"}
  BY Kinds, TypeStep, IdleHasNoOp
     DEF ReliesOnCheck, StoresOK, Request, CreateRequest, UpdateRequest, RemoveRequest, UpdateLabels, Idle
<1>2. CreateCheckDuplicates(r) \/ UpdateCheckDuplicates(r)
  BY <1>1, StepCases, ReturnLocals
     DEF At, Start, StartCreate, StartUpdate, StartRemove, Fail,
         Handler, Create, ReadNachaForCheck, ReadNachaForInsert, Insert,
         Update, UpdateFetch, UpdateWrite, Remove, RemoveFetch, Delete, EndDate,
         Evolution, ReadEvolutionKeys, EvoGet, EvoPut, ClearCache
<1>3. UNCHANGED <<live, dd>>
  BY <1>2 DEF CreateCheckDuplicates, UpdateCheckDuplicates
<1>4. /\ req'[r].op = req[r].op /\ req'[r].emp = req[r].emp
      /\ req'[r].acct = req[r].acct /\ req'[r].pay = req[r].pay
  BY <1>1, AskedFor DEF At
<1>5. unseen'[r] = Unreadable(r)
  BY DEF Overlooks
<1>6. CASE CreateCheckDuplicates(r)
  <2>1. ~DuplicateAccount(r) /\ req[r].op = "create"
    BY <1>1, <1>6, ReturnLocals DEF CreateCheckDuplicates
  <2>2. \A i \in live : dd[i].emp = req[r].emp /\ dd[i].acct = req[r].acct => i \in Unreadable(r)
    BY <2>1 DEF DuplicateAccount, SameAccount, Unreadable
  <2> QED BY <1>3, <1>4, <1>5, <2>1, <2>2 DEF FreshAccount
<1>7. CASE UpdateCheckDuplicates(r)
  <2>1. ~DuplicateRemainder(r) /\ req'[r].pc = "fetch"
    BY <1>1, <1>7, ReturnLocals, GotoLocals DEF UpdateCheckDuplicates
  <2> QED BY <1>3, <1>4, <2>1 DEF DuplicateRemainder, FreshRemainder
<1> QED BY <1>2, <1>3, <1>6, <1>7

(* What was free for a request is free but for the rows that came since.      *)
LEMMA FreshStays ==
    ASSUME UniqueInv, Step, Overlooks, NEW r \in Requests,
           ReliesOnCheck(r)', ~At(r, "duplicates")
    PROVE  /\ req'[r].pc \in {"nachaInsert", "insert"} => FreshAccount(r)'
           /\ req'[r].op = "update" /\ req'[r].pay.type = "Balance Remainder" => FreshRemainder(r)'
<1>t. StoresOK /\ \A i \in live : i < nextId
  BY DEF UniqueInv
<1>1. /\ ReliesOnCheck(r) /\ req'[r].op = req[r].op /\ req'[r].emp = req[r].emp
      /\ req'[r].acct = req[r].acct /\ req'[r].pay = req[r].pay
  BY <1>t, ReliedBefore, AskedFor
<1>2. unseen'[r] = unseen[r] \cup NewRows
  BY DEF Overlooks
<1>3. \A i \in live : i # nextId
  BY <1>t, IdsBelow
<1>4. \A i \in live : dd'[i].emp = dd[i].emp /\ dd'[i].acct = dd[i].acct
  BY <1>t, <1>3, RowsKept
<1>5. ASSUME req'[r].pc \in {"nachaInsert", "insert"}
      PROVE  FreshAccount(r)'
  <2>1. req'[r].op = "create"
    BY <1>5, <1>t, Kinds, TypeStep DEF StoresOK, CreateRequest
  <2>2. FreshAccount(r)
    BY <1>1, <2>1 DEF ReliesOnCheck, UniqueInv, UniqueLocals
  <2> QED BY <1>1, <1>2, <1>4, <2>2 DEF FreshAccount, NewRows
<1>6. ASSUME req'[r].op = "update", req'[r].pay.type = "Balance Remainder"
      PROVE  FreshRemainder(r)'
  <2>1. FreshRemainder(r)
    BY <1>1, <1>6 DEF UniqueInv, UniqueLocals, At
  <2> QED BY <1>1, <1>2, <1>4, <2>1 DEF FreshRemainder, NewRows
<1> QED BY <1>5, <1>6

(* The row that an update has fetched is one of the employee.                 *)
LEMMA FetchedRow ==
    ASSUME UniqueInv, Step, NEW r \in Requests, req'[r].op = "update",
           req'[r].pc \in Later
    PROVE  /\ req'[r].id < nextId'
           /\ req'[r].id \in live' => dd'[req'[r].id].emp = req'[r].emp
<1>t. StoresOK /\ \A i \in live : i < nextId
  BY DEF UniqueInv
<1>b. /\ nextId \notin live /\ live' \subseteq live \cup {nextId}
      /\ nextId \in Int /\ nextId' \in Int /\ nextId <= nextId'
  BY <1>t, IdsBelow
<1>1. ~At(r, "idle") /\ req'[r].pc # "idle"
  BY <1>t, StepCases, StartLocals, ReturnLocals
     DEF Later, Fail, Handler, At, Create, ReadNachaForCheck, CreateCheckDuplicates,
         ReadNachaForInsert, Insert, Update, UpdateCheckDuplicates, UpdateFetch, UpdateWrite,
         Remove, RemoveFetch, Delete, EndDate,
         Evolution, ReadEvolutionKeys, EvoGet, EvoPut, ClearCache
<1>2. /\ req[r].op = "update" /\ req'[r].emp = req[r].emp
      /\ Insert(r) \/ req'[r].id = req[r].id
  BY <1>t, <1>1, AskedFor
<1>3. req'[r].id = req[r].id
  BY <1>t, <1>2, Kinds DEF Insert, At, StoresOK, CreateRequest
<1> DEFINE i == req[r].id
<1>5. i \in live => dd'[i].emp = dd[i].emp
  BY <1>t, <1>b, RowsKept
<1>i. i \in Ids /\ i \in Int
  BY <1>t, <1>2, Kinds DEF StoresOK, UpdateRequest, Ids
<1>6. CASE req[r].pc \in Later
  <2>1. i < nextId /\ (i \in live => dd[i].emp = req[r].emp)
    BY <1>2, <1>6 DEF UniqueInv, UniqueLocals
  <2>2. i < nextId'
    BY <1>b, <1>i, <2>1
  <2>3. i \in live' => i \in live
    BY <1>b, <1>i, <2>1
  <2> QED BY <1>2, <1>3, <1>5, <2>1, <2>2, <2>3
<1>7. CASE req[r].pc \notin Later
  <2>1. UpdateFetch(r)
    <3>1. Handler(r)
      BY <1>t, <1>1, <1>7, StepCases, ReturnLocals
         DEF Start, StartCreate, StartUpdate, StartRemove, Fail, At
    <3> QED BY <1>t, <1>2, <1>7, <3>1, GotoLocals, ReturnLocals, Kinds
            DEF Later, Handler, At, Create, ReadNachaForCheck, CreateCheckDuplicates,
                ReadNachaForInsert, Insert, Update, UpdateCheckDuplicates, UpdateWrite,
                Remove, RemoveFetch, Delete, EndDate, StoresOK, CreateRequest, RemoveRequest,
                Evolution, ReadEvolutionKeys, EvoGet, EvoPut, ClearCache
  <2>2. Found(r)
    BY <1>t, <1>1, <2>1, ReturnLocals DEF UpdateFetch
  <2>3. UNCHANGED <<dd, nextId>>
    BY <2>1 DEF UpdateFetch
  <2> QED BY <1>t, <1>2, <1>3, <2>2, <2>3 DEF Found
<1> QED BY <1>6, <1>7

(* An account is doubled only behind the back of the check of its create.     *)
LEMMA AccountStays ==
    ASSUME UniqueInv, Step, GoesAstray
    PROVE  AccountUnique'
<1>t. StoresOK /\ \A i \in live : i < nextId
  BY DEF UniqueInv
<1>b. nextId \notin live /\ live' \subseteq live \cup {nextId}
  BY <1>t, IdsBelow
<1>a. astray \subseteq astray'
  BY DEF GoesAstray
<1>1. \A i \in live : dd'[i].emp = dd[i].emp /\ dd'[i].acct = dd[i].acct
  BY <1>t, <1>b, RowsKept
<1>2. ASSUME nextId \in live', NEW j \in live, dd'[nextId].emp = dd'[j].emp,
             dd'[nextId].acct = dd'[j].acct
      PROVE  <<"account", {nextId, j}>> \in astray'
  <2>1. PICK r \in Requests : Insert(r)
    BY <1>t, <1>b, <1>2, Effects DEF Delete
  <2>2. dd'[nextId] = NewRow(r)
    BY <1>t, <2>1 DEF Insert, StoresOK
  <2>3. dd[j].emp = req[r].emp /\ dd[j].acct = req[r].acct
    BY <1>1, <1>2, <2>2 DEF NewRow
  <2>4. j \in unseen[r]
    BY <2>1, <2>3 DEF Insert, At, UniqueInv, UniqueLocals, FreshAccount
  <2>5. SameAccount(j, req[r].emp, req[r].acct, TRUE)
    BY <2>3 DEF SameAccount
  <2>6. Passes(r, "insert")
    BY <1>t, <2>1, PassedSteps
  <2>7. <<"account", {nextId, j}>> \in Doubled(r)
    BY <2>4, <2>5, <2>6 DEF Doubled
  <2> QED BY <2>7 DEF GoesAstray
<1>3. ASSUME NEW i \in live', NEW j \in live', dd'[i].emp = dd'[j].emp,
             dd'[i].acct = dd'[j].acct, <<"account", {i, j}>> \notin astray'
      PROVE  i = j
  <2>1. CASE i \in live /\ j \in live
    BY <1>a, <1>1, <1>3, <2>1 DEF UniqueInv, DepositsUnique, AccountUnique
  <2>2. CASE i = nextId /\ j \in live
    BY <1>2, <1>3, <2>2
  <2>3. CASE i \in live /\ j = nextId
    <3>1. {nextId, i} = {i, j}
      BY <2>3
    <3> QED BY <1>2, <1>3, <2>3, <3>1
  <2> QED BY <1>b, <1>3, <2>1, <2>2, <2>3
<1> QED BY <1>3 DEF AccountUnique

(* A remainder is doubled only behind the back of the check of its update.    *)
LEMMA RemainderStays ==
    ASSUME UniqueInv, Step, GoesAstray
    PROVE  PatchedRemainderUnique'
<1>t. StoresOK /\ \A i \in live : i < nextId
  BY DEF UniqueInv
<1>b. nextId \notin live /\ live' \subseteq live \cup {nextId}
  BY <1>t, IdsBelow
<1>a. astray \subseteq astray'
  BY DEF GoesAstray
<1>1. \A i \in live :
         /\ dd'[i].emp = dd[i].emp
         /\ dd'[i].code = dd[i].code \/ \E r \in Requests : UpdateWrite(r) /\ req[r].id = i
  BY <1>t, <1>b, RowsKept
<1>2. nextId \in live' => dd'[nextId].code # "Balance Remainder"
  <2> SUFFICES ASSUME nextId \in live'
               PROVE  dd'[nextId].code # "Balance Remainder"
    OBVIOUS
  <2>1. PICK r \in Requests : Insert(r)
    BY <1>t, <1>b, Effects DEF Delete
  <2> QED BY <1>t, <2>1 DEF Insert, NewRow, CreatedCode, StoresOK
<1>3. ASSUME NEW i \in live, NEW j \in live, i # j, dd[i].emp = dd[j].emp,
             dd'[i].code = "Balance Remainder", dd[i].code # "Balance Remainder",
             dd'[j].code = "Balance Remainder"
      PROVE  <<"remainder", {i, j}>> \in astray'
  <2>1. PICK r \in Requests : UpdateWrite(r) /\ req[r].id = i
    BY <1>1, <1>3
  <2>2. /\ At(r, "write") /\ req'[r].pc = "idle"
        /\ req[r].op = "update" /\ req[r].pay \in Pays /\ i \in Ids /\ j \in Ids
    <3>1. At(r, "write") /\ req'[r].pc = "idle"
      BY <1>t, <2>1, PassedSteps
    <3>2. req[r] \in UpdateRequest
      BY <1>t, <3>1, Kinds DEF At, StoresOK
    <3>3. i \in Ids /\ j \in Ids
      BY <1>t DEF StoresOK
    <3> QED BY <3>1, <3>2, <3>3 DEF UpdateRequest
  <2>3. req[r].pay.type = "Balance Remainder"
    <3>1. dd' = [dd EXCEPT ![i].code = UpdatedCode(req[r].pay.type),
                          ![i].amt = StoredAmount(req[r].pay)]
      BY <2>1 DEF UpdateWrite
    <3>2. dd'[i].code = UpdatedCode(req[r].pay.type)
      BY <1>t, <2>2, <3>1 DEF StoresOK, Row
    <3> QED BY <1>3, <2>2, <3>2 DEF UpdatedCode, Pays
  <2>4. dd'[j] = dd[j]
    BY <1>t, <1>3, <2>1, <2>2 DEF UpdateWrite, StoresOK
  <2>5. dd[i].emp = req[r].emp /\ FreshRemainder(r)
    BY <2>1, <2>2, <2>3 DEF UniqueInv, UniqueLocals, Later, At
  <2>6. j \in unseen[r] /\ dd[j].emp = req[r].emp /\ dd[j].code = "Balance Remainder"
    BY <1>3, <2>4, <2>5 DEF FreshRemainder
  <2>7. dd' # dd
    BY <1>3
  <2>8. <<"remainder", {i, j}>> \in Doubled(r)
    BY <2>1, <2>2, <2>6, <2>7 DEF Doubled
  <2> QED BY <2>8 DEF GoesAstray
<1>4. ASSUME NEW i \in live', NEW j \in live', i # j, dd'[i].emp = dd'[j].emp,
             dd'[i].code = "Balance Remainder", dd'[j].code = "Balance Remainder"
      PROVE  <<"remainder", {i, j}>> \in astray'
  <2>1. i \in live /\ j \in live /\ dd[i].emp = dd[j].emp /\ {j, i} = {i, j}
    BY <1>b, <1>1, <1>2, <1>4
  <2>2. CASE dd[i].code # "Balance Remainder"
    BY <1>3, <1>4, <2>1, <2>2
  <2>3. CASE dd[j].code # "Balance Remainder"
    <3>1. <<"remainder", {j, i}>> \in astray'
      BY <1>3, <1>4, <2>1, <2>3
    <3> QED BY <2>1, <3>1
  <2>4. CASE dd[i].code = "Balance Remainder" /\ dd[j].code = "Balance Remainder"
    BY <1>a, <1>4, <2>1, <2>4 DEF UniqueInv, DepositsUnique, PatchedRemainderUnique
  <2> QED BY <2>2, <2>3, <2>4
<1> QED BY <1>4 DEF PatchedRemainderUnique

LEMMA UniqueStep ==
    ASSUME UniqueInv, Step, Overlooks, GoesAstray
    PROVE  UniqueInv'
<1>t. StoresOK /\ StoresOK'
  BY TypeStep DEF UniqueInv
<1>1. \A i \in live' : i < nextId'
  BY <1>t, IdsBelow DEF UniqueInv
<1>2. ASSUME NEW r \in Requests
      PROVE  UniqueLocals(r)'
  <2>1. /\ req'[r].pc \in {"nachaInsert", "insert"} => FreshAccount(r)'
        /\ req'[r].op = "update" /\ req'[r].pc # "duplicates"
             /\ req'[r].pay.type = "Balance Remainder" => FreshRemainder(r)'
    BY <1>t, CheckPassed, FreshStays DEF ReliesOnCheck
  <2> QED BY <2>1, FetchedRow DEF UniqueLocals
<1> QED BY <1>t, <1>1, <1>2, AccountStays, RemainderStays DEF UniqueInv, DepositsUnique

\* For any number of requests at once, with the Nacha flag switched at any time
\* and whatever fails, is ended, rejected or deleted: two deposits of an employee
\* name the same account, or are the remainder by an update, only if the check of
\* the one was over when the other came, or could not read its account.
THEOREM DuplicatesRefused == Spec => []DepositsUnique
<1>1. UniqueInv /\ [Next]_vars => UniqueInv'
  <2>1. UniqueInv /\ UNCHANGED vars => UniqueInv'
    BY DEF vars, history, UniqueInv, StoresOK, UniqueLocals, FreshAccount, FreshRemainder,
           DepositsUnique, AccountUnique, PatchedRemainderUnique
  <2> QED BY <2>1, UniqueStep DEF Next
<1>2. UniqueInv => DepositsUnique
  BY DEF UniqueInv
<1> QED BY <1>1, <1>2, UniqueInit, PTL DEF Spec

-----------------------------------------------------------------------------
(* update and Evolution.  An update that is about to write an approved row has *)
(* told Evolution, or it has met what it cannot prevent: its PUT was refused,  *)
(* the row was approved, or the ED was changed again.                          *)

Told(r) ==
    /\ req[r].id \in synced
    /\ ed[req[r].id].method = EvoMethod(req[r].pay.type)
    /\ ed[req[r].id].amt = req[r].pay.amt

AboutToWrite(r) == req[r].pc \in {"clearCache", "write"} /\ req[r].id \in live

MirrorLocals(r) ==
    req[r].op = "update" =>
        /\ req[r].pc \in {"evoGet", "evoPut"} => req[r].id \in synced
        /\ req[r].pc = "evoPut" => /\ req[r].ed.method = EvoMethod(req[r].pay.type)
                                   /\ req[r].ed.amt = req[r].pay.amt
        /\ AboutToWrite(r) /\ dd[req[r].id].status = "Approved"
               => Told(r) \/ met[r] # {}

MirrorInv == UniqueInv /\ \A r \in Requests : MirrorLocals(r)

LEMMA MirrorInit == Init => MirrorInv
BY UniqueInit, IdleHasNoOp DEF Init, MirrorInv, MirrorLocals

(* Before its GET a request is not bound to anything.                          *)
LEMMA MirrorVacuous ==
    ASSUME NEW r \in Requests,
           req'[r].op # "update" \/ req'[r].pc \in {"idle", "duplicates", "fetch", "keys", "nachaCheck"}
    PROVE  MirrorLocals(r)'
BY DEF MirrorLocals, AboutToWrite

(* A request that does not move has met what befalls its row.                  *)
LEMMA MirrorWaits ==
    ASSUME MirrorInv, Step, Meets, NEW r \in Requests, req'[r] = req[r]
    PROVE  MirrorLocals(r)'
<1>t. StoresOK /\ \A i \in live : i < nextId
  BY DEF MirrorInv, UniqueInv
<1> DEFINE i == req[r].id
<1> SUFFICES ASSUME req[r].op = "update"
             PROVE  MirrorLocals(r)'
  BY MirrorVacuous
<1>1. synced \subseteq synced'
  BY <1>t, Effects DEF SyncToEvolution
<1>2. ASSUME AboutToWrite(r)', dd'[i].status = "Approved"
      PROVE  Told(r)' \/ met'[r] # {}
  <2>1. req[r].pc \in {"clearCache", "write"} /\ i \in live'
    BY <1>2 DEF AboutToWrite
  <2>2. i \in Ids /\ i < nextId
    <3>1. req[r] \in UpdateRequest
      BY <1>t, Kinds DEF StoresOK
    <3>2. i < nextId
      BY <2>1 DEF MirrorInv, UniqueInv, UniqueLocals, Later
    <3> QED BY <3>1, <3>2 DEF UpdateRequest
  <2>3. i \in live
    <3>1. live' \subseteq live \cup {nextId} /\ nextId \in Int
      BY <1>t, IdsBelow
    <3> QED BY <2>1, <2>2, <3>1 DEF Ids
  <2>4. met'[r] = met[r] \cup News(i)
    BY <2>1, MetGrows DEF Passes, At
  <2>5. CASE dd[i].status # "Approved"
    BY <1>2, <2>2, <2>4, <2>5 DEF News
  <2>6. CASE <<ed'[i].method, ed'[i].amt>> # <<ed[i].method, ed[i].amt>>
    BY <2>2, <2>4, <2>6 DEF News
  <2>7. CASE dd[i].status = "Approved" /\ <<ed'[i].method, ed'[i].amt>> = <<ed[i].method, ed[i].amt>>
    <3>1. Told(r) \/ met[r] # {}
      BY <2>1, <2>3, <2>7 DEF MirrorInv, MirrorLocals, AboutToWrite
    <3>2. Told(r) => Told(r)'
      BY <1>1, <2>7 DEF Told
    <3> QED BY <2>4, <3>1, <3>2
  <2> QED BY <2>5, <2>6, <2>7
<1>3. /\ req[r].pc \in {"evoGet", "evoPut"} => req[r].id \in synced'
      /\ req[r].pc = "evoPut" => /\ req[r].ed.method = EvoMethod(req[r].pay.type)
                                 /\ req[r].ed.amt = req[r].pay.amt
  BY <1>1 DEF MirrorInv, MirrorLocals
<1> QED BY <1>2, <1>3 DEF MirrorLocals

(* An update goes through Evolution, or around it.                             *)
LEMMA MirrorUpdate ==
    ASSUME MirrorInv, Step, NEW r \in Requests, Update(r)
    PROVE  MirrorLocals(r)'
<1>t. StoresOK
  BY DEF MirrorInv, UniqueInv
<1>1. CASE Return(r)
  BY <1>t, <1>1, ReturnLocals, MirrorVacuous
<1>2. CASE Goto(r, "fetch")
  BY <1>t, <1>2, GotoLocals, MirrorVacuous
<1>3. CASE UpdateFetch(r) /\ Branch(r, AfterUpdateFetch(dd[req[r].id].status))
  <2>1. /\ req'[r].pc = AfterUpdateFetch(dd[req[r].id].status)
        /\ req'[r].id = req[r].id
    BY <1>t, <1>3, BranchLocals DEF Kept, Fields
  <2>2. UNCHANGED dd
    BY <1>3 DEF UpdateFetch
  <2> QED BY <2>1, <2>2 DEF MirrorLocals, AboutToWrite, AfterUpdateFetch
<1> QED BY <1>1, <1>2, <1>3 DEF Update, UpdateCheckDuplicates, UpdateFetch, UpdateWrite

LEMMA MirrorEvolution ==
    ASSUME MirrorInv, Step, Meets, NEW r \in Requests, Evolution(r)
    PROVE  MirrorLocals(r)'
<1> DEFINE i == req[r].id
<1>0. StoresOK
  BY DEF MirrorInv, UniqueInv
<1>1. CASE Return(r)
  BY <1>0, <1>1, ReturnLocals, MirrorVacuous
<1>2. CASE ReadEvolutionKeys(r) /\ Goto(r, "evoGet")
  <2>1. req'[r].pc = "evoGet" /\ req'[r].id = i /\ i \in synced
    BY <1>0, <1>2, GotoLocals, ReturnLocals DEF ReadEvolutionKeys, Kept, Fields
  <2>2. UNCHANGED synced
    BY <1>2 DEF ReadEvolutionKeys
  <2> QED BY <2>1, <2>2 DEF MirrorLocals, AboutToWrite
<1>3. CASE EvoGet(r)
  <2>1. /\ req'[r].pc = "evoPut" /\ req'[r].id = i /\ req'[r].op = req[r].op
        /\ req'[r].pay = req[r].pay /\ req'[r].ed = EdToPut(r)
    BY <1>0, <1>3, EvoGetLocals DEF Kept, Fields
  <2>2. i \in Ids /\ ed[i] \in Ed
    BY <1>0, <1>3, WorkedOnId DEF EvoGet, At, StoresOK
  <2>3. req[r].op = "update" => /\ EdToPut(r).method = EvoMethod(req[r].pay.type)
                                /\ EdToPut(r).amt = req[r].pay.amt
    BY <2>2 DEF EdToPut, Ed
  <2>4. UNCHANGED synced /\ (req[r].op = "update" => i \in synced)
    BY <1>3 DEF EvoGet, At, MirrorInv, MirrorLocals
  <2> QED BY <2>1, <2>3, <2>4 DEF MirrorLocals, AboutToWrite
<1>4. CASE EvoPut(r)
  <2>1. /\ req'[r].pc = AfterEvo(r) /\ req'[r].id = i /\ req'[r].op = req[r].op
        /\ req'[r].pay = req[r].pay
    BY <1>0, <1>4, GotoLocals DEF EvoPut, Kept, Fields
  <2>2. met'[r] = IF ed'[i] = req[r].ed THEN {} ELSE {"refused"}
    BY <1>0, <1>4, <2>1, PassedSteps DEF Meets, EvoPut, At, AfterEvo
  <2>3. req[r].op = "update" => /\ i \in synced
                                /\ req[r].ed.method = EvoMethod(req[r].pay.type)
                                /\ req[r].ed.amt = req[r].pay.amt
    BY <1>4 DEF EvoPut, At, MirrorInv, MirrorLocals
  <2>4. UNCHANGED synced
    BY <1>4 DEF EvoPut
  <2>5. req[r].op = "update" => Told(r)' \/ met'[r] # {}
    BY <2>1, <2>2, <2>3, <2>4 DEF Told
  <2> QED BY <2>1, <2>5 DEF MirrorLocals, AfterEvo
<1> QED BY <1>1, <1>2, <1>3, <1>4 DEF Evolution, ReadEvolutionKeys

LEMMA MirrorClearCache ==
    ASSUME MirrorInv, Step, Meets, NEW r \in Requests, ClearCache(r)
    PROVE  MirrorLocals(r)'
<1>0. StoresOK
  BY DEF MirrorInv, UniqueInv
<1>1. CASE Return(r)
  BY <1>0, <1>1, ReturnLocals, MirrorVacuous
<1>2. CASE Goto(r, "write")
  <2>1. /\ req'[r].pc = "write" /\ req'[r].op = req[r].op /\ req'[r].id = req[r].id
        /\ req'[r].pay = req[r].pay
    BY <1>0, <1>2, GotoLocals DEF Kept, Fields
  <2>2. req[r].pc = "clearCache" /\ UNCHANGED <<live, dd, synced, ed>>
    BY DEF ClearCache, At
  <2>3. met[r] \subseteq met'[r]
    BY <2>1, <2>2, MetGrows DEF Passes, At
  <2>4. Told(r) => Told(r)'
    BY <2>1, <2>2 DEF Told
  <2> QED BY <2>1, <2>2, <2>3, <2>4 DEF MirrorInv, MirrorLocals, AboutToWrite
<1> QED BY <1>1, <1>2 DEF ClearCache

(* The steps of create and of remove are not those of an update.               *)
LEMMA MirrorElsewhere ==
    ASSUME MirrorInv, Step, NEW r \in Requests, Create(r) \/ Remove(r)
    PROVE  MirrorLocals(r)'
<1>t. StoresOK
  BY DEF MirrorInv, UniqueInv
<1>1. req[r] \in CreateRequest \cup RemoveRequest
  BY <1>t, Kinds
     DEF Create, ReadNachaForCheck, CreateCheckDuplicates, ReadNachaForInsert, Insert,
         Remove, RemoveFetch, Delete, EndDate, At, StoresOK
<1>2. req[r].op # "update" /\ ~At(r, "idle")
  BY <1>1 DEF CreateRequest, RemoveRequest, CreateLabels, RemoveLabels, At
<1>3. req'[r].pc = "idle" \/ req'[r].op = req[r].op
  BY <1>t, <1>2, AskedFor
<1> QED BY <1>2, <1>3, MirrorVacuous

LEMMA MirrorStep ==
    ASSUME MirrorInv, Step, Meets, Overlooks, GoesAstray
    PROVE  MirrorInv'
<1>t. StoresOK
  BY DEF MirrorInv, UniqueInv
<1>1. ASSUME NEW r \in Requests
      PROVE  MirrorLocals(r)'
  <2>1. CASE Start(r)
    BY <1>t, <2>1, StartLocals, MirrorVacuous
  <2>2. CASE Fail(r)
    BY <1>t, <2>2, ReturnLocals, MirrorVacuous DEF Fail
  <2>3. CASE Handler(r)
    BY <2>3, MirrorUpdate, MirrorEvolution, MirrorClearCache, MirrorElsewhere DEF Handler
  <2> QED BY <1>t, <2>1, <2>2, <2>3, MirrorWaits, StepCases
<1> QED BY <1>1, UniqueStep DEF MirrorInv

\* What update.sql writes is shown as the type that Evolution was sent.
LEMMA TypesAgree ==
    ASSUME NEW pay \in Pays
    PROVE  /\ ShownType(UpdatedCode(pay.type)) = pay.type
           /\ StoredAmount(pay) = IF pay.amt = None THEN None ELSE TruncatedAmount[pay.amt]
BY ConstantsAssumption DEF Pays, ShownType, UpdatedCode, StoredAmount

(* The only step that changes the type or the amount of a row is the write of *)
(* an update.                                                                 *)
LEMMA OnlyUpdateWrites ==
    ASSUME MirrorInv, Step, NEW i \in live,
           <<dd'[i].code, dd'[i].amt>> # <<dd[i].code, dd[i].amt>>
    PROVE  \E r \in Requests : UpdateWrite(r) /\ req[r].id = i
<1>0. StoresOK /\ \A j \in live : j < nextId
  BY DEF MirrorInv, UniqueInv
<1>1. i \in Ids /\ dd \in [Ids -> Row] /\ i # nextId
  BY <1>0, IdsBelow DEF StoresOK
<1>2. dd' # dd /\ dd'[i] # dd[i]
  BY <1>1
<1>3. ASSUME NEW r \in Requests, Insert(r)
      PROVE  FALSE
  BY <1>1, <1>2, <1>3 DEF Insert
<1>4. ASSUME NEW r \in Requests, EndDate(r)
      PROVE  FALSE
  BY <1>1, <1>4 DEF EndDate, Row
<1>5. ASSUME NEW j \in Ids, NEW status, Decide(j, status)
      PROVE  FALSE
  BY <1>1, <1>5 DEF Decide, Row
<1>6. ASSUME NEW r \in Requests, UpdateWrite(r)
      PROVE  req[r].id = i
  BY <1>1, <1>2, <1>6 DEF UpdateWrite
<1> QED BY <1>0, <1>2, <1>3, <1>4, <1>5, <1>6, Effects

LEMMA MirrorWrite ==
    ASSUME MirrorInv, NEW r \in Requests, UpdateWrite(r), NEW i \in live,
           req[r].id = i, dd[i].status = "Approved", met[r] = {}
    PROVE  i \in synced /\ HrMirrorsEvo(i)'
<1> DEFINE pay == req[r].pay
<1>t. StoresOK
  BY DEF MirrorInv, UniqueInv
<1>1. req[r] \in UpdateRequest
  BY <1>t, Kinds DEF StoresOK, UpdateWrite, At
<1>2. i \in Ids /\ pay \in Pays /\ req[r].op = "update"
  BY <1>1 DEF UpdateRequest
<1>3. Told(r)
  BY <1>2 DEF UpdateWrite, At, MirrorInv, MirrorLocals, AboutToWrite
<1>4. dd'[i].code = UpdatedCode(pay.type) /\ dd'[i].amt = StoredAmount(pay)
  <2>1. dd' = [dd EXCEPT ![i].code = UpdatedCode(pay.type), ![i].amt = StoredAmount(pay)]
    BY DEF UpdateWrite
  <2> QED BY <1>t, <1>2, <2>1 DEF StoresOK, Row
<1>5. UNCHANGED ed
  BY DEF UpdateWrite
<1>6. ed'[i].method = EvoMethod(pay.type) /\ ed'[i].amt = pay.amt /\ i \in synced
  BY <1>3, <1>5 DEF Told
<1>7. /\ ed'[i].method = EvoMethod(ShownType(dd'[i].code))
      /\ dd'[i].amt = IF ed'[i].amt = None THEN None ELSE TruncatedAmount[ed'[i].amt]
  BY <1>2, <1>4, <1>6, TypesAgree
<1> QED BY <1>6, <1>7 DEF HrMirrorsEvo

\* For any number of requests at once, whatever fails or is approved meanwhile:
\* update writes an approved deposit in HR only when Evolution has the same type
\* and amount, and never one without ED, unless this very update has met one of
\* three things: its PUT was refused, the deposit was approved since it was
\* fetched, or another request has changed the ED since the PUT.
THEOREM UpdatesReachEvoFirst == Spec => UpdateInEvoFirst
<1>1. MirrorInv /\ [Next]_vars => MirrorInv'
  <2>1. MirrorInv /\ UNCHANGED vars => MirrorInv'
    BY DEF vars, history, MirrorInv, UniqueInv, StoresOK, UniqueLocals, FreshAccount,
           FreshRemainder, DepositsUnique, AccountUnique, PatchedRemainderUnique,
           MirrorLocals, AboutToWrite, Told
  <2> QED BY <2>1, MirrorStep DEF Next
<1>2. MirrorInv /\ [Next]_vars =>
        [\A i \in live :
            /\ dd[i].status = "Approved"
            /\ <<dd'[i].code, dd'[i].amt>> # <<dd[i].code, dd[i].amt>>
            => \E r \in Requests :
                  /\ At(r, "write") /\ req'[r].pc = "idle" /\ req[r].id = i
                  /\ (met[r] # {} \/ (i \in synced /\ HrMirrorsEvo(i)'))]_vars
  <2>1. ASSUME MirrorInv, Step, NEW i \in live, dd[i].status = "Approved",
               <<dd'[i].code, dd'[i].amt>> # <<dd[i].code, dd[i].amt>>
        PROVE  \E r \in Requests :
                  /\ At(r, "write") /\ req'[r].pc = "idle" /\ req[r].id = i
                  /\ (met[r] # {} \/ (i \in synced /\ HrMirrorsEvo(i)'))
    <3>1. PICK r \in Requests : UpdateWrite(r) /\ req[r].id = i
      BY <2>1, OnlyUpdateWrites
    <3>2. At(r, "write") /\ req'[r].pc = "idle"
      BY <2>1, <3>1, PassedSteps DEF MirrorInv, UniqueInv
    <3>3. met[r] # {} \/ (i \in synced /\ HrMirrorsEvo(i)')
      BY <2>1, <3>1, MirrorWrite
    <3> QED BY <3>1, <3>2, <3>3
  <2> QED BY <2>1 DEF Next
<1> QED BY <1>1, <1>2, MirrorInit, PTL DEF Spec, UpdateInEvoFirst

-----------------------------------------------------------------------------
(***************************************************************************)
(* Group term life.                                                        *)
(***************************************************************************)

LEMMA OrNullType == ASSUME NEW x \in Figure PROVE OrNull(x) \in Figure
BY DEF OrNull, Figure

LEMMA StoredType ==
    ASSUME NEW f \in Figures
    PROVE  /\ Stored(f) \in [amount : Stores(StoredNumber), rate : Stores(StoredNumber),
                             hours : Stores(StoredHours)]
           /\ Stored(f) \in Figures
<1>1. ASSUME NEW x \in Figure, NEW column \in [Numbers -> Numbers]
      PROVE  /\ InColumn(column, OrNull(x)) \in Stores(column)
             /\ InColumn(column, OrNull(x)) \in Figure
  BY OrNullType DEF InColumn, Stores, Figure
<1> QED BY <1>1, NumbersAssumption DEF Stored, Figures

\* What reaches Evolution stands for the figures of the body.
LEMMA PutType ==
    ASSUME GtlTypeOK, NEW r \in Requests, At(r, "evolution")
    PROVE  /\ req[r] \in GtlRequest
           /\ FiguresToPut(r) \in Figures
           /\ ~OmittedKept => Stored(FiguresToPut(r)) = Stored(req[r].body.figures)
<1> DEFINE f == req[r].body.figures
<1>1. req[r] \in GtlRequest /\ f \in Figures /\ evo[req[r].emp] \in Figures
  BY DEF GtlTypeOK, At, GtlRequest, GtlIdle, Body
<1>2. \A x, y \in Figure : Sent(x, y) \in Figure /\ (~OmittedKept => Sent(x, y) = y)
  BY DEF Sent
<1>3. FiguresToPut(r) \in Figures
  BY <1>1, <1>2, OrNullType DEF FiguresToPut, Figures, OrNulls
<1>4. \A x \in Figure : OrNull(OrNull(x)) = OrNull(x)
  BY DEF OrNull, Given, Figure
<1>5. Stored(OrNulls(f)) = Stored(f)
  BY <1>1, <1>4 DEF Stored, OrNulls, Figures
<1>6. ASSUME ~OmittedKept
      PROVE  Stored(FiguresToPut(r)) = Stored(f)
  <2>1. CASE req[r].op = "create"
    BY <1>1, <1>2, <1>6, <2>1 DEF FiguresToPut, Stored, Figures
  <2>2. CASE req[r].op # "create"
    BY <1>5, <2>2 DEF FiguresToPut
  <2> QED BY <2>1, <2>2
<1> QED BY <1>1, <1>3, <1>6

LEMMA RowsType ==
    ASSUME GtlTypeOK, NEW r \in Requests, At(r, "write")
    PROVE  req[r] \in GtlRequest /\ RowsWritten(r) \in Seq(StoredRow)
<1>1. req[r] \in GtlRequest
  BY DEF GtlTypeOK, At, GtlRequest, GtlIdle
<1>2. GtlRow(req[r].body) \in StoredRow
  BY <1>1, StoredType DEF GtlRequest, Body, GtlRow, StoredRow
<1>3. rows[req[r].emp] \in Seq(StoredRow)
  BY <1>1 DEF GtlTypeOK, GtlRequest
<1> DEFINE current == rows[req[r].emp]
           row == GtlRow(req[r].body)
<1>4. Append(current, row) \in Seq(StoredRow)
  BY <1>2, <1>3
<1>5. [n \in DOMAIN current |-> row] \in Seq(StoredRow)
  <2>1. Len(current) \in Nat /\ DOMAIN current = 1 .. Len(current)
    BY <1>3
  <2>2. [n \in 1 .. Len(current) |-> row] \in [1 .. Len(current) -> StoredRow]
    BY <1>2
  <2> QED BY <2>1, <2>2
<1>6. <<>> \in Seq(StoredRow)
  OBVIOUS
<1> HIDE DEF current, row
<1>7. RowsWritten(r) \in {Append(current, row), [n \in DOMAIN current |-> row], <<>>}
  BY DEF RowsWritten, current, row
<1> QED BY <1>1, <1>4, <1>5, <1>6, <1>7

-----------------------------------------------------------------------------
(* Types, and what a request knows.                                          *)

GtlStoresOK ==
    /\ rows \in [Employees -> Seq(StoredRow)]
    /\ evo \in [Employees -> Figures]
    /\ salaried \in [Employees -> BOOLEAN]
    /\ req \in [Requests -> GtlRequest \cup {GtlIdle}]

LEMMA GtlTypeInit == GtlInit => GtlTypeOK
BY DEF GtlInit, GtlTypeOK, GtlStoresOK, Figures, NoFigures, Figure

LEMMA StoresNext ==
    ASSUME GtlTypeOK, GtlStep
    PROVE  GtlStoresOK'
<1>1. ASSUME NEW r \in Requests, NEW op \in Operations, NEW emp \in Employees,
             NEW body \in Body, StartRequest(r, op, emp, body)
      PROVE  GtlStoresOK'
  <2>1. [pc |-> "read", op |-> op, emp |-> emp, body |-> body] \in GtlRequest
    BY DEF GtlRequest
  <2> QED BY <1>1, <2>1 DEF StartRequest, GtlTypeOK, GtlStoresOK
<1>2. ASSUME NEW r \in Requests, NEW label \in {"existing", "evolution", "write"},
             ~At(r, "idle"), Goto(r, label)
      PROVE  req' \in [Requests -> GtlRequest \cup {GtlIdle}]
  <2>1. req[r] \in GtlRequest
    BY <1>2 DEF GtlTypeOK, At, GtlIdle
  <2>2. [req[r] EXCEPT !.pc = label] \in GtlRequest
    BY <2>1 DEF GtlRequest
  <2> QED BY <1>2, <2>2 DEF Goto, GtlTypeOK
<1>3. ASSUME NEW r \in Requests, GtlReturn(r)
      PROVE  req' \in [Requests -> GtlRequest \cup {GtlIdle}]
  BY <1>3 DEF GtlReturn, GtlTypeOK
<1>4. ASSUME NEW r \in Requests, GtlStart(r)
      PROVE  GtlStoresOK'
  <2>1. NoBody \in Body
    BY DEF NoBody, Body, NoFigures, Figures, Figure
  <2> QED BY <1>1, <1>4, <2>1, NumbersAssumption DEF GtlStart, Operations
<1>5. ASSUME NEW r \in Requests, ReadEmployee(r) \/ ReadExisting(r) \/ GtlFail(r)
      PROVE  GtlStoresOK'
  BY <1>2, <1>3, <1>5 DEF ReadEmployee, ReadExisting, GtlFail, At, GtlTypeOK, GtlStoresOK
<1>6. ASSUME NEW r \in Requests, UpdateEvolution(r)
      PROVE  GtlStoresOK'
  <2>1. evo' \in [Employees -> Figures]
    BY <1>6, PutType DEF UpdateEvolution, GtlTypeOK
  <2> QED BY <1>2, <1>6, <2>1 DEF UpdateEvolution, At, GtlTypeOK, GtlStoresOK
<1>7. ASSUME NEW r \in Requests, WriteRecord(r)
      PROVE  GtlStoresOK'
  <2>1. rows' \in [Employees -> Seq(StoredRow)]
    BY <1>7, RowsType DEF WriteRecord, GtlTypeOK
  <2> QED BY <1>3, <1>7, <2>1 DEF WriteRecord, GtlTypeOK, GtlStoresOK
<1>8. ASSUME NEW e \in Employees, Reclassify(e)
      PROVE  GtlStoresOK'
  BY <1>8 DEF Reclassify, GtlTypeOK, GtlStoresOK
<1> QED BY <1>4, <1>5, <1>6, <1>7, <1>8 DEF GtlStep, GtlHandler

LEMMA GtlTypeStep ==
    ASSUME GtlTypeOK, GtlNext
    PROVE  GtlTypeOK'
<1>1. GtlStoresOK'
  BY StoresNext DEF GtlNext
<1>2. met' \in [Requests -> SUBSET {"created"}]
  BY DEF GtlTypeOK, GtlNext, GtlMeets
<1>3. extra' \in [Employees -> Nat]
  BY DEF GtlTypeOK, GtlNext, CountsExtra
<1> QED BY <1>1, <1>2, <1>3 DEF GtlTypeOK, GtlStoresOK

\* Every store and every request of the handlers is well typed, and the table
\* holds only what its columns can hold.
THEOREM GtlTypeCorrect == GtlSpec => []GtlTypeOK
<1>1. GtlTypeOK /\ [GtlNext]_gtlVars => GtlTypeOK'
  <2>1. GtlTypeOK /\ UNCHANGED gtlVars => GtlTypeOK'
    BY DEF gtlVars, GtlTypeOK
  <2> QED BY <2>1, GtlTypeStep
<1> QED BY <1>1, GtlTypeInit, PTL DEF GtlSpec

-----------------------------------------------------------------------------
(* A record is one kind of coverage.  However many requests are at work, what *)
(* a request has validated is still what it writes, to one row or to all.     *)

\* What the columns keep of a valid body is one kind of coverage.
Exclusive(row) ==
    LET f == row.figures IN
    IF row.flat
    THEN f.amount # None /\ f.rate = None /\ f.hours = None
    ELSE f.amount = None /\ f.rate # None

Validated(r) ==
    req[r].pc \in {"existing", "evolution", "write"} /\ req[r].op # "delete"
        => Exclusive(GtlRow(req[r].body))

CoverageInv ==
    /\ GtlTypeOK
    /\ CoverageExclusive
    /\ \A r \in Requests : Validated(r)

\* No column rounds a figure to NULL, nor NULL to a figure.
LEMMA ColumnKeeps ==
    ASSUME NEW x \in Figure, NEW column \in [Numbers -> Numbers]
    PROVE  InColumn(column, OrNull(x)) # None <=> Given(x)
BY NumbersAssumption DEF InColumn, OrNull, Given, Figure

LEMMA ValidIsExclusive ==
    ASSUME NEW body \in Body, NEW isSalary \in BOOLEAN, Valid(body, isSalary)
    PROVE  Exclusive(GtlRow(body))
<1> DEFINE f == body.figures
<1>1. f \in Figures /\ body.flat \in BOOLEAN
  BY DEF Body
<1>2. f.amount \in Figure /\ f.rate \in Figure /\ f.hours \in Figure
  BY <1>1 DEF Figures
<1>3. /\ Stored(f).amount # None <=> Given(f.amount)
      /\ Stored(f).rate # None <=> Given(f.rate)
      /\ Stored(f).hours # None <=> Given(f.hours)
  BY <1>2, ColumnKeeps, NumbersAssumption DEF Stored
<1>4. GtlRow(body).flat = body.flat /\ GtlRow(body).figures = Stored(f)
  BY DEF GtlRow
<1> HIDE DEF f
<1>5. IF body.flat
      THEN Given(f.amount) /\ ~Given(f.rate) /\ ~Given(f.hours)
      ELSE Given(f.rate) /\ ~Given(f.amount)
  BY DEF Valid, f
<1> QED BY <1>3, <1>4, <1>5 DEF Exclusive

LEMMA CoverageInit == GtlInit => CoverageInv
BY GtlTypeInit, NumbersAssumption DEF GtlInit, CoverageInv, CoverageExclusive, Validated, GtlIdle

LEMMA CoverageStep ==
    ASSUME CoverageInv, GtlNext
    PROVE  CoverageInv'
<1>t. GtlTypeOK /\ GtlTypeOK'
  BY GtlTypeStep DEF CoverageInv
<1>a. ASSUME NEW r \in Requests, CoverageExclusive', Validated(r)',
             \A s \in Requests : s # r => req'[s] = req[s]
      PROVE  CoverageInv'
  BY <1>t, <1>a DEF CoverageInv, Validated
<1>b. UNCHANGED rows => CoverageExclusive'
  BY DEF CoverageInv, CoverageExclusive
<1>1. ASSUME NEW r \in Requests, GtlStart(r)
      PROVE  CoverageInv'
  <2>1. req'[r].pc = "read" /\ UNCHANGED rows /\ \A s \in Requests : s # r => req'[s] = req[s]
    BY <1>t, <1>1 DEF GtlStart, StartRequest, GtlTypeOK
  <2> QED BY <1>a, <1>b, <2>1 DEF Validated
<1>2. ASSUME NEW r \in Requests, GtlReturn(r), CoverageExclusive'
      PROVE  CoverageInv'
  BY <1>a, <1>t, <1>2 DEF GtlReturn, Validated, GtlIdle, GtlTypeOK
<1>3. ASSUME NEW r \in Requests, NEW label \in {"existing", "evolution", "write"},
             ~At(r, "idle"), Goto(r, label), CoverageExclusive',
             label = "existing" /\ req[r].op # "delete" => Exclusive(GtlRow(req[r].body)),
             label # "existing" => req[r].pc \in {"existing", "evolution"}
      PROVE  CoverageInv'
  <2>1. req[r] \in GtlRequest
    BY <1>t, <1>3 DEF GtlTypeOK, At, GtlIdle
  <2>2. /\ req'[r].pc = label /\ req'[r].op = req[r].op /\ req'[r].body = req[r].body
        /\ \A s \in Requests : s # r => req'[s] = req[s]
    BY <1>t, <1>3, <2>1 DEF Goto, GtlTypeOK, GtlRequest
  <2>3. req[r].op # "delete" => Exclusive(GtlRow(req[r].body))
    BY <1>3 DEF CoverageInv, Validated
  <2>4. Validated(r)'
    BY <2>2, <2>3 DEF Validated, Exclusive, GtlRow
  <2> QED BY <1>3, <1>a, <2>2, <2>4
<1>4. ASSUME NEW r \in Requests, ReadEmployee(r)
      PROVE  CoverageInv'
  <2>1. req[r] \in GtlRequest /\ req[r].body \in Body /\ salaried[req[r].emp] \in BOOLEAN
    BY <1>t, <1>4 DEF ReadEmployee, GtlTypeOK, At, GtlIdle, GtlRequest
  <2> QED BY <1>2, <1>3, <1>4, <1>b, <2>1, ValidIsExclusive DEF ReadEmployee, At
<1>5. ASSUME NEW r \in Requests, ReadExisting(r) \/ UpdateEvolution(r) \/ GtlFail(r)
      PROVE  CoverageInv'
  BY <1>2, <1>3, <1>5, <1>b DEF ReadExisting, UpdateEvolution, GtlFail, At
<1>6. ASSUME NEW r \in Requests, WriteRecord(r)
      PROVE  CoverageInv'
  <2> DEFINE e == req[r].emp
             current == rows[e]
             row == GtlRow(req[r].body)
             w == RowsWritten(r)
  <2>1. req[r] \in GtlRequest /\ e \in Employees /\ current \in Seq(StoredRow)
    BY <1>t, <1>6, RowsType DEF WriteRecord, GtlRequest, GtlTypeOK
  <2>2. req[r].op # "delete" => Exclusive(row)
    BY <1>6 DEF CoverageInv, Validated, WriteRecord, At
  <2>3. \A n \in DOMAIN current : Exclusive(current[n])
    BY <2>1 DEF CoverageInv, CoverageExclusive, Exclusive
  <2>4. \A n \in DOMAIN w : Exclusive(w[n])
    <3> HIDE DEF current, row
    <3>1. CASE req[r].op = "create"
      <4>1. w = Append(current, row)
        BY <3>1 DEF RowsWritten, current, row
      <4> QED BY <2>1, <2>2, <2>3, <3>1, <4>1
    <3>2. CASE req[r].op = "update"
      <4>1. w = [n \in DOMAIN current |-> row]
        BY <3>2 DEF RowsWritten, current, row
      <4> QED BY <2>2, <3>2, <4>1
    <3>3. CASE req[r].op = "delete"
      <4>1. w = <<>>
        BY <3>3 DEF RowsWritten
      <4> QED BY <4>1
    <3> QED BY <2>1, <3>1, <3>2, <3>3 DEF GtlRequest, Operations
  <2>5. CoverageExclusive'
    <3>1. ASSUME NEW k \in Employees, NEW n \in DOMAIN rows'[k]
          PROVE  Exclusive(rows'[k][n])
      <4> HIDE DEF w
      <4>1. rows' = [rows EXCEPT ![e] = w]
        BY <1>6 DEF WriteRecord, w
      <4>2. rows'[k] = IF k = e THEN w ELSE rows[k]
        BY <1>t, <4>1 DEF GtlTypeOK
      <4>3. \A m \in DOMAIN rows[k] : Exclusive(rows[k][m])
        BY DEF CoverageInv, CoverageExclusive, Exclusive
      <4> QED BY <2>4, <4>2, <4>3
    <3> QED BY <3>1 DEF CoverageExclusive, Exclusive
  <2> QED BY <1>2, <1>6, <2>5 DEF WriteRecord
<1>7. ASSUME NEW e \in Employees, Reclassify(e)
      PROVE  CoverageInv'
  BY <1>b, <1>t, <1>7 DEF Reclassify, CoverageInv, Validated
<1> QED BY <1>1, <1>4, <1>5, <1>6, <1>7 DEF GtlNext, GtlStep, GtlHandler

\* Every record is a flat amount or a multiple of earnings, never both and never
\* neither: for any number of requests at once, whichever calls fail, however the
\* columns round, and whatever becomes of the employee's classification after the
\* body was validated against it.
THEOREM OneKindOfCoverage == GtlSpec => []CoverageExclusive
<1>1. CoverageInv /\ [GtlNext]_gtlVars => CoverageInv'
  <2>1. CoverageInv /\ UNCHANGED gtlVars => CoverageInv'
    BY DEF gtlVars, CoverageInv, GtlTypeOK, CoverageExclusive, Validated
  <2> QED BY <2>1, CoverageStep
<1>2. CoverageInv => CoverageExclusive
  BY DEF CoverageInv
<1> QED BY <1>1, <1>2, CoverageInit, PTL DEF GtlSpec

-----------------------------------------------------------------------------
(* Steps of one request.                                                      *)

LEMMA GtlOthersStay ==
    ASSUME GtlTypeOK, NEW r \in Requests, GtlStart(r) \/ GtlHandler(r) \/ GtlFail(r)
    PROVE  \A s \in Requests : s # r => req'[s] = req[s]
BY DEF GtlTypeOK, GtlStart, StartRequest, GtlHandler, ReadEmployee, ReadExisting,
       UpdateEvolution, WriteRecord, GtlFail, GtlReturn, Goto

LEMMA GtlStepCases ==
    ASSUME GtlTypeOK, GtlStep, NEW r \in Requests
    PROVE  req'[r] = req[r] \/ GtlStart(r) \/ GtlHandler(r) \/ GtlFail(r)
<1>1. ASSUME NEW e \in Employees, Reclassify(e)
      PROVE  req'[r] = req[r]
  BY <1>1 DEF Reclassify
<1> QED BY <1>1, GtlOthersStay DEF GtlStep

LEMMA GtlGoto ==
    ASSUME GtlTypeOK, NEW r \in Requests, NEW label, Goto(r, label), ~At(r, "idle")
    PROVE  /\ req'[r].pc = label /\ req'[r].op = req[r].op
           /\ req'[r].emp = req[r].emp /\ req'[r].body = req[r].body
BY DEF GtlTypeOK, Goto, At, GtlRequest, GtlIdle

LEMMA GtlReturned ==
    ASSUME GtlTypeOK, NEW r \in Requests, GtlReturn(r)
    PROVE  req'[r] = GtlIdle /\ req'[r].pc = "idle"
BY DEF GtlTypeOK, GtlReturn, GtlIdle

\* The table changes only when a record is written.
LEMMA OnlyWrites ==
    ASSUME GtlTypeOK, GtlStep
    PROVE  \/ UNCHANGED rows
           \/ \E r \in Requests :
                /\ WriteRecord(r) /\ req[r] \in GtlRequest
                /\ \A e \in Employees :
                     rows'[e] = IF e = req[r].emp THEN RowsWritten(r) ELSE rows[e]
<1>1. ASSUME NEW r \in Requests, WriteRecord(r)
      PROVE  /\ req[r] \in GtlRequest
             /\ \A e \in Employees :
                  rows'[e] = IF e = req[r].emp THEN RowsWritten(r) ELSE rows[e]
  <2>1. req[r] \in GtlRequest
    BY <1>1, RowsType DEF WriteRecord
  <2>2. rows' = [rows EXCEPT ![req[r].emp] = RowsWritten(r)]
    BY <1>1 DEF WriteRecord
  <2> QED BY <2>1, <2>2 DEF GtlTypeOK
<1> QED BY <1>1
        DEF GtlStep, GtlStart, StartRequest, GtlHandler, ReadEmployee, ReadExisting,
            UpdateEvolution, GtlFail, Reclassify

\* The rows a write leaves, by the operation.
LEMMA Written ==
    ASSUME GtlTypeOK, NEW r \in Requests, At(r, "write")
    PROVE  LET current == rows[req[r].emp]
               row == GtlRow(req[r].body)
               w == RowsWritten(r) IN
           /\ w \in Seq(StoredRow) /\ current \in Seq(StoredRow)
           /\ req[r].op = "create" => /\ Len(w) = Len(current) + 1
                                      /\ w[1] = IF current = <<>> THEN row ELSE current[1]
           /\ req[r].op = "update" => /\ Len(w) = Len(current)
                                      /\ current # <<>> => w[1] = row
           /\ req[r].op = "delete" => w = <<>>
           /\ req[r].op \in Operations
<1> DEFINE current == rows[req[r].emp]
           row == GtlRow(req[r].body)
           w == RowsWritten(r)
<1>1. w \in Seq(StoredRow) /\ req[r] \in GtlRequest
  BY RowsType
<1>2. current \in Seq(StoredRow) /\ req[r].op \in Operations
  BY <1>1 DEF GtlTypeOK, GtlRequest
<1>3. /\ req[r].op = "create" => w = Append(current, row)
      /\ req[r].op = "update" => w = [n \in DOMAIN current |-> row]
      /\ req[r].op = "delete" => w = <<>>
  BY DEF RowsWritten
<1> HIDE DEF current, row, w
<1>4. ASSUME req[r].op = "create"
      PROVE  /\ Len(w) = Len(current) + 1
             /\ w[1] = IF current = <<>> THEN row ELSE current[1]
  BY <1>2, <1>3, <1>4
<1>5. ASSUME req[r].op = "update"
      PROVE  Len(w) = Len(current) /\ (current # <<>> => w[1] = row)
  <2>1. DOMAIN w = 1 .. Len(current) /\ Len(current) \in Nat
    BY <1>2, <1>3, <1>5
  <2>2. DOMAIN w = 1 .. Len(w) /\ Len(w) \in Nat
    BY <1>1
  <2>3. Len(w) = Len(current)
    BY <2>1, <2>2
  <2>4. current # <<>> => 1 \in DOMAIN current
    BY <1>2
  <2> QED BY <1>3, <1>5, <2>3, <2>4
<1> QED BY <1>1, <1>2, <1>3, <1>4, <1>5 DEF current, row, w

-----------------------------------------------------------------------------
(* One record.  A create that has looked for a record writes while there is   *)
(* none, or it has met another create that inserted its own.                  *)

Knows(r) ==
    req[r].pc \in {"evolution", "write"} /\ req[r].op = "create" /\ "created" \notin met[r]
        => rows[req[r].emp] = <<>>

RecordInv ==
    /\ GtlTypeOK
    /\ OneRecord
    /\ \A r \in Requests : Knows(r)

LEMMA RecordInit == GtlInit => RecordInv
BY GtlTypeInit DEF GtlInit, RecordInv, OneRecord, Knows, GtlIdle

LEMMA OneRecordStep ==
    ASSUME RecordInv, GtlNext
    PROVE  OneRecord'
<1>t. GtlTypeOK /\ GtlTypeOK' /\ GtlStep
  BY GtlTypeStep DEF RecordInv, GtlNext
<1> SUFFICES ASSUME NEW e \in Employees
             PROVE  Len(rows'[e]) <= 1 + extra'[e]
  BY DEF OneRecord
<1>1. /\ Len(rows[e]) \in Nat /\ Len(rows'[e]) \in Nat
      /\ extra[e] \in Nat /\ extra'[e] \in Nat /\ Len(rows[e]) <= 1 + extra[e]
  BY <1>t DEF GtlTypeOK, RecordInv, OneRecord
<1>2. /\ rows'[e] # <<>> => extra'[e] >= extra[e]
      /\ rows'[e] # <<>> /\ (\E r \in Requests : req'[r].pc = "idle" /\ Doubles(r, e))
            => extra'[e] = extra[e] + 1
  BY <1>1 DEF GtlNext, CountsExtra
<1>3. CASE rows'[e] = <<>> \/ rows'[e] = rows[e]
  BY <1>1, <1>2, <1>3
<1>4. CASE rows'[e] # <<>> /\ rows'[e] # rows[e]
  <2>1. PICK r \in Requests : /\ WriteRecord(r) /\ req[r] \in GtlRequest
                               /\ e = req[r].emp /\ rows'[e] = RowsWritten(r)
    BY <1>t, <1>4, OnlyWrites
  <2>2. At(r, "write") /\ req'[r].pc = "idle"
    BY <1>t, <2>1, GtlReturned DEF WriteRecord
  <2>3. req[r].op # "delete" /\ req[r].op \in Operations
    BY <1>t, <1>4, <2>1, <2>2, Written
  <2>4. CASE req[r].op = "update"
    <3>1. Len(rows'[e]) = Len(rows[e])
      BY <1>t, <2>1, <2>2, <2>4, Written
    <3> QED BY <1>1, <1>2, <1>4, <3>1
  <2>5. CASE req[r].op = "create" /\ "created" \in met[r]
    <3>1. Len(rows'[e]) = Len(rows[e]) + 1
      BY <1>t, <2>1, <2>2, <2>5, Written
    <3>2. Doubles(r, e)
      BY <1>1, <2>1, <2>2, <2>5, <3>1 DEF Doubles, Inserted
    <3> QED BY <1>1, <1>2, <1>4, <2>2, <3>1, <3>2
  <2>6. CASE req[r].op = "create" /\ "created" \notin met[r]
    <3>1. Len(rows'[e]) = Len(rows[e]) + 1
      BY <1>t, <2>1, <2>2, <2>6, Written
    <3>2. rows[e] = <<>>
      BY <2>1, <2>2, <2>6 DEF RecordInv, Knows, At
    <3> QED BY <1>1, <3>1, <3>2
  <2> QED BY <2>3, <2>4, <2>5, <2>6 DEF Operations
<1> QED BY <1>3, <1>4

LEMMA KnowsStep ==
    ASSUME RecordInv, GtlNext, NEW r \in Requests
    PROVE  Knows(r)'
<1>t. GtlTypeOK /\ GtlTypeOK' /\ GtlStep
  BY GtlTypeStep DEF RecordInv, GtlNext
<1>1. CASE req'[r] = req[r]
  <2> SUFFICES ASSUME req[r].pc \in {"evolution", "write"}, req[r].op = "create",
                      "created" \notin met'[r]
               PROVE  rows'[req[r].emp] = <<>>
    BY <1>1 DEF Knows
  <2> DEFINE e == req[r].emp
  <2>1. ~Inserted(e) /\ "created" \notin met[r]
    BY <1>1 DEF GtlNext, GtlMeets, At
  <2>2. e \in Employees
    BY <1>t DEF GtlTypeOK, GtlRequest, GtlIdle
  <2>3. rows[e] = <<>>
    BY <2>1 DEF RecordInv, Knows
  <2>4. rows'[e] \in Seq(StoredRow) /\ Len(rows'[e]) \in Nat /\ ~(Len(rows'[e]) > 0)
    BY <1>t, <2>1, <2>2, <2>3 DEF GtlTypeOK, Inserted
  <2> QED BY <2>4
<1>2. CASE GtlStart(r) \/ ReadEmployee(r) \/ WriteRecord(r) \/ GtlFail(r)
  <2>1. GtlStart(r) => req'[r].pc = "read"
    BY <1>t DEF GtlStart, StartRequest, GtlTypeOK
  <2>2. ReadEmployee(r) => req'[r].pc \in {"existing", "idle"}
    BY <1>t, GtlGoto, GtlReturned DEF ReadEmployee, At
  <2>3. WriteRecord(r) \/ GtlFail(r) => req'[r].pc = "idle"
    BY <1>t, GtlReturned DEF WriteRecord, GtlFail
  <2> QED BY <1>2, <2>1, <2>2, <2>3 DEF Knows
<1>3. CASE ReadExisting(r)
  <2>1. CASE GtlReturn(r)
    BY <1>t, <2>1, GtlReturned DEF Knows
  <2>2. CASE Goto(r, "evolution") /\ ~GtlReturn(r)
    <3>1. HasRecord(r) <=> req[r].op # "create"
      BY <1>3, <2>2 DEF ReadExisting
    <3>2. req'[r].op = req[r].op /\ req'[r].emp = req[r].emp /\ UNCHANGED rows
      BY <1>t, <1>3, <2>2, GtlGoto DEF ReadExisting, At
    <3> QED BY <3>1, <3>2 DEF Knows, HasRecord
  <2> QED BY <1>3, <2>1, <2>2 DEF ReadExisting
<1>4. CASE UpdateEvolution(r)
  <2>1. /\ req'[r].pc = "write" /\ req'[r].op = req[r].op /\ req'[r].emp = req[r].emp
        /\ UNCHANGED rows /\ req[r].pc = "evolution"
    BY <1>t, <1>4, GtlGoto DEF UpdateEvolution, At
  <2>2. met'[r] = IF Inserted(req[r].emp) THEN {"created"} ELSE met[r]
    BY <2>1 DEF GtlNext, GtlMeets, At
  <2> QED BY <2>1, <2>2 DEF Knows, RecordInv
<1> QED BY <1>t, <1>1, <1>2, <1>3, <1>4, GtlStepCases DEF GtlHandler

\* For any number of requests at once, and whatever fails: an employee has one
\* record, and one more only for each create that had looked for one before
\* another create inserted its own.
THEOREM RecordUnique == GtlSpec => []OneRecord
<1>1. RecordInv /\ [GtlNext]_gtlVars => RecordInv'
  <2>1. RecordInv /\ UNCHANGED gtlVars => RecordInv'
    BY DEF gtlVars, RecordInv, GtlTypeOK, OneRecord, Knows
  <2>2. RecordInv /\ GtlNext => RecordInv'
    BY GtlTypeStep, OneRecordStep, KnowsStep DEF RecordInv
  <2> QED BY <2>1, <2>2
<1>2. RecordInv => OneRecord
  BY DEF RecordInv
<1> QED BY <1>1, <1>2, RecordInit, PTL DEF GtlSpec

-----------------------------------------------------------------------------
(* The handlers implement PayrollFirst.                                      *)

hrBar == [e \in Employees |-> HrFigures(e)]

payrollBar == [e \in Employees |-> EvoFigures(e)]

toldBar == [r \in Requests |-> Telling(r)]

(* A delete is a write of no figures.                                         *)
TellInv == GtlTypeOK /\ \A r \in Requests : req[r].op = "delete" => req[r].body = NoBody

LEMMA TellInit == GtlInit => TellInv
BY GtlTypeInit, NumbersAssumption DEF GtlInit, TellInv, GtlIdle

LEMMA TellStep ==
    ASSUME TellInv, GtlNext
    PROVE  TellInv'
<1>t. GtlTypeOK /\ GtlTypeOK' /\ GtlStep
  BY GtlTypeStep DEF TellInv, GtlNext
<1>1. ASSUME NEW r \in Requests, req'[r].op = "delete"
      PROVE  req'[r].body = NoBody
  <2>1. CASE req'[r] = req[r]
    BY <1>1, <2>1 DEF TellInv
  <2>2. CASE GtlStart(r)
    BY <1>t, <1>1, <2>2 DEF GtlStart, StartRequest, GtlTypeOK
  <2>3. CASE GtlReturn(r)
    BY <1>t, <1>1, <2>3, GtlReturned, NumbersAssumption DEF GtlIdle
  <2>4. CASE GtlHandler(r) /\ ~GtlReturn(r)
    <3>1. \E label : Goto(r, label) /\ ~At(r, "idle")
      BY <2>4 DEF GtlHandler, ReadEmployee, ReadExisting, UpdateEvolution, WriteRecord, At
    <3>2. req'[r].op = req[r].op /\ req'[r].body = req[r].body
      BY <1>t, <3>1, GtlGoto
    <3> QED BY <1>1, <3>2 DEF TellInv
  <2> QED BY <1>t, <2>1, <2>2, <2>3, <2>4, GtlStepCases DEF GtlFail
<1> QED BY <1>t, <1>1 DEF TellInv

LEMMA PayrollInit == GtlInit => PF!Init
<1> SUFFICES ASSUME GtlInit
             PROVE  PF!Init
  OBVIOUS
<1>1. ASSUME NEW e \in Employees
      PROVE  HrFigures(e) = NoFigures /\ EvoFigures(e) = NoFigures
  BY <1>1 DEF GtlInit, HrFigures, EvoFigures, NoFigures, Stored, InColumn, OrNull, Given
<1>2. ASSUME NEW r \in Requests
      PROVE  Telling(r) = None
  BY <1>2 DEF GtlInit, Telling, At, GtlIdle
<1> QED BY <1>1, <1>2 DEF PF!Init

(* A request that has not reached its write, or has left it, tells nothing.   *)
LEMMA TellsNothing ==
    ASSUME GtlTypeOK, NEW r \in Requests, UNCHANGED <<hrBar, payrollBar>>,
           req'[r].pc # "write", \A s \in Requests : s # r => req'[s] = req[s]
    PROVE  PF!GivesUp(r)
<1>1. \A s \in Requests : s # r => Telling(s)' = Telling(s)
  BY DEF Telling, At
<1>2. Telling(r)' = None
  BY DEF Telling, At
<1>3. toldBar' = [toldBar EXCEPT ![r] = None]
  BY <1>1, <1>2 DEF toldBar
<1> QED BY <1>3 DEF PF!GivesUp, hrBar, payrollBar, toldBar

LEMMA LearnsStep ==
    ASSUME TellInv, NEW r \in Requests, UpdateEvolution(r), ~OmittedKept
    PROVE  PF!Next
<1> DEFINE e == req[r].emp
           v == Stored(req[r].body.figures)
<1>t. GtlTypeOK
  BY DEF TellInv
<1>1. /\ req[r] \in GtlRequest /\ e \in Employees /\ v \in Figures
      /\ Stored(FiguresToPut(r)) = v
  BY <1>t, PutType, StoredType DEF UpdateEvolution, GtlRequest, Body
<1>2. \A k \in Employees : evo'[k] = IF k = e THEN FiguresToPut(r) ELSE evo[k]
  BY <1>t DEF UpdateEvolution, GtlTypeOK
<1>3. UNCHANGED rows /\ At(r, "evolution")
  BY DEF UpdateEvolution
<1>4. /\ req'[r].pc = "write" /\ req'[r].emp = e
      /\ req'[r].body = req[r].body
      /\ \A s \in Requests : s # r => req'[s] = req[s]
  BY <1>t, <1>3, GtlGoto, GtlOthersStay DEF UpdateEvolution, GtlHandler, At
<1>5. hrBar' = hrBar
  BY <1>3 DEF hrBar, HrFigures
<1>6. payrollBar' = [payrollBar EXCEPT ![e] = v]
  <2>1. \A k \in Employees : EvoFigures(k)' = IF k = e THEN v ELSE EvoFigures(k)
    BY <1>1, <1>2 DEF EvoFigures
  <2> HIDE DEF e, v
  <2> QED BY <2>1 DEF payrollBar
<1>7. toldBar' = [toldBar EXCEPT ![r] = [key |-> e, value |-> v]]
  <2>1. Telling(r)' = [key |-> e, value |-> v]
    BY <1>4 DEF Telling, At
  <2>2. \A s \in Requests : s # r => Telling(s)' = Telling(s)
    BY <1>4 DEF Telling, At
  <2> HIDE DEF e, v
  <2> QED BY <2>1, <2>2 DEF toldBar
<1>8. toldBar[r] = None
  BY <1>3 DEF toldBar, Telling, At
<1>9. PF!PayrollLearns(r, e, v)
  <2> HIDE DEF e, v
  <2> QED BY <1>5, <1>6, <1>7, <1>8 DEF PF!PayrollLearns, hrBar, payrollBar, toldBar
<1> QED BY <1>1, <1>9 DEF PF!Next

LEMMA FollowsStep ==
    ASSUME TellInv, NEW r \in Requests, WriteRecord(r),
           NEW e, e = req[r].emp, NEW v, v = Stored(req[r].body.figures)
    PROVE  PF!Next
<1>t. GtlTypeOK
  BY DEF TellInv
<1>1. /\ req[r] \in GtlRequest /\ e \in Employees /\ v \in Figures /\ At(r, "write")
  BY <1>t, RowsType, StoredType DEF WriteRecord, GtlRequest, Body
<1>2. \A k \in Employees : rows'[k] = IF k = e THEN RowsWritten(r) ELSE rows[k]
  BY <1>t DEF WriteRecord, GtlTypeOK
<1>3. req'[r].pc = "idle" /\ \A s \in Requests : s # r => req'[s] = req[s]
  BY <1>t, GtlReturned, GtlOthersStay DEF WriteRecord, GtlHandler
<1>4. payrollBar' = payrollBar
  BY DEF WriteRecord, payrollBar, EvoFigures
<1>5. HrFigures(e)' \in {v, HrFigures(e)}
  <2>1. rows'[e] = RowsWritten(r)
    BY <1>1, <1>2
  <2>2. GtlRow(req[r].body).figures = v
    BY DEF GtlRow
  <2>3. CASE req[r].op = "create"
    <3>1. rows'[e] # <<>>
      BY <1>t, <1>1, <2>1, <2>3, Written
    <3>2. rows'[e][1] = IF rows[e] = <<>> THEN GtlRow(req[r].body) ELSE rows[e][1]
      BY <1>t, <1>1, <2>1, <2>3, Written
    <3> QED BY <2>2, <3>1, <3>2 DEF HrFigures
  <2>4. CASE req[r].op = "update"
    <3>1. rows'[e] = <<>> <=> rows[e] = <<>>
      BY <1>t, <1>1, <2>1, <2>4, Written
    <3>2. rows[e] # <<>> => rows'[e][1] = GtlRow(req[r].body)
      BY <1>t, <1>1, <2>1, <2>4, Written
    <3> QED BY <2>2, <3>1, <3>2 DEF HrFigures
  <2>5. CASE req[r].op = "delete"
    <3>1. rows'[e] = <<>>
      BY <1>t, <1>1, <2>1, <2>5, Written
    <3>2. v = NoFigures
      BY <2>5 DEF TellInv, NoBody, NoFigures, Stored, InColumn, OrNull, Given
    <3> QED BY <3>1, <3>2 DEF HrFigures
  <2> QED BY <1>1, <2>3, <2>4, <2>5 DEF GtlRequest, Operations
<1>6. \A k \in Employees : k # e => HrFigures(k)' = HrFigures(k)
  BY <1>2 DEF HrFigures
<1>7. CASE HrFigures(e)' = HrFigures(e)
  <2>1. hrBar' = hrBar
    BY <1>6, <1>7 DEF hrBar
  <2>2. PF!GivesUp(r)
    BY <1>t, <1>3, <1>4, <2>1, TellsNothing
  <2> QED BY <2>2 DEF PF!Next
<1>8. CASE HrFigures(e)' = v
  <2>1. hrBar' = [hrBar EXCEPT ![e] = v]
    BY <1>6, <1>8 DEF hrBar
  <2>2. toldBar[r] = [key |-> e, value |-> v]
    BY <1>1 DEF toldBar, Telling
  <2>3. toldBar[r] # None
    BY <1>1, <2>2, NumbersAssumption
  <2>4. toldBar' = [toldBar EXCEPT ![r] = None]
    <3>1. Telling(r)' = None /\ \A s \in Requests : s # r => Telling(s)' = Telling(s)
      BY <1>3 DEF Telling, At
    <3> QED BY <3>1 DEF toldBar
  <2>5. PF!HrFollows(r)
    <3>1. hrBar' = [hrBar EXCEPT ![toldBar[r].key] = toldBar[r].value]
      BY <2>1, <2>2
    <3> QED BY <1>4, <2>3, <2>4, <3>1 DEF PF!HrFollows, hrBar, payrollBar, toldBar
  <2> QED BY <2>5 DEF PF!Next
<1> QED BY <1>5, <1>7, <1>8

LEMMA PayrollStep ==
    ASSUME TellInv, GtlStep, ~OmittedKept
    PROVE  [PF!Next]_<<hrBar, payrollBar, toldBar>>
<1>t. GtlTypeOK
  BY DEF TellInv
<1>1. ASSUME NEW r \in Requests, GtlStart(r) \/ ReadEmployee(r) \/ ReadExisting(r) \/ GtlFail(r)
      PROVE  PF!Next
  <2>1. req'[r].pc # "write"
    <3>1. GtlStart(r) => req'[r].pc = "read"
      BY <1>t DEF GtlStart, StartRequest, GtlTypeOK
    <3>2. ReadEmployee(r) \/ ReadExisting(r) => req'[r].pc \in {"existing", "evolution", "idle"}
      BY <1>t, GtlGoto, GtlReturned DEF ReadEmployee, ReadExisting, At
    <3>3. GtlFail(r) => req'[r].pc = "idle"
      BY <1>t, GtlReturned DEF GtlFail
    <3> QED BY <1>1, <3>1, <3>2, <3>3
  <2>2. UNCHANGED <<rows, evo>>
    BY <1>1 DEF GtlStart, StartRequest, ReadEmployee, ReadExisting, GtlFail
  <2>3. UNCHANGED <<hrBar, payrollBar>>
    BY <2>2 DEF hrBar, payrollBar, HrFigures, EvoFigures
  <2>4. \A s \in Requests : s # r => req'[s] = req[s]
    BY <1>t, <1>1, GtlOthersStay DEF GtlHandler
  <2>5. PF!GivesUp(r)
    BY <1>t, <2>1, <2>3, <2>4, TellsNothing
  <2> QED BY <2>5 DEF PF!Next
<1>2. ASSUME NEW e \in Employees, Reclassify(e)
      PROVE  UNCHANGED <<hrBar, payrollBar, toldBar>>
  BY <1>2 DEF Reclassify, hrBar, payrollBar, toldBar, HrFigures, EvoFigures, Telling, At
<1> QED BY <1>1, <1>2, LearnsStep, FollowsStep DEF GtlStep, GtlHandler

\* For any number of requests at once, and whichever of their calls fail: if
\* Evolution clears what a PUT leaves out, HR only ever takes over the figures
\* that the same request has put into payroll before.  The handlers implement
\* PayrollFirst.
THEOREM ImplementsPayrollFirst == ~OmittedKept /\ GtlSpec => PayrollIsFirst
<1> SUFFICES ASSUME ~OmittedKept
             PROVE  GtlSpec => PayrollIsFirst
  OBVIOUS
<1>1. TellInv /\ [GtlNext]_gtlVars => TellInv'
  <2>1. TellInv /\ UNCHANGED gtlVars => TellInv'
    BY DEF gtlVars, TellInv, GtlTypeOK
  <2> QED BY <2>1, TellStep
<1>2. TellInv /\ [GtlNext]_gtlVars => [PF!Next]_<<hrBar, payrollBar, toldBar>>
  <2>1. UNCHANGED gtlVars => UNCHANGED <<hrBar, payrollBar, toldBar>>
    BY DEF gtlVars, hrBar, payrollBar, toldBar, HrFigures, EvoFigures, Telling, At
  <2> QED BY <2>1, PayrollStep DEF GtlNext
<1>3. TellInv /\ [GtlNext]_gtlVars
      => [PF!Next]_<<[e \in Employees |-> HrFigures(e)], [e \in Employees |-> EvoFigures(e)],
                     [r \in Requests |-> Telling(r)]>>
  BY <1>2 DEF hrBar, payrollBar, toldBar
<1> QED BY <1>1, <1>3, TellInit, PayrollInit, PTL DEF GtlSpec, PayrollIsFirst, PF!Spec

=============================================================================
