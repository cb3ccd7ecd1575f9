----------------------- MODULE ApplicantTrackingProofs -----------------------
(***************************************************************************)
(* Proofs about the applicant tracking API and the export of candidates,   *)
(* for any number of calls, beside each other in any way, and any number   *)
(* of faults.                                                              *)
(***************************************************************************)
EXTENDS ApplicantTracking, TLAPS

Tables == {"group", "question", "choice", "version", "custom", "posting", "user", "application",
           "note", "answer", "history", "system", "role"}
Own == {"group", "question", "version", "posting"}
Ops == {"create", "update", "delete", "export"}

\* The places of a call before its statement.
Early == {"insert", "checkQuestion", "readOld", "write", "drop", "find", "make", "apply"}
Late  == {"readBack", "log", "attach", "clear"}

Ids == 1 .. lastId

Openings == {None, NoProfile, Opening}
RowSet == [t : Tables, co : {0} \cup Companies, refs : SUBSET Nat, opening : Openings, by : Nat, n : Nat]
Locals == [pc : {"idle", "done"} \cup Early \cup Late, op : Ops \cup {None}, t : Tables \cup {None},
           id : Nat \cup {None}, co : Companies \cup {None}, row : RowSet \cup {None},
           old : Nat \cup {None}, found : SUBSET Nat, result : {None, "ok", "error"}]

\* What the rows are: none names a row that is not there, and a choice names a question.
RowInv ==
  /\ lastId \in Nat
  /\ DOMAIN rows \subseteq Ids
  /\ \A i \in DOMAIN rows :
       /\ rows[i] \in RowSet
       /\ rows[i].refs \subseteq DOMAIN rows
       /\ rows[i].t = "choice" => \E q \in DOMAIN rows : rows[i].refs = {q} /\ rows[q].t = "question"

\* The company of a choice is that of its question.
ChoiceOf(i, co) == \A q \in rows[i].refs : rows[q].co = co

\* The question q, unless it was deleted since.
IsQuestion(q) == q \in DOMAIN rows => rows[q].t = "question"

\* The row that a call names is of its table, and of its company where that was looked at.
NamesIts(l) == l.id \in DOMAIN rows => rows[l.id].t = l.t
NamesOurs(l) ==
  l.id \in DOMAIN rows => /\ l.t \in Own => rows[l.id].co = l.co
                          /\ l.t = "choice" => ChoiceOf(l.id, l.co)

\* The row that a call is to write.
Brings(l) ==
  /\ l.row.refs \subseteq Ids
  /\ l.t = "choice" =>
       \E q \in Ids : l.row.refs = {q} /\ IsQuestion(q) /\ (q \in DOMAIN rows => rows[q].co = l.co)

InsertInv(l) ==
  /\ l.op = "create" /\ l.row \in RowSet /\ l.row.t = l.t /\ Brings(l)
  /\ l.t \in Own => l.row.co = l.co
CheckInv(l) ==
  /\ l.op \in {"create", "update"} /\ l.t = "choice" /\ l.row \in RowSet /\ l.row.t = l.t
  /\ \E q \in Ids : l.row.refs = {q} /\ IsQuestion(q)
  /\ l.op = "update" => l.id \in Ids /\ NamesIts(l)
OldInv(l) ==
  /\ l.op \in {"update", "delete"}
  /\ l.id \in Ids \/ (l.id = None /\ l.t = "application")
  /\ NamesIts(l)
  /\ l.op = "update" => l.row \in RowSet /\ Brings(l)
WriteInv(l) == OldInv(l) /\ l.op = "update" /\ NamesOurs(l)
DropInv(l) == OldInv(l) /\ l.op = "delete"
ReadInv(l) == l.op = "create" /\ l.id \in Ids /\ NamesIts(l) /\ NamesOurs(l)
ExportInv(l) == l.op = "export" /\ l.t = "application"

\* What a call knows by its place.
Knows(l) ==
  /\ l \in Locals
  /\ l.pc = "idle" => l.op = None
  /\ l.pc # "idle" => l.op \in Ops /\ l.t \in Tables
  /\ l.pc = "insert" => InsertInv(l)
  /\ l.pc = "checkQuestion" => CheckInv(l)
  /\ l.pc = "readOld" => OldInv(l)
  /\ l.pc = "write" => WriteInv(l)
  /\ l.pc = "drop" => DropInv(l)
  /\ l.pc = "readBack" => ReadInv(l)
  /\ l.pc = "log" => l.op \in {"update", "delete"}
  /\ l.pc \in {"find", "make", "apply", "attach", "clear"} => ExportInv(l)
  /\ l.pc \in {"find", "make", "apply"} =>
       l.co \in Companies /\ l.row \in RowSet /\ l.row.t = "application" /\ l.row.co = l.co
  /\ l.pc = "apply" => l.found \subseteq Ids

NotYet(c) == call[c].pc \in {"idle"} \cup Early => \A p \in wrote : p[2] # c

CallInv ==
  /\ DOMAIN call = Calls
  /\ \A c \in Calls : Knows(call[c]) /\ NotYet(c)

ErrorInv == RowInv /\ CallInv /\ ErrorMeansNoChange

-----------------------------------------------------------------------------
(* What calls begin with.                                                  *)

\* A call that begins knows what its first place needs, and has written nothing.
Begun(c, l) ==
  /\ Knows(l)
  /\ l.pc \in {"insert", "checkQuestion", "readOld", "find", "done"}
  /\ l.pc = "done" => l.result = "error"
  /\ l.pc # "done" /\ l.op # "delete" => l.row.n = c

Begins(c) == \E l : Start(c, l) /\ Begun(c, l)

LEMMA CallsNat == Calls \subseteq Nat
<1>1. \A n : 1 .. n \subseteq Nat
  OBVIOUS
<1> QED BY <1>1, CallsAssumption, Zenon

LEMMA IdsNat == Ids \subseteq Nat
BY DEF Ids

LEMMA RowTyped ==
  ASSUME NEW t \in Tables, NEW of \in {0} \cup Companies,
         NEW refs \in SUBSET Ids, NEW o \in Openings,
         NEW by \in Nat, NEW c \in Calls
  PROVE  Row(t, of, refs, o, by, c) \in RowSet
BY CallsNat, IdsNat DEF Row, RowSet

LEMMA AskedLocals ==
  ASSUME NEW pc \in Early, NEW op \in Ops, NEW t \in Tables, NEW id \in Nat \cup {None}, NEW co \in Companies,
         NEW row \in RowSet \cup {None}
  PROVE  Asked(pc, op, t, id, co, row) \in Locals
BY DEF Asked, Idle, Locals

LEMMA RefusedLocals ==
  ASSUME NEW op \in Ops, NEW t \in Tables
  PROVE  Refused(op, t) \in Locals
BY DEF Refused, Idle, Locals

LEMMA UnfitBegins ==
  ASSUME NEW c, NEW t \in Tables, NEW ops \in SUBSET Ops, Unfit(c, t, ops)
  PROVE  Begins(c)
<1>1. PICK op \in ops : Start(c, Refused(op, t))
  BY DEF Unfit
<1>2. /\ Refused(op, t).pc = "done" /\ Refused(op, t).op = op /\ Refused(op, t).t = t
      /\ Refused(op, t).result = "error"
  BY DEF Refused, Idle
<1>3. Begun(c, Refused(op, t))
  BY <1>2, RefusedLocals DEF Begun, Knows
<1> QED BY <1>1, <1>3 DEF Begins

LEMMA RefusedBegins ==
  ASSUME NEW c, NEW t \in Tables, NEW op \in Ops, Start(c, Refused(op, t))
  PROVE  Begins(c)
BY UnfitBegins DEF Unfit

LEMMA CreateBegins ==
  ASSUME NEW c \in Calls, NEW t \in Tables \ {"choice"}, NEW co \in Companies, NEW of \in {0} \cup Companies,
         NEW refs \in SUBSET Ids, NEW o \in Openings, NEW by \in Nat,
         t \in Own => of = co, Create(c, t, co, Row(t, of, refs, o, by, c))
  PROVE  Begins(c)
<1> DEFINE row == Row(t, of, refs, o, by, c)
           l == Asked("insert", "create", t, None, co, row)
<1>1. row \in RowSet /\ row.t = t /\ row.co = of /\ row.refs = refs /\ row.n = c
  BY RowTyped DEF Row
<1> HIDE DEF row
<1>2. l.pc = "insert" /\ l.op = "create" /\ l.t = t /\ l.co = co /\ l.row = row
  BY DEF Asked, Idle
<1>t. l \in Locals
  BY <1>1, AskedLocals, IdsNat DEF Early, Ops, Tables
<1> HIDE DEF l
<1>3. Begun(c, l)
  BY <1>t, <1>1, <1>2 DEF Begun, Knows, InsertInv, Brings, Early, Ops
<1> QED BY <1>3 DEF Create, Begins, l, row

LEMMA UpdateAnyBegins ==
  ASSUME NEW c \in Calls, NEW t \in Tables \ {"choice"}, NEW id, NEW co \in Companies, NEW of \in {0} \cup Companies,
         NEW refs \in SUBSET Ids, NEW o \in Openings,
         id \in Ids \/ (id = None /\ t = "application"), id \in DOMAIN rows => rows[id].t = t,
         Update(c, t, id, co, Row(t, of, refs, o, 0, c))
  PROVE  Begins(c)
<1> DEFINE row == Row(t, of, refs, o, 0, c)
           l == Asked("readOld", "update", t, id, co, row)
<1>1. row \in RowSet /\ row.refs = refs /\ row.n = c
  BY RowTyped DEF Row
<1> HIDE DEF row
<1>2. l.pc = "readOld" /\ l.op = "update" /\ l.t = t /\ l.id = id /\ l.co = co /\ l.row = row
  BY DEF Asked, Idle
<1>t. l \in Locals
  BY <1>1, AskedLocals, IdsNat DEF Early, Ops, Tables
<1> HIDE DEF l
<1>3. Begun(c, l)
  BY <1>t, <1>1, <1>2 DEF Begun, Knows, OldInv, NamesIts, Brings, Early, Ops, Of
<1> QED BY <1>3 DEF Update, Begins, l, row

LEMMA UpdateBegins ==
  ASSUME NEW c \in Calls, NEW t \in Tables \ {"choice"}, NEW id \in Ids, id \in Of(t), NEW co \in Companies, NEW of \in {0} \cup Companies,
         NEW refs \in SUBSET Ids, NEW o \in Openings, Update(c, t, id, co, Row(t, of, refs, o, 0, c))
  PROVE  Begins(c)
BY UpdateAnyBegins DEF Of

LEMMA DeleteBegins ==
  ASSUME NEW c \in Calls, NEW t \in Tables, NEW id \in Ids, id \in Of(t), NEW co \in Companies, Delete(c, t, id, co)
  PROVE  Begins(c)
<1> DEFINE l == Asked("readOld", "delete", t, id, co, None)
<1>1. l.pc = "readOld" /\ l.op = "delete" /\ l.t = t /\ l.id = id
  BY DEF Asked, Idle
<1>t. l \in Locals
  BY AskedLocals, IdsNat DEF Early, Ops, Tables
<1> HIDE DEF l
<1>2. Begun(c, l)
  BY <1>t, <1>1 DEF Begun, Knows, OldInv, NamesIts, Early, Ops, Of
<1> QED BY <1>2 DEF Delete, Begins, l

\* The same where the path's company is compared with the body's.
LEMMA CreateForBegins ==
  ASSUME NEW c \in Calls, NEW t \in Tables \ {"choice"}, NEW co \in Companies, NEW of \in {0} \cup Companies,
         NEW refs \in SUBSET Ids, NEW o \in Openings,
         CreateFor(c, t, co, Row(t, of, refs, o, 0, c))
  PROVE  Begins(c)
<1>1. Row(t, of, refs, o, 0, c).co = of
  BY DEF Row
<1>2. CASE co = of
  BY <1>1, <1>2, CreateBegins DEF CreateFor
<1>3. CASE co # of
  BY <1>1, <1>3, RefusedBegins DEF CreateFor, Ops
<1> QED BY <1>2, <1>3

LEMMA UpdateForBegins ==
  ASSUME NEW c \in Calls, NEW t \in Tables \ {"choice"}, NEW id \in Ids, id \in Of(t), NEW co \in Companies, NEW of \in {0} \cup Companies,
         NEW refs \in SUBSET Ids, NEW o \in Openings, UpdateFor(c, t, id, co, Row(t, of, refs, o, 0, c))
  PROVE  Begins(c)
<1>1. Row(t, of, refs, o, 0, c).co = of
  BY DEF Row
<1>2. CASE co = of
  BY <1>1, <1>2, UpdateBegins DEF UpdateFor
<1>3. CASE co # of
  BY <1>1, <1>3, RefusedBegins DEF UpdateFor, Ops
<1> QED BY <1>2, <1>3

LEMMA OfIds ==
  ASSUME RowInv, NEW t
  PROVE  Of(t) \subseteq Ids
BY DEF RowInv, Of

LEMMA ChoiceBegins ==
  ASSUME RowInv, NEW c \in Calls, handlerQuestionBankMultipleChoiceAnswers(c)
  PROVE  Begins(c)
<1>1. ASSUME NEW op \in {"create", "update"}, NEW id \in Nat \cup {None},
             NEW co \in Companies, NEW q \in Of("question"), op = "update" => id \in Of("choice"),
             Start(c, Asked("checkQuestion", op, "choice", id, co, Row("choice", 0, {q}, None, 0, c)))
      PROVE  Begins(c)
  <2> DEFINE row == Row("choice", 0, {q}, None, 0, c)
             l == Asked("checkQuestion", op, "choice", id, co, row)
  <2>1. row \in RowSet /\ row.t = "choice" /\ row.refs = {q} /\ row.n = c
    BY RowTyped, OfIds DEF Row, Tables, Openings
  <2> HIDE DEF row
  <2>2. l.pc = "checkQuestion" /\ l.op = op /\ l.t = "choice" /\ l.id = id /\ l.row = row
    BY DEF Asked, Idle
  <2>t. l \in Locals
    BY <2>1, AskedLocals, IdsNat DEF Early, Ops, Tables
  <2> HIDE DEF l
  <2>3. q \in Ids /\ (q \in DOMAIN rows => rows[q].t = "question")
    BY OfIds DEF Of
  <2>4. op = "update" => id \in Ids /\ rows[id].t = "choice"
    BY <1>1, OfIds DEF Of
  <2>5. Begun(c, l)
    BY <2>t, <2>1, <2>2, <2>3, <2>4 DEF Begun, Knows, CheckInv, IsQuestion, NamesIts, Early, Ops, Tables
  <2> QED BY <1>1, <2>5 DEF Begins, l, row
<1>2. CASE createQuestionBankMultipleChoiceAnswers(c)
  BY <1>1, <1>2 DEF createQuestionBankMultipleChoiceAnswers
<1>3. CASE updateQuestionBankMultipleChoiceAnswers(c)
  BY <1>1, <1>3, OfIds, IdsNat DEF updateQuestionBankMultipleChoiceAnswers
<1>4. CASE deleteQuestionBankMultipleChoiceAnswers(c)
  BY <1>4, OfIds, DeleteBegins DEF deleteQuestionBankMultipleChoiceAnswers, Tables
<1>5. CASE Unfit(c, "choice", {"create", "update", "delete"})
  BY <1>5, UnfitBegins DEF Tables, Ops
<1> QED BY <1>2, <1>3, <1>4, <1>5 DEF handlerQuestionBankMultipleChoiceAnswers

LEMMA ExportBegins ==
  ASSUME NEW c \in Calls, eventCallbackDelegate(c)
  PROVE  Begins(c)
<1>1. ASSUME NEW co \in Companies, NEW o \in {Opening, NoProfile},
             Start(c, Asked("find", "export", "application", None, co, Row("application", co, {}, o, c, c)))
      PROVE  Begins(c)
  <2> DEFINE row == Row("application", co, {}, o, c, c)
             l == Asked("find", "export", "application", None, co, row)
  <2>1. row \in RowSet /\ row.t = "application" /\ row.co = co /\ row.n = c
    BY RowTyped, CallsNat, IdsNat DEF Row, Tables, Openings
  <2> HIDE DEF row
  <2>2. l.pc = "find" /\ l.op = "export" /\ l.t = "application" /\ l.co = co /\ l.row = row
    BY DEF Asked, Idle
  <2>t. l \in Locals
    BY <2>1, AskedLocals, IdsNat DEF Early, Ops, Tables
  <2> HIDE DEF l
  <2>3. Begun(c, l)
    BY <2>t, <2>1, <2>2 DEF Begun, Knows, ExportInv, Early, Ops, Tables
  <2> QED BY <1>1, <2>3 DEF Begins, l, row
<1>2. CASE createApplicantData(c)
  BY <1>1, <1>2 DEF createApplicantData
<1>3. CASE Unfit(c, "application", {"export"})
  BY <1>3, UnfitBegins DEF Tables, Ops
<1> QED BY <1>2, <1>3 DEF eventCallbackDelegate

\* The names of the tables whose functions share one shape.
LEMMA Named ==
  /\ {"group", "question", "version", "custom", "posting", "user", "application", "note", "answer",
      "history", "system", "role"} = Tables \ {"choice"}
  /\ {"custom", "user", "application", "note", "answer", "history", "system", "role"} \cap Own = {}
BY DEF Tables, Own

LEMMA Ranges ==
  /\ {None, Opening} \subseteq Openings /\ 0 \in {0} \cup Companies /\ Companies \subseteq {0} \cup Companies
  /\ Anyone \in Companies /\ 0 \in Nat
BY DEF Openings, Companies, Anyone

LEMMA NoNone ==
  ASSUME RowInv
  PROVE  None \notin DOMAIN rows
BY NoneAssumption DEF RowInv, Ids

LEMMA HandleBegins ==
  ASSUME RowInv, NEW c \in Calls, Handle(c)
  PROVE  Begins(c)
<1>1. CASE handlerQuestionBankGroup(c)
  <2>1. CASE createQuestionBankGroup(c)
    BY <2>1, OfIds, CreateForBegins, Named, Ranges DEF createQuestionBankGroup
  <2>2. CASE updateQuestionBankGroup(c)
    BY <2>2, OfIds, UpdateForBegins, Named, Ranges DEF updateQuestionBankGroup
  <2>3. CASE deleteQuestionBankGroup(c)
    BY <2>3, OfIds, DeleteBegins, Named, Ranges DEF deleteQuestionBankGroup
  <2>4. CASE Unfit(c, "group", {"create", "update", "delete"})
    BY <2>4, UnfitBegins DEF Tables, Ops
  <2> QED BY <1>1, <2>1, <2>2, <2>3, <2>4 DEF handlerQuestionBankGroup
<1>2. CASE handlerQuestionBank(c)
  <2>1. CASE createQuestionBank(c)
    BY <2>1, OfIds, CreateForBegins, Named, Ranges DEF createQuestionBank
  <2>2. CASE updateQuestionBank(c)
    BY <2>2, OfIds, UpdateForBegins, Named, Ranges DEF updateQuestionBank
  <2>3. CASE deleteQuestionBank(c)
    BY <2>3, OfIds, DeleteBegins, Named, Ranges DEF deleteQuestionBank
  <2>4. CASE Unfit(c, "question", {"create", "update", "delete"})
    BY <2>4, UnfitBegins DEF Tables, Ops
  <2> QED BY <1>2, <2>1, <2>2, <2>3, <2>4 DEF handlerQuestionBank
<1>3. CASE handlerApplicationVersion(c)
  <2>1. CASE createApplicationVersion(c)
    BY <2>1, OfIds, CreateForBegins, Named, Ranges DEF createApplicationVersion
  <2>2. CASE updateApplicationVersion(c)
    BY <2>2, OfIds, UpdateForBegins, Named, Ranges DEF updateApplicationVersion
  <2>3. CASE deleteApplicationVersion(c)
    BY <2>3, OfIds, DeleteBegins, Named, Ranges DEF deleteApplicationVersion
  <2>4. CASE Unfit(c, "version", {"create", "update", "delete"})
    BY <2>4, UnfitBegins DEF Tables, Ops
  <2> QED BY <1>3, <2>1, <2>2, <2>3, <2>4 DEF handlerApplicationVersion
<1>4. CASE handlerApplicationVersionCustomQuestion(c)
  <2>1. CASE createApplicationVersionCustomQuestion(c)
    BY <2>1, OfIds, CreateBegins, Named, Ranges DEF createApplicationVersionCustomQuestion
  <2>2. CASE deleteApplicationVersionCustomQuestion(c)
    BY <2>2, OfIds, DeleteBegins, Named, Ranges DEF deleteApplicationVersionCustomQuestion
  <2>3. CASE Unfit(c, "custom", {"create", "delete"})
    BY <2>3, UnfitBegins DEF Tables, Ops
  <2> QED BY <1>4, <2>1, <2>2, <2>3 DEF handlerApplicationVersionCustomQuestion
<1>5. CASE handlerJobPosting(c)
  <2>1. CASE createJobPosting(c)
    BY <2>1, OfIds, CreateForBegins, Named, Ranges DEF createJobPosting
  <2>2. CASE updateJobPosting(c)
    BY <2>2, OfIds, UpdateForBegins, Named, Ranges DEF updateJobPosting
  <2>3. CASE deleteJobPosting(c)
    BY <2>3, OfIds, DeleteBegins, Named, Ranges DEF deleteJobPosting
  <2>4. CASE Unfit(c, "posting", {"create", "update", "delete"})
    BY <2>4, UnfitBegins DEF Tables, Ops
  <2> QED BY <1>5, <2>1, <2>2, <2>3, <2>4 DEF handlerJobPosting
<1>6. CASE handlerJobPostingResponsibleUser(c)
  <2>1. CASE createJobPostingResponsibleUser(c)
    BY <2>1, OfIds, CreateBegins, Named, Ranges DEF createJobPostingResponsibleUser
  <2>2. CASE deleteJobPostingResponsibleUser(c)
    BY <2>2, OfIds, DeleteBegins, Named, Ranges DEF deleteJobPostingResponsibleUser
  <2>3. CASE Unfit(c, "user", {"create", "delete"})
    BY <2>3, UnfitBegins DEF Tables, Ops
  <2> QED BY <1>6, <2>1, <2>2, <2>3 DEF handlerJobPostingResponsibleUser
<1>7. CASE handlerApplication(c)
  <2>1. CASE createApplication(c)
    BY <2>1, OfIds, CreateBegins, Named, Ranges DEF createApplication
  <2>2. CASE updateApplication(c)
    <3>1. PICK i \in Of("application") \cup {None}, refs \in SUBSET Of("posting") :
                 Update(c, "application", i, Anyone, Row("application", 0, refs, None, 0, c))
      BY <2>2 DEF updateApplication
    <3>2. CASE i \in Of("application")
      BY <3>1, <3>2, OfIds, UpdateBegins, Named, Ranges
    <3>3. CASE i = None
      BY <3>1, <3>3, OfIds, UpdateAnyBegins, NoNone, Named, Ranges
    <3> QED BY <3>2, <3>3
  <2>3. CASE Unfit(c, "application", {"create", "update"})
    BY <2>3, UnfitBegins DEF Tables, Ops
  <2> QED BY <1>7, <2>1, <2>2, <2>3 DEF handlerApplication
<1>8. CASE handlerApplicationNote(c)
  <2>1. CASE createApplicationNote(c)
    BY <2>1, OfIds, CreateBegins, Named, Ranges DEF createApplicationNote
  <2>2. CASE updateApplicationNote(c)
    BY <2>2, OfIds, UpdateBegins, Named, Ranges DEF updateApplicationNote
  <2>3. CASE deleteApplicationNote(c)
    BY <2>3, OfIds, DeleteBegins, Named, Ranges DEF deleteApplicationNote
  <2>4. CASE Unfit(c, "note", {"create", "update", "delete"})
    BY <2>4, UnfitBegins DEF Tables, Ops
  <2> QED BY <1>8, <2>1, <2>2, <2>3, <2>4 DEF handlerApplicationNote
<1>9. CASE handlerApplicationQuestionBankAnswer(c)
  <2>1. CASE createApplicationQuestionBankAnswer(c)
    BY <2>1, OfIds, CreateBegins, Named, Ranges DEF createApplicationQuestionBankAnswer
  <2>2. CASE updateApplicationQuestionBankAnswer(c)
    BY <2>2, OfIds, UpdateBegins, Named, Ranges DEF updateApplicationQuestionBankAnswer
  <2>3. CASE deleteApplicationQuestionBankAnswer(c)
    BY <2>3, OfIds, DeleteBegins, Named, Ranges DEF deleteApplicationQuestionBankAnswer
  <2>4. CASE Unfit(c, "answer", {"create", "update", "delete"})
    BY <2>4, UnfitBegins DEF Tables, Ops
  <2> QED BY <1>9, <2>1, <2>2, <2>3, <2>4 DEF handlerApplicationQuestionBankAnswer
<1>10. CASE handlerApplicationStatusHistory(c)
  <2>1. CASE createApplicationStatusHistory(c)
    BY <2>1, OfIds, CreateBegins, Named, Ranges DEF createApplicationStatusHistory
  <2>2. CASE updateApplicationStatusHistory(c)
    BY <2>2, OfIds, UpdateBegins, Named, Ranges DEF updateApplicationStatusHistory
  <2>3. CASE deleteApplicationStatusHistory(c)
    BY <2>3, OfIds, DeleteBegins, Named, Ranges DEF deleteApplicationStatusHistory
  <2>4. CASE Unfit(c, "history", {"create", "update", "delete"})
    BY <2>4, UnfitBegins DEF Tables, Ops
  <2> QED BY <1>10, <2>1, <2>2, <2>3, <2>4 DEF handlerApplicationStatusHistory
<1>11. CASE handlerRoles(c)
  <2>1. CASE createRoles(c)
    BY <2>1, OfIds, CreateBegins, Named, Ranges DEF createRoles
  <2>2. CASE updateRoles(c)
    BY <2>2, OfIds, UpdateBegins, Named, Ranges DEF updateRoles
  <2>3. CASE deleteRoles(c)
    BY <2>3, OfIds, DeleteBegins, Named, Ranges DEF deleteRoles
  <2>4. CASE Unfit(c, "role", {"create", "update", "delete"})
    BY <2>4, UnfitBegins DEF Tables, Ops
  <2> QED BY <1>11, <2>1, <2>2, <2>3, <2>4 DEF handlerRoles
<1>12. CASE handlerSystems(c)
  <2>1. CASE createSystems(c)
    BY <2>1, OfIds, CreateBegins, Named, Ranges DEF createSystems
  <2>2. CASE updateSystems(c)
    BY <2>2, OfIds, UpdateBegins, Named, Ranges DEF updateSystems
  <2>3. CASE deleteSystems(c)
    BY <2>3, OfIds, DeleteBegins, Named, Ranges DEF deleteSystems
  <2>4. CASE Unfit(c, "system", {"create", "update", "delete"})
    BY <2>4, UnfitBegins DEF Tables, Ops
  <2> QED BY <1>12, <2>1, <2>2, <2>3, <2>4 DEF handlerSystems
<1> QED BY <1>1, <1>2, <1>3, <1>4, <1>5, <1>6, <1>7, <1>8, <1>9, <1>10, <1>11, <1>12, ChoiceBegins, ExportBegins DEF Handle

-----------------------------------------------------------------------------
(* What a statement leaves alone.                                          *)

\* Rows keep their table and company, and a choice the company of its question; new rows
\* have new ids.
RowsFollow ==
  /\ RowInv'
  /\ lastId <= lastId'
  /\ \A i \in DOMAIN rows' : i \in Ids =>
       /\ i \in DOMAIN rows
       /\ rows'[i].t = rows[i].t /\ rows'[i].co = rows[i].co
       /\ rows[i].t = "choice" => \A co : ChoiceOf(i, co) => ChoiceOf(i, co)'

LEMMA IdsGrow ==
  ASSUME RowInv, RowsFollow
  PROVE  Ids \subseteq Ids'
BY DEF RowInv, RowsFollow, Ids

LEMMA BringsStill ==
  ASSUME RowInv, RowsFollow, NEW l, Brings(l)
  PROVE  Brings(l)'
<1>1. Ids \subseteq Ids'
  BY IdsGrow
<1>2. ASSUME NEW q \in Ids, q \in DOMAIN rows'
      PROVE  q \in DOMAIN rows /\ rows'[q].t = rows[q].t /\ rows'[q].co = rows[q].co
  BY <1>2 DEF RowsFollow
<1> QED BY <1>1, <1>2 DEF Brings, IsQuestion

LEMMA NamesStill ==
  ASSUME RowInv, RowsFollow, NEW l, l.id \in Ids \cup {None}, NamesIts(l)
  PROVE  NamesIts(l)' /\ (NamesOurs(l) => NamesOurs(l)')
<1>1. CASE l.id \in Ids
  BY <1>1 DEF RowsFollow, NamesIts, NamesOurs
<1>2. CASE l.id = None
  BY <1>2, NoneAssumption DEF RowsFollow, RowInv, Ids, NamesIts, NamesOurs
<1> QED BY <1>1, <1>2

\* What a call knows stays true whatever the others do.
LEMMA KnowsStill ==
  ASSUME RowInv, RowsFollow, NEW l, Knows(l)
  PROVE  Knows(l)'
<1>1. Ids \subseteq Ids'
  BY IdsGrow
<1>2. InsertInv(l) => InsertInv(l)'
  BY BringsStill DEF InsertInv
<1>3. CheckInv(l) => CheckInv(l)'
  <2>1. ASSUME NEW q \in Ids, IsQuestion(q)
        PROVE  IsQuestion(q)'
    BY <2>1 DEF IsQuestion, RowsFollow
  <2> QED BY <1>1, <2>1, NamesStill DEF CheckInv
<1>4. OldInv(l) => OldInv(l)' /\ (NamesOurs(l) => NamesOurs(l)')
  BY <1>1, BringsStill, NamesStill DEF OldInv
<1>5. ReadInv(l) => ReadInv(l)'
  BY <1>1, NamesStill DEF ReadInv
<1>6. l.pc = "apply" => l.found \subseteq Ids'
  BY <1>1 DEF Knows
<1> QED BY <1>2, <1>3, <1>4, <1>5, <1>6 DEF Knows, WriteInv, DropInv, ExportInv

\* An error is answered by a call that has written nothing, or by one that may.
Excused(c, l) ==
  l.pc = "done" /\ l.result = "error" =>
    \/ \A p \in wrote : p[2] # c
    \/ Had("failed", c)
    \/ l.op = "create" /\ l.t \in {"answer", "history"}
    \/ l.op = "export"

\* A step of c changes no other call.
Moves(c, l) ==
  /\ DOMAIN call' = DOMAIN call
  /\ call'[c] = l /\ \A d \in Calls \ {c} : call'[d] = call[d]

\* A step of c, after which the others know what they knew.
LEMMA StepKeeps ==
  ASSUME ErrorInv, RowsFollow, had \subseteq had', NEW c \in Calls, NEW l,
         Moves(c, l), \A p \in wrote' \ wrote : p[2] = c,
         Knows(l)', l.pc \in {"idle"} \cup Early => \A p \in wrote' : p[2] # c, Excused(c, l)'
  PROVE  ErrorInv'
<1>1. ASSUME NEW d \in Calls
      PROVE  Knows(call[d])' /\ NotYet(d)' /\ Excused(d, call[d])'
  <2>1. CASE d = c
    <3>1. call'[d] = l
      BY <2>1 DEF Moves
    <3> QED BY <2>1, <3>1 DEF NotYet
  <2>2. CASE d # c
    <3>1. call'[d] = call[d]
      BY <2>2 DEF Moves
    <3>2. Knows(call[d]) /\ NotYet(d) /\ Excused(d, call[d])
      BY DEF ErrorInv, CallInv, ErrorMeansNoChange, Excused
    <3>3. ASSUME NEW l1, Knows(l1)
          PROVE  Knows(l1)'
      BY <3>3, KnowsStill DEF ErrorInv
    <3>4. \A p \in wrote' : p[2] = d => p \in wrote
      BY <2>2
    <3> QED BY <3>1, <3>2, <3>3, <3>4 DEF NotYet, Excused, Had
  <2> QED BY <2>1, <2>2
<1>2. RowInv' /\ DOMAIN call' = Calls
  BY DEF RowsFollow, ErrorInv, CallInv, Moves
<1> QED BY <1>1, <1>2 DEF ErrorInv, CallInv, ErrorMeansNoChange, Excused

\* A step of c that leaves the rows alone.
LEMMA QuietStep ==
  ASSUME ErrorInv, UNCHANGED <<rows, lastId, wrote>>, had \subseteq had', NEW c \in Calls, NEW l,
         Moves(c, l), Knows(l),
         l.pc \in {"idle"} \cup Early => \A p \in wrote : p[2] # c, Excused(c, l)'
  PROVE  ErrorInv'
<1>1. RowsFollow
  BY DEF RowsFollow, ErrorInv, RowInv, Ids, ChoiceOf
<1>2. Knows(l)'
  BY <1>1, KnowsStill DEF ErrorInv
<1> QED BY <1>1, <1>2, StepKeeps

\* A call that ends without another write.
LEMMA EndStep ==
  ASSUME ErrorInv, UNCHANGED <<rows, lastId, wrote>>, had \subseteq had', NEW c \in Calls, NEW result \in {"ok", "error"},
         Done(c, result), call[c].pc # "idle",
         \/ result # "error" \/ call[c].pc \in Early
         \/ call[c].op = "create" /\ call[c].t \in {"answer", "history"}
         \/ call[c].op = "export" \/ <<"failed", c>> \in had'
  PROVE  ErrorInv'
<1>1. PICK l : /\ l.pc = "done" /\ l.op = call[c].op /\ l.t = call[c].t /\ l.result = result
               /\ l \in Locals /\ Moves(c, l)
  <2>1. /\ Moves(c, call'[c])
        /\ call'[c] = [Idle EXCEPT !.pc = "done", !.op = call[c].op, !.t = call[c].t, !.result = result]
    BY DEF Done, Moves, ErrorInv, CallInv
    <2>2. call[c].op \in Ops /\ call[c].t \in Tables
    BY DEF ErrorInv, CallInv, Knows
  <2> QED BY <2>1, <2>2 DEF Idle, Locals
<1>3. Knows(call[c]) /\ NotYet(c)
  BY DEF ErrorInv, CallInv
<1>4. Knows(l)
  BY <1>1, <1>3 DEF Knows, Locals
<1>5. Excused(c, l)'
  BY <1>1, <1>3 DEF Excused, NotYet, Had
<1>6. l.pc \notin {"idle"} \cup Early
  BY <1>1 DEF Early
<1> QED BY <1>1, <1>4, <1>5, <1>6, QuietStep

-----------------------------------------------------------------------------
(* The steps.                                                              *)

LEMMA ErrorHandle ==
  ASSUME ErrorInv, NEW c \in Calls, Handle(c)
  PROVE  ErrorInv'
<1>1. PICK l : Start(c, l) /\ Begun(c, l)
  BY HandleBegins DEF Begins, ErrorInv
<1>2. NotYet(c) /\ call[c].pc = "idle"
  BY <1>1 DEF ErrorInv, CallInv, Start, At
<1>3. UNCHANGED <<rows, lastId, wrote>> /\ had \subseteq had' /\ Moves(c, l)
  BY <1>1 DEF Start, Stores, Moves, ErrorInv, CallInv
<1>4. \A p \in wrote : p[2] # c
  BY <1>2 DEF NotYet
<1> QED BY <1>1, <1>3, <1>4, QuietStep DEF Begun, Excused

LEMMA ErrorFail ==
  ASSUME ErrorInv, NEW c \in Calls, Fail(c)
  PROVE  ErrorInv'
BY EndStep DEF Fail, Running, Stores

LEMMA ErrorEnds ==
  ASSUME ErrorInv, NEW c \in Calls, LogChange(c) \/ AddAttachment(c) \/ ClearCache(c)
  PROVE  ErrorInv'
<1>1. Knows(call[c])
  BY DEF ErrorInv, CallInv
<1>2. CASE LogChange(c)
  BY <1>2, EndStep DEF LogChange, At, NotTheRows, Keep
<1>3. CASE AddAttachment(c)
  <2>1. call[c].op = "export"
    BY <1>1, <1>3 DEF AddAttachment, At, Knows, ExportInv
  <2> QED BY <1>3, <2>1, EndStep DEF AddAttachment, At, NotTheRows, Keep
<1>4. CASE ClearCache(c)
  BY <1>4, EndStep DEF ClearCache, At, NotTheRows, Keep
<1> QED BY <1>2, <1>3, <1>4

LEMMA ErrorCheck ==
  ASSUME ErrorInv, NEW c \in Calls, CheckQuestion(c)
  PROVE  ErrorInv'
<1> DEFINE k == call[c]
           ours == \E q \in k.row.refs : q \in DOMAIN rows /\ rows[q].co = k.co
<1>1. k.pc = "checkQuestion" /\ NotTheRows /\ UNCHANGED had /\ Knows(k) /\ NotYet(c) /\ DOMAIN call = Calls
  BY DEF CheckQuestion, At, Keep, ErrorInv, CallInv
<1>2. CASE ~ ours
  <2>1. Done(c, "error")
    BY <1>2 DEF CheckQuestion
  <2> QED BY <1>1, <2>1, EndStep DEF NotTheRows, Early
<1>3. CASE ours
  <2>1. PICK l : /\ l.pc = IF k.op = "create" THEN "insert" ELSE "readOld"
                 /\ l.op = k.op /\ l.t = k.t /\ l.id = k.id /\ l.co = k.co /\ l.row = k.row
                 /\ l \in Locals /\ Moves(c, l)
    <3>1. call' = [call EXCEPT ![c].pc = IF k.op = "create" THEN "insert" ELSE "readOld"]
      BY <1>3 DEF CheckQuestion, Goto
    <3>2. k \in Locals /\ Moves(c, [k EXCEPT !.pc = IF k.op = "create" THEN "insert" ELSE "readOld"])
      BY <1>1, <3>1 DEF Moves, Knows
    <3> QED BY <3>2 DEF Locals, Early
  <2>2. Brings(l)
    <3>1. PICK q \in Ids : k.row.refs = {q} /\ IsQuestion(q)
      BY <1>1 DEF Knows, CheckInv
    <3>2. q \in DOMAIN rows => rows[q].co = k.co
      BY <1>3, <3>1
    <3> QED BY <2>1, <3>1, <3>2 DEF Brings
  <2>3. Knows(l)
    BY <1>1, <2>1, <2>2 DEF Knows, CheckInv, InsertInv, OldInv, NamesIts, Own, Early
  <2> QED BY <1>1, <2>1, <2>3, QuietStep DEF NotTheRows, Excused, NotYet, Early
<1> QED BY <1>2, <1>3

\* A call answers with an error only before its statement, or for an answer or a status.
LEMMA ErrorReadBack ==
  ASSUME ErrorInv, NEW c \in Calls, ReadBack(c)
  PROVE  ErrorInv'
<1> DEFINE k == call[c]
<1>1. k.pc = "readBack" /\ NotTheRows /\ had \subseteq had' /\ Knows(k)
  BY DEF ReadBack, At, ErrorInv, CallInv
<1>2. k.op = "create" /\ k.id \in Ids /\ NamesIts(k) /\ NamesOurs(k)
  BY <1>1 DEF Knows, ReadInv
<1>3. ASSUME Seen(k.id), Elsewhere(k.t, k.id, k.co), k.t \notin {"answer", "history"}
      PROVE  FALSE
  <2>1. k.id \in DOMAIN rows /\ rows[k.id].t = k.t /\ Owner(k.id) # k.co /\ k.t \in Guarded
    BY <1>2, <1>3 DEF Seen, NamesIts, Elsewhere
  <2>2. k.t \notin Own
    BY <1>2, <2>1 DEF NamesOurs, Own, Owner
  <2>3. k.t = "choice"
    BY <1>3, <2>1, <2>2 DEF Guarded, Own
  <2>4. PICK q \in DOMAIN rows : rows[k.id].refs = {q} /\ rows[q].t = "question"
    BY <2>1, <2>3 DEF ErrorInv, RowInv
  <2>5. The("question", k.id) = q
    BY <2>4 DEF The
  <2>6. rows[q].co = k.co
    BY <1>2, <2>1, <2>3, <2>4 DEF NamesOurs, ChoiceOf
  <2> QED BY <2>1, <2>3, <2>5, <2>6 DEF Owner
<1>4. CASE Seen(k.id) /\ Elsewhere(k.t, k.id, k.co)
  <2>1. Done(c, "error")
    BY <1>4 DEF ReadBack
  <2> QED BY <1>1, <1>2, <1>3, <1>4, <2>1, EndStep DEF NotTheRows
<1>5. CASE ~ (Seen(k.id) /\ Elsewhere(k.t, k.id, k.co))
  <2>1. Done(c, "ok")
    BY <1>5 DEF ReadBack
  <2> QED BY <1>1, <2>1, EndStep DEF NotTheRows
<1> QED BY <1>4, <1>5

LEMMA ErrorReadOld ==
  ASSUME ErrorInv, NEW c \in Calls, ReadOld(c)
  PROVE  ErrorInv'
<1> DEFINE k == call[c]
           refused == IF Seen(k.id) THEN Elsewhere(k.t, k.id, k.co) ELSE k.t # "application"
           next == IF k.op = "update" THEN "write" ELSE "drop"
           seen == IF Seen(k.id) THEN rows[k.id].n ELSE None
<1>1. k.pc = "readOld" /\ NotTheRows /\ UNCHANGED had /\ Knows(k) /\ NotYet(c) /\ DOMAIN call = Calls
  BY DEF ReadOld, At, Keep, ErrorInv, CallInv
<1>2. CASE refused
  <2>1. Done(c, "error")
    BY <1>2 DEF ReadOld
  <2> QED BY <1>1, <2>1, EndStep DEF NotTheRows, Early
<1>3. CASE ~ refused
  <2>1. PICK l : /\ l.pc = next /\ l.op = k.op /\ l.t = k.t /\ l.id = k.id /\ l.co = k.co /\ l.row = k.row
                 /\ l \in Locals /\ Moves(c, l)
    <3>1. Moves(c, [k EXCEPT !.pc = next, !.old = seen])
      BY <1>1, <1>3 DEF ReadOld, Moves
    <3>2. seen \in Nat \cup {None}
      BY DEF Seen, ErrorInv, RowInv, RowSet
    <3>3. k \in Locals
      BY <1>1 DEF Knows
    <3> HIDE DEF seen
    <3> QED BY <3>1, <3>2, <3>3 DEF Locals, Early
  <2>2. ASSUME l.op = "update"
        PROVE  NamesOurs(l)
    <3>1. ASSUME k.id \in DOMAIN rows
          PROVE  /\ k.t \in Own => rows[k.id].co = k.co
                 /\ k.t = "choice" => ChoiceOf(k.id, k.co)
      <4>1. rows[k.id].t = k.t
        BY <1>1, <3>1 DEF Knows, OldInv, NamesIts
      <4>2. CASE k.t \in Own
        <5>1. Owner(k.id) = rows[k.id].co
          BY <4>1, <4>2 DEF Owner, Own
        <5>2. rows[k.id].co # None
          BY <3>1, NoneAssumption DEF ErrorInv, RowInv, RowSet, Companies
        <5>3. Owner(k.id) = k.co
          BY <1>3, <3>1, <4>2, <5>1, <5>2 DEF Seen, Elsewhere, Guarded, Own
        <5> QED BY <4>2, <5>1, <5>3 DEF Own
      <4>3. CASE k.t = "choice"
        <5>1. PICK q \in DOMAIN rows : rows[k.id].refs = {q} /\ rows[q].t = "question"
          BY <3>1, <4>1, <4>3 DEF ErrorInv, RowInv
        <5>2. The("question", k.id) = q
          BY <5>1 DEF The
        <5>3. Owner(k.id) = rows[q].co
          BY <4>1, <4>3, <5>2 DEF Owner
        <5>4. rows[q].co # None
          BY NoneAssumption DEF ErrorInv, RowInv, RowSet, Companies
        <5>5. Owner(k.id) = k.co
          BY <1>3, <3>1, <4>3, <5>3, <5>4 DEF Seen, Elsewhere, Guarded
        <5> QED BY <4>3, <5>1, <5>3, <5>5 DEF ChoiceOf, Own
      <4> QED BY <4>2, <4>3
    <3> QED BY <2>1, <3>1 DEF NamesOurs
  <2>3. Knows(l)
    BY <1>1, <2>1, <2>2 DEF Knows, OldInv, WriteInv, DropInv, NamesIts, Brings
  <2> QED BY <1>1, <2>1, <2>3, QuietStep DEF NotTheRows, Excused, NotYet, Early
<1> QED BY <1>2, <1>3

LEMMA RowsStay ==
  ASSUME RowInv, UNCHANGED <<rows, lastId>>
  PROVE  RowsFollow
BY DEF RowsFollow, RowInv, Ids, ChoiceOf

\* One row more.
LEMMA RowAdded ==
  ASSUME RowInv, NEW r \in RowSet, r.refs \subseteq DOMAIN rows,
         r.t = "choice" => \E q \in DOMAIN rows : r.refs = {q} /\ rows[q].t = "question",
         rows' = Joined([j \in {lastId + 1} |-> r]), lastId' = lastId + 1
  PROVE  /\ RowsFollow
         /\ DOMAIN rows' = DOMAIN rows \cup {lastId + 1} /\ rows'[lastId + 1] = r
         /\ \A j \in DOMAIN rows : rows'[j] = rows[j]
<1>1. lastId \in Nat /\ DOMAIN rows \subseteq 1 .. lastId
  BY DEF RowInv, Ids
<1>2. /\ DOMAIN rows' = DOMAIN rows \cup {lastId + 1} /\ rows'[lastId + 1] = r
      /\ \A j \in DOMAIN rows : rows'[j] = rows[j]
  BY <1>1 DEF Joined
<1>3. RowInv'
  <2>1. DOMAIN rows' \subseteq Ids'
    BY <1>1, <1>2 DEF Ids
  <2>2. ASSUME NEW i \in DOMAIN rows'
        PROVE  /\ rows'[i] \in RowSet
               /\ rows'[i].refs \subseteq DOMAIN rows'
               /\ rows'[i].t = "choice" => \E q \in DOMAIN rows' : rows'[i].refs = {q} /\ rows'[q].t = "question"
    <3>1. CASE i = lastId + 1
      BY <1>2, <3>1
    <3>2. CASE i \in DOMAIN rows
      BY <1>2, <3>2 DEF RowInv
    <3> QED BY <1>2, <2>2, <3>1, <3>2
  <2> QED BY <1>1, <2>1, <2>2 DEF RowInv
<1>4. \A i \in DOMAIN rows' : i \in Ids => i \in DOMAIN rows
  BY <1>1, <1>2 DEF Ids
<1>5. \A i \in DOMAIN rows : rows[i].refs \subseteq DOMAIN rows
  BY DEF RowInv
<1>6. RowsFollow
  BY <1>1, <1>2, <1>3, <1>4, <1>5 DEF RowsFollow, ChoiceOf
<1> QED BY <1>2, <1>6

LEMMA ErrorInsert ==
  ASSUME ErrorInv, NEW c \in Calls, InsertRow(c)
  PROVE  ErrorInv'
<1> DEFINE k == call[c]
           i == lastId + 1
<1>1. k.pc = "insert" /\ UNCHANGED had /\ Knows(k) /\ NotYet(c) /\ DOMAIN call = Calls
  BY DEF InsertRow, At, Keep, ErrorInv, CallInv
<1>2. k \in Locals /\ InsertInv(k) /\ k.t \in Tables /\ lastId \in Nat
  BY <1>1 DEF Knows, ErrorInv, RowInv
<1>3. CASE ~ (k.row.refs \subseteq DOMAIN rows)
  <2>1. Done(c, "error") /\ NotTheRows
    BY <1>3 DEF InsertRow
  <2> QED BY <1>1, <2>1, EndStep DEF NotTheRows, Early
<1>4. CASE k.row.refs \subseteq DOMAIN rows
  <2>1. /\ rows' = Joined([j \in {i} |-> k.row]) /\ lastId' = i /\ wrote' = wrote \cup {<<i, c>>}
        /\ call' = [call EXCEPT ![c].pc = "readBack", ![c].id = i]
    BY <1>4 DEF InsertRow, Insert
  <2>2. k.row.t = "choice" => \E q \in DOMAIN rows : k.row.refs = {q} /\ rows[q].t = "question"
    BY <1>2, <1>4 DEF InsertInv, Brings, IsQuestion
  <2>3. /\ RowsFollow /\ DOMAIN rows' = DOMAIN rows \cup {i} /\ rows'[i] = k.row
        /\ \A j \in DOMAIN rows : rows'[j] = rows[j]
    BY <1>2, <1>4, <2>1, <2>2, RowAdded DEF InsertInv, ErrorInv
  <2>4. PICK l : /\ l.pc = "readBack" /\ l.op = k.op /\ l.t = k.t /\ l.id = i /\ l.co = k.co
                 /\ l \in Locals /\ Moves(c, l)
    <3>1. Moves(c, [k EXCEPT !.pc = "readBack", !.id = i])
      BY <1>1, <2>1 DEF Moves
    <3>2. i \in Nat /\ k \in Locals
      BY <1>2
    <3> HIDE DEF i, k
    <3> QED BY <3>1, <3>2 DEF Locals, Late
  <2>5. NamesIts(l)' /\ NamesOurs(l)'
    <3>1. k.t = "choice" => \E q \in DOMAIN rows : k.row.refs = {q} /\ rows[q].co = k.co
      BY <1>2, <1>4 DEF InsertInv, Brings
    <3> QED BY <1>2, <2>3, <2>4, <3>1 DEF InsertInv, NamesIts, NamesOurs, ChoiceOf
  <2>6. Knows(l)'
    BY <1>1, <1>2, <2>1, <2>4, <2>5 DEF Knows, InsertInv, ReadInv, Ids
  <2> QED BY <1>1, <2>1, <2>3, <2>4, <2>6, StepKeeps DEF Excused, Early
<1> QED BY <1>3, <1>4

LEMMA WriteFollows ==
  ASSUME RowInv, NEW l, l \in Locals, l.row \in RowSet, NamesIts(l), NamesOurs(l), Brings(l),
         l.row.refs \subseteq DOMAIN rows, l.id \in DOMAIN rows, NEW c \in Calls,
         rows' = Written(l.id, l.row, c), lastId' = lastId
  PROVE  /\ RowsFollow
         /\ DOMAIN rows' = DOMAIN rows /\ \A j \in DOMAIN rows : j # l.id => rows'[j] = rows[j]
         /\ rows'[l.id].n = c /\ rows'[l.id].t = rows[l.id].t
<1> DEFINE i == l.id
<1>1. DOMAIN rows' = DOMAIN rows /\ \A j \in DOMAIN rows : j # i => rows'[j] = rows[j]
  BY DEF Written
<1>2. rows[i] \in RowSet
  BY DEF RowInv
<1>3. /\ rows'[i] \in RowSet /\ rows'[i].t = rows[i].t /\ rows'[i].co = rows[i].co
      /\ rows'[i].refs = l.row.refs /\ rows'[i].n = c
  <2>1. PICK r \in RowSet : r = rows[i]
    BY <1>2
  <2>2. rows'[i] = [r EXCEPT !.refs = l.row.refs, !.opening = l.row.opening, !.n = c]
    BY <2>1 DEF Written
  <2>3. PICK s \in RowSet : s = l.row
    OBVIOUS
  <2> QED BY <2>1, <2>2, <2>3, CallsNat DEF RowSet
<1>4. rows[i].t = "choice" => \E q \in DOMAIN rows : /\ l.row.refs = {q} /\ rows[q].t = "question"
                                                     /\ rows[q].co = l.co
  BY DEF NamesIts, Brings, IsQuestion
<1>5. \A j \in DOMAIN rows : rows'[j].t = rows[j].t /\ rows'[j].co = rows[j].co
  BY <1>1, <1>3
<1>6. RowInv'
  <2>1. ASSUME NEW j \in DOMAIN rows
        PROVE  /\ rows'[j] \in RowSet
               /\ rows'[j].refs \subseteq DOMAIN rows
               /\ rows'[j].t = "choice" => \E q \in DOMAIN rows : rows'[j].refs = {q} /\ rows'[q].t = "question"
    <3>1. CASE j = i
      BY <1>3, <1>4, <1>5, <3>1
    <3>2. CASE j # i
      BY <1>1, <1>5, <3>2 DEF RowInv
    <3> QED BY <3>1, <3>2
  <2> QED BY <1>1, <2>1 DEF RowInv, Ids
<1>7. ASSUME NEW j \in DOMAIN rows, rows[j].t = "choice", NEW co, ChoiceOf(j, co)
      PROVE  ChoiceOf(j, co)'
  <2>1. CASE j = i
    <3>1. PICK p \in DOMAIN rows : rows[i].refs = {p}
      BY <1>7, <2>1 DEF RowInv
    <3>2. rows[p].co = l.co /\ rows[p].co = co
      BY <1>7, <2>1, <3>1 DEF NamesOurs, NamesIts, ChoiceOf
    <3>3. \A q \in rows'[i].refs : rows'[q].co = l.co
      BY <1>3, <1>4, <1>5, <1>7, <2>1
    <3> QED BY <2>1, <3>2, <3>3 DEF ChoiceOf
  <2>2. CASE j # i
    <3>1. rows'[j].refs = rows[j].refs /\ rows[j].refs \subseteq DOMAIN rows
      BY <1>1, <2>2 DEF RowInv
    <3> QED BY <1>5, <1>7, <3>1 DEF ChoiceOf
  <2> QED BY <2>1, <2>2
<1>8. RowsFollow
  BY <1>1, <1>5, <1>6, <1>7 DEF RowsFollow, RowInv
<1> QED BY <1>1, <1>3, <1>8

\* A statement that missed its database changed nothing.
LEMMA MissedMoves ==
  ASSUME ErrorInv, NEW c \in Calls, WriteRow(c) \/ DropRow(c), Missed(c)
  PROVE  \E l : /\ l = [call[c] EXCEPT !.pc = "log"] /\ l \in Locals /\ Moves(c, l)
               /\ l.pc = "log" /\ l.op = call[c].op /\ l.t = call[c].t /\ l.id = call[c].id /\ l.old = call[c].old
               /\ call[c].pc \in {"write", "drop"} /\ OldInv(call[c])
               /\ UNCHANGED Stores /\ had' = had \cup {<<"missed", call[c].id>>}
<1> PICK k : k = call[c]
  OBVIOUS
<1>1. k.pc \in {"write", "drop"}
  BY DEF WriteRow, DropRow, At
<1>2. Knows(k) /\ DOMAIN call = Calls
  BY DEF ErrorInv, CallInv
<1>3. k \in Locals /\ OldInv(k)
  BY <1>1, <1>2 DEF Knows, WriteInv, DropInv
<1>4. Moves(c, [k EXCEPT !.pc = "log"])
  BY <1>2 DEF Missed, Goto, Moves
<1> QED BY <1>1, <1>3, <1>4 DEF Missed, Locals, Late

LEMMA WriteRowFollows ==
  ASSUME ErrorInv, NEW c \in Calls, WriteRow(c)
  PROVE  RowsFollow
<1> DEFINE k == call[c]
<1>1. k.pc = "write" /\ UNCHANGED lastId /\ Knows(k) /\ RowInv
  BY DEF WriteRow, Missed, Stores, At, ErrorInv, CallInv
<1>2. CASE UNCHANGED rows
  BY <1>1, <1>2, RowsStay
<1>3. CASE ~ UNCHANGED rows
  <2>1. k.row.refs \subseteq DOMAIN rows /\ k.id \in DOMAIN rows /\ rows' = Written(k.id, k.row, c)
    BY <1>3 DEF WriteRow, Missed, Stores
  <2>2. k \in Locals /\ k.row \in RowSet /\ NamesIts(k) /\ NamesOurs(k) /\ Brings(k)
    BY <1>1 DEF Knows, WriteInv, OldInv
  <2> QED BY <1>1, <2>1, <2>2, WriteFollows
<1> QED BY <1>2, <1>3

LEMMA ErrorWrite ==
  ASSUME ErrorInv, NEW c \in Calls, WriteRow(c), ~ Missed(c)
  PROVE  ErrorInv'
<1> DEFINE k == call[c]
<1>1. k.pc = "write" /\ UNCHANGED <<had, lastId>> /\ Knows(k) /\ NotYet(c) /\ DOMAIN call = Calls
  BY DEF WriteRow, At, Keep, ErrorInv, CallInv
<1>2. k \in Locals /\ WriteInv(k) /\ k.t \in Tables /\ RowInv
  BY <1>1 DEF Knows, ErrorInv
<1>3. CASE ~ (k.row.refs \subseteq DOMAIN rows)
  <2>1. Done(c, "error") /\ NotTheRows
    BY <1>1, <1>3 DEF WriteRow, NotTheRows
  <2> QED BY <1>1, <2>1, EndStep DEF NotTheRows, Early
<1>4. CASE k.row.refs \subseteq DOMAIN rows
  <2>1. IF k.id \in DOMAIN rows
          THEN rows' = Written(k.id, k.row, c) /\ wrote' = wrote \cup {<<k.id, c>>}
          ELSE UNCHANGED <<rows, wrote>>
    BY <1>4 DEF WriteRow
  <2>2. PICK l : /\ l.pc = "log" /\ l.op = k.op /\ l.t = k.t /\ l \in Locals /\ Moves(c, l)
    <3>1. Moves(c, [k EXCEPT !.pc = "log"])
      BY <1>1, <1>4 DEF WriteRow, Goto, Moves
    <3> QED BY <1>2, <3>1 DEF Locals, Late
  <2>3. Knows(l)'
    BY <1>2, <2>2 DEF Knows, WriteInv, OldInv, Ops
  <2>4. RowsFollow
    BY WriteRowFollows
  <2> QED BY <1>1, <2>1, <2>2, <2>3, <2>4, StepKeeps DEF Excused, Early
<1> QED BY <1>3, <1>4

LEMMA DropRowFollows ==
  ASSUME ErrorInv, NEW c \in Calls, DropRow(c)
  PROVE  RowsFollow
<1> DEFINE k == call[c]
<1>1. UNCHANGED lastId /\ RowInv
  BY DEF DropRow, Missed, Stores, ErrorInv
<1>2. CASE UNCHANGED rows
  BY <1>1, <1>2, RowsStay
<1>3. CASE ~ UNCHANGED rows
  <2>1. rows' = Restrict(rows, DOMAIN rows \ {k.id}) /\ ~ \E i \in DOMAIN rows : k.id \in rows[i].refs
    BY <1>3 DEF DropRow, Missed, Stores
  <2>2. DOMAIN rows' = DOMAIN rows \ {k.id} /\ \A j \in DOMAIN rows' : rows'[j] = rows[j]
    BY <2>1 DEF Restrict
  <2>3. RowInv'
    <3>1. DOMAIN rows' \subseteq Ids'
      BY <1>1, <2>2 DEF RowInv, Ids
    <3>2. ASSUME NEW i \in DOMAIN rows'
          PROVE  /\ rows'[i] \in RowSet
                 /\ rows'[i].refs \subseteq DOMAIN rows'
                 /\ rows'[i].t = "choice" => \E q \in DOMAIN rows' : rows'[i].refs = {q} /\ rows'[q].t = "question"
      <4>1. rows'[i] = rows[i] /\ i \in DOMAIN rows
        BY <2>2
      <4>2. rows[i].refs \subseteq DOMAIN rows'
        BY <1>1, <2>1, <2>2, <4>1 DEF RowInv
      <4>3. \A q \in rows[i].refs : rows'[q] = rows[q]
        BY <2>2, <4>2
      <4> QED BY <1>1, <4>1, <4>2, <4>3 DEF RowInv
    <3> QED BY <1>1, <3>1, <3>2 DEF RowInv
  <2>4. \A i \in DOMAIN rows' : rows[i].refs \subseteq DOMAIN rows'
    BY <1>1, <2>1, <2>2 DEF RowInv
  <2> QED BY <1>1, <2>2, <2>3, <2>4 DEF RowsFollow, RowInv, ChoiceOf
<1> QED BY <1>2, <1>3

LEMMA ErrorDrop ==
  ASSUME ErrorInv, NEW c \in Calls, DropRow(c), ~ Missed(c)
  PROVE  ErrorInv'
<1> DEFINE k == call[c]
<1>1. k.pc = "drop" /\ UNCHANGED <<had, lastId>> /\ Knows(k) /\ NotYet(c) /\ DOMAIN call = Calls
  BY DEF DropRow, At, Keep, ErrorInv, CallInv
<1>2. k \in Locals /\ DropInv(k) /\ k.t \in Tables /\ RowInv
  BY <1>1 DEF Knows, ErrorInv
<1>3. CASE \E i \in DOMAIN rows : k.id \in rows[i].refs
  <2>1. Done(c, "error") /\ NotTheRows
    BY <1>1, <1>3 DEF DropRow, NotTheRows
  <2> QED BY <1>1, <2>1, EndStep DEF NotTheRows, Early
<1>4. CASE ~ \E i \in DOMAIN rows : k.id \in rows[i].refs
  <2>1. /\ rows' = Restrict(rows, DOMAIN rows \ {k.id})
        /\ wrote' = IF k.id \in DOMAIN rows THEN wrote \cup {<<k.id, c>>} ELSE wrote
    BY <1>4 DEF DropRow
  <2>2. PICK l : /\ l.pc = "log" /\ l.op = k.op /\ l.t = k.t /\ l \in Locals /\ Moves(c, l)
    <3>1. Moves(c, [k EXCEPT !.pc = "log"])
      BY <1>1, <1>4 DEF DropRow, Goto, Moves
    <3> QED BY <1>2, <3>1 DEF Locals, Late
  <2>3. Knows(l)'
    BY <1>2, <2>2 DEF Knows, DropInv, OldInv, Ops
  <2>4. RowsFollow
    BY DropRowFollows
  <2> QED BY <1>1, <2>1, <2>2, <2>3, <2>4, StepKeeps DEF Excused, Early
<1> QED BY <1>3, <1>4

LEMMA ErrorMissed ==
  ASSUME ErrorInv, NEW c \in Calls, WriteRow(c) \/ DropRow(c), Missed(c)
  PROVE  ErrorInv'
<1>1. PICK l : /\ l \in Locals /\ Moves(c, l) /\ l.pc = "log" /\ l.op = call[c].op /\ l.t = call[c].t
               /\ OldInv(call[c]) /\ call[c].pc \in {"write", "drop"}
               /\ UNCHANGED Stores /\ had \subseteq had'
  BY MissedMoves
<1>2. Knows(call[c])
  BY DEF ErrorInv, CallInv
<1>3. Knows(l)
  BY <1>1, <1>2 DEF Knows, OldInv
<1> QED BY <1>1, <1>3, QuietStep DEF Stores, Excused, Early

LEMMA ErrorFind ==
  ASSUME ErrorInv, NEW c \in Calls, FindVersion(c)
  PROVE  ErrorInv'
<1> DEFINE k == call[c]
           posted == Matching("posting", k.co, k.row.opening)
<1>1. k.pc = "find" /\ NotTheRows /\ UNCHANGED had /\ Knows(k) /\ NotYet(c) /\ DOMAIN call = Calls
  BY DEF FindVersion, At, Keep, ErrorInv, CallInv
<1>2. k \in Locals
  BY <1>1 DEF Knows
<1>3. PICK l : /\ l.pc \in {"make", "apply"} /\ l.op = k.op /\ l.t = k.t /\ l.co = k.co /\ l.row = k.row
               /\ l.pc = "apply" => l.found \subseteq Ids
               /\ l \in Locals /\ Moves(c, l)
  <2>1. CASE Goto(c, "make")
    <3>1. Moves(c, [k EXCEPT !.pc = "make"])
      BY <1>1, <2>1 DEF Goto, Moves
    <3> QED BY <1>2, <3>1 DEF Locals, Early
  <2>2. ASSUME NEW p \in SUBSET posted, call' = [call EXCEPT ![c].pc = "apply", ![c].found = p]
        PROVE  \E l : /\ l.pc \in {"make", "apply"} /\ l.op = k.op /\ l.t = k.t /\ l.co = k.co /\ l.row = k.row
                      /\ l.pc = "apply" => l.found \subseteq Ids
                      /\ l \in Locals /\ Moves(c, l)
    <3>1. Moves(c, [k EXCEPT !.pc = "apply", !.found = p])
      BY <1>1, <2>2 DEF Moves
    <3>2. p \subseteq Ids /\ p \in SUBSET Nat
      BY IdsNat DEF Matching, Of, ErrorInv, RowInv
    <3> HIDE DEF posted, k
    <3> QED BY <1>2, <3>1, <3>2 DEF Locals, Early
  <2>3. Goto(c, "make") \/ \E p \in SUBSET posted : call' = [call EXCEPT ![c].pc = "apply", ![c].found = p]
    BY DEF FindVersion
  <2> QED BY <2>1, <2>2, <2>3
<1>4. Knows(l)
  BY <1>1, <1>3 DEF Knows, ExportInv
<1> QED BY <1>1, <1>3, <1>4, QuietStep DEF NotTheRows, Excused, NotYet, Early

\* The place of an export after its application.
LEMMA AfterKnows ==
  ASSUME ErrorInv, NEW c \in Calls, AfterApplication(c), call[c].pc \in {"make", "apply"}
  PROVE  \E l : /\ Moves(c, l) /\ l.pc \in {"clear", "attach"} /\ l.op = call[c].op /\ l.t = call[c].t
                /\ l \in Locals /\ l.op = "export" /\ l.t = "application"
<1>1. Knows(call[c]) /\ DOMAIN call = Calls
  BY DEF ErrorInv, CallInv
<1>2. PICK pc \in {"clear", "attach"} : call' = [call EXCEPT ![c].pc = pc]
  BY DEF AfterApplication
<1>3. Moves(c, [call[c] EXCEPT !.pc = pc])
  BY <1>1, <1>2 DEF Moves
<1>4. PICK k \in Locals : k = call[c] /\ k.op = "export" /\ k.t = "application"
  BY <1>1 DEF Knows, ExportInv
<1> QED BY <1>3, <1>4 DEF Locals, Late

LEMMA MadeRows ==
  ASSUME ErrorInv, NEW c \in Calls, MakePosting(c), NEW v, v = lastId + 1
  PROVE  /\ lastId \in Nat /\ lastId' = lastId + 3
         /\ DOMAIN rows' = DOMAIN rows \cup {v, v + 1, v + 2}
         /\ \A i \in DOMAIN rows : i \in 1 .. lastId /\ rows'[i] = rows[i]
         /\ rows'[v] = Row("version", call[c].co, {}, call[c].row.opening, c, c)
         /\ rows'[v + 1] = Row("posting", call[c].co, {v}, call[c].row.opening, c, c)
         /\ rows'[v + 2] = [call[c].row EXCEPT !.refs = {v + 1}]
         /\ \A i \in {v, v + 1, v + 2} : rows'[i] \in RowSet
<1> DEFINE version == Row("version", call[c].co, {}, call[c].row.opening, c, c)
           posting == Row("posting", call[c].co, {v}, call[c].row.opening, c, c)
           application == [call[c].row EXCEPT !.refs = {v + 1}]
<1>1. Knows(call[c]) /\ call[c].pc = "make" /\ lastId \in Nat /\ DOMAIN rows \subseteq 1 .. lastId
  BY DEF MakePosting, At, ErrorInv, CallInv, RowInv, Ids
<1>2. /\ DOMAIN rows' = DOMAIN rows \cup v .. v + 2
      /\ \A i \in DOMAIN rows' : rows'[i] = IF i \in v .. v + 2
           THEN IF i = v THEN version ELSE IF i = v + 1 THEN posting ELSE application
           ELSE rows[i]
  BY DEF MakePosting, Joined
<1>3. v .. v + 2 = {v, v + 1, v + 2} /\ lastId' = v + 2
  BY <1>1 DEF MakePosting
<1>4. version \in RowSet /\ posting \in RowSet /\ application \in RowSet
  <2>1. call[c].co \in Companies
    BY <1>1 DEF Knows
  <2> QED BY <1>1, <2>1, CallsNat DEF Row, RowSet, Tables, Knows
<1> HIDE DEF version, posting, application
<1>5. rows'[v] = version /\ rows'[v + 1] = posting /\ rows'[v + 2] = application
  BY <1>1, <1>2, <1>3
<1>6. \A i \in DOMAIN rows : i \in 1 .. lastId /\ rows'[i] = rows[i]
  BY <1>1, <1>2, <1>3
<1> QED BY <1>1, <1>2, <1>3, <1>4, <1>5, <1>6 DEF version, posting, application

LEMMA MakePostingFollows ==
  ASSUME ErrorInv, NEW c \in Calls, MakePosting(c)
  PROVE  RowsFollow
<1>1. PICK v : v = lastId + 1
  OBVIOUS
<1>2. call[c].row \in RowSet /\ call[c].row.t = "application" /\ RowInv
  BY DEF MakePosting, At, ErrorInv, CallInv, Knows
<1>3. /\ lastId \in Nat /\ lastId' = lastId + 3
      /\ DOMAIN rows' = DOMAIN rows \cup {v, v + 1, v + 2}
      /\ \A i \in DOMAIN rows : i \in 1 .. lastId /\ rows'[i] = rows[i]
      /\ \A i \in {v, v + 1, v + 2} : rows'[i] \in RowSet
  BY <1>1, MadeRows
<1>4. /\ rows'[v].t = "version" /\ rows'[v].refs = {}
      /\ rows'[v + 1].t = "posting" /\ rows'[v + 1].refs = {v}
      /\ rows'[v + 2].t = "application" /\ rows'[v + 2].refs = {v + 1}
  <2>1. PICK r \in RowSet : r = call[c].row /\ r.t = "application"
    BY <1>2
  <2>2. /\ rows'[v] = Row("version", call[c].co, {}, r.opening, c, c)
        /\ rows'[v + 1] = Row("posting", call[c].co, {v}, r.opening, c, c)
        /\ rows'[v + 2] = [r EXCEPT !.refs = {v + 1}]
    BY <1>1, <2>1, MadeRows
  <2> QED BY <2>1, <2>2 DEF Row, RowSet
<1>5. RowInv'
  <2>1. DOMAIN rows' \subseteq Ids' /\ lastId' \in Nat
    BY <1>1, <1>3 DEF Ids
  <2>2. ASSUME NEW i \in DOMAIN rows'
        PROVE  /\ rows'[i] \in RowSet
               /\ rows'[i].refs \subseteq DOMAIN rows'
               /\ rows'[i].t = "choice" => \E q \in DOMAIN rows' : rows'[i].refs = {q} /\ rows'[q].t = "question"
    <3>1. CASE i \in DOMAIN rows
      BY <1>2, <1>3, <3>1 DEF RowInv
    <3>2. CASE i \in {v, v + 1, v + 2}
      BY <1>3, <1>4, <3>2
    <3> QED BY <1>3, <3>1, <3>2
  <2> QED BY <2>1, <2>2 DEF RowInv
<1>6. \A i \in DOMAIN rows' : i \in Ids => i \in DOMAIN rows
  BY <1>1, <1>3 DEF Ids
<1>7. \A i \in DOMAIN rows : rows[i].refs \subseteq DOMAIN rows
  BY <1>2 DEF RowInv
<1>8. lastId <= lastId'
  BY <1>3
<1> QED BY <1>3, <1>5, <1>6, <1>7, <1>8 DEF RowsFollow, ChoiceOf

LEMMA ErrorMake ==
  ASSUME ErrorInv, NEW c \in Calls, MakePosting(c)
  PROVE  ErrorInv'
<1>1. call[c].pc = "make" /\ UNCHANGED had
  BY DEF MakePosting, At, Keep
<1>2. RowsFollow
  BY MakePostingFollows
<1>3. \A p \in wrote' \ wrote : p[2] = c
  BY DEF MakePosting
<1>4. PICK l : /\ Moves(c, l) /\ l.pc \in {"clear", "attach"} /\ l \in Locals /\ l.op = "export"
               /\ l.t = "application"
  BY <1>1, AfterKnows DEF MakePosting
<1>5. Knows(l)'
  BY <1>4 DEF Knows, ExportInv, Ops, Tables
<1> QED BY <1>1, <1>2, <1>3, <1>4, <1>5, StepKeeps DEF Excused, Early

LEMMA UsedRows ==
  ASSUME ErrorInv, NEW c \in Calls, UsePosting(c), call[c].found \subseteq DOMAIN rows, NEW i, i = lastId + 1
  PROVE  /\ RowsFollow /\ lastId \in Nat /\ lastId' = i
         /\ DOMAIN rows' = DOMAIN rows \cup {i}
         /\ rows'[i] = [call[c].row EXCEPT !.refs = call[c].found]
         /\ \A j \in DOMAIN rows : rows'[j] = rows[j]
<1> DEFINE application == [call[c].row EXCEPT !.refs = call[c].found]
<1>1. call[c].pc = "apply" /\ Knows(call[c]) /\ RowInv /\ lastId \in Nat
  BY DEF UsePosting, At, ErrorInv, CallInv, RowInv
<1>2. Insert(lastId + 1, application, c)
  BY DEF UsePosting
<1>3. application \in RowSet /\ application.t = "application" /\ application.refs = call[c].found
  BY <1>1 DEF Knows, Locals, RowSet
<1> HIDE DEF application
<1>4. rows' = Joined([j \in {lastId + 1} |-> application]) /\ lastId' = lastId + 1
  BY <1>2 DEF Insert
<1>5. /\ RowsFollow
      /\ DOMAIN rows' = DOMAIN rows \cup {lastId + 1} /\ rows'[lastId + 1] = application
      /\ \A j \in DOMAIN rows : rows'[j] = rows[j]
  BY <1>1, <1>3, <1>4, RowAdded
<1> QED BY <1>1, <1>4, <1>5 DEF application

LEMMA UsePostingFollows ==
  ASSUME ErrorInv, NEW c \in Calls, UsePosting(c)
  PROVE  RowsFollow
<1>1. CASE ~ (call[c].found \subseteq DOMAIN rows)
  BY <1>1, RowsStay DEF UsePosting, NotTheRows, ErrorInv
<1>2. CASE call[c].found \subseteq DOMAIN rows
  BY <1>2, UsedRows
<1> QED BY <1>1, <1>2

LEMMA ErrorUse ==
  ASSUME ErrorInv, NEW c \in Calls, UsePosting(c)
  PROVE  ErrorInv'
<1> DEFINE k == call[c]
           application == [k.row EXCEPT !.refs = k.found]
<1>1. k.pc = "apply" /\ UNCHANGED had /\ Knows(k) /\ NotYet(c) /\ RowInv
  BY DEF UsePosting, At, Keep, ErrorInv, CallInv
<1>2. CASE ~ (k.found \subseteq DOMAIN rows)
  <2>1. Done(c, "error") /\ NotTheRows
    BY <1>2 DEF UsePosting
  <2> QED BY <1>1, <2>1, EndStep DEF NotTheRows, Early
<1>3. CASE k.found \subseteq DOMAIN rows
  <2>1. Insert(lastId + 1, application, c) /\ AfterApplication(c)
    BY <1>3 DEF UsePosting
  <2>2. RowsFollow
    BY UsePostingFollows
  <2>3. \A p \in wrote' \ wrote : p[2] = c
    BY <2>1 DEF Insert
  <2>4. PICK l : /\ Moves(c, l) /\ l.pc \in {"clear", "attach"} /\ l \in Locals /\ l.op = "export"
                 /\ l.t = "application"
    BY <1>1, <2>1, AfterKnows
  <2>5. Knows(l)'
    BY <2>4 DEF Knows, ExportInv, Ops, Tables
  <2> QED BY <1>1, <2>2, <2>3, <2>4, <2>5, StepKeeps DEF Excused, Early
<1> QED BY <1>2, <1>3

LEMMA InitError == Init => ErrorInv
<1> SUFFICES ASSUME Init
             PROVE  ErrorInv
  OBVIOUS
<1>1. PICK o \in {None, Opening} : rows = [i \in 1 .. 13 |-> Given(o)[i]]
  BY DEF Init
<1>2. lastId = 13 /\ DOMAIN rows = 1 .. 13
  BY <1>1 DEF Init
<1>3. ASSUME NEW i \in 1 .. 13
      PROVE  /\ rows[i] \in RowSet
             /\ rows[i].refs \subseteq 1 .. 13
             /\ rows[i].t = "choice" => rows[i].refs = {2}
  BY <1>1 DEF Given, Row, RowSet, Tables, Companies, Openings
<1>4. rows[2].t = "question"
  BY <1>1 DEF Given, Row
<1>5. RowInv
  BY <1>2, <1>3, <1>4 DEF RowInv, Ids
<1>6. \A c \in Calls : call[c] = Idle
  BY DEF Init
<1>7. Idle.pc = "idle" /\ Idle.op = None /\ Idle \in Locals
  BY DEF Idle, Locals
<1> QED BY <1>5, <1>6, <1>7 DEF Init, ErrorInv, CallInv, Knows, NotYet, ErrorMeansNoChange

LEMMA NextError ==
  ASSUME ErrorInv, [Next]_vars
  PROVE  ErrorInv'
<1>1. ASSUME UNCHANGED <<rows, lastId, wrote, call>>, had \subseteq had'
      PROVE  ErrorInv'
  BY <1>1 DEF ErrorInv, RowInv, CallInv, ErrorMeansNoChange, Had, Ids, Knows, InsertInv, CheckInv, OldInv,
              WriteInv, DropInv, ReadInv, ExportInv, Brings, IsQuestion, NamesIts, NamesOurs, ChoiceOf, NotYet
<1>2. CASE UNCHANGED vars
  BY <1>1, <1>2 DEF vars
<1>3. ASSUME NEW e \in sent, LogLands(e) \/ LogLost(e)
      PROVE  ErrorInv'
  BY <1>1, <1>3 DEF LogLands, LogLost, NotTheRows
<1>4. ASSUME NEW c \in Calls, Step(c)
      PROVE  ErrorInv'
  BY <1>4, ErrorInsert, ErrorReadBack, ErrorCheck, ErrorReadOld, ErrorWrite, ErrorDrop, ErrorMissed, ErrorEnds,
     ErrorFind, ErrorMake, ErrorUse DEF Step
<1> QED BY <1>2, <1>3, <1>4, ErrorHandle, ErrorFail DEF Next

\* However many calls there are, beside each other in any way, and whatever fails: a call
\* that answers with an error has changed nothing, with the exceptions the property names.
THEOREM ErrorsChangeNothing == Spec => []ErrorMeansNoChange
<1>1. ErrorInv => ErrorMeansNoChange
  BY DEF ErrorInv
<1> QED BY <1>1, InitError, NextError, PTL DEF Spec

-----------------------------------------------------------------------------
(* The audit trail.                                                        *)

\* Calls that are under way at a time are known to be.
Overlap == \A c, d \in Calls : c # d /\ Running(c) /\ Running(d) => Had("beside", c)

Tells(e, i, c) == e.id = i /\ IF call[c].op = "delete" THEN e.kind = "delete" ELSE e.new = c

Exempt(i, c) ==
  \/ Had("lost", i) \/ Had("failed", c) \/ Had("beside", c)
  \/ call[c].pc = "done" /\ call[c].result = "error" /\ call[c].t \in {"answer", "history"}
  \/ Had("unseen", c)

\* A change is about to be told, or was.
Trailed(c) ==
  \A p \in wrote : p[2] = c /\ call[c].op \in {"create", "update", "delete"} =>
    \/ call[c].pc \in {"readBack", "log"} /\ p[1] = call[c].id
    \/ call[c].pc = "done" /\ \E e \in sent \cup audit : Tells(e, p[1], c)
    \/ Exempt(p[1], c)

\* A new row is read back as it was inserted.
Fresh(c) ==
  call[c].pc = "readBack" /\ call[c].id \in DOMAIN rows => rows[call[c].id].n = c \/ Had("beside", c)

\* The row that a call brings is signed with its number.
Signed(c) == call[c].pc \in Early /\ call[c].op # "delete" => call[c].row.n = c

CallTrail(c) == Trailed(c) /\ Fresh(c) /\ Signed(c)

TrailInv == Overlap /\ \A c \in Calls : CallTrail(c)

LEMMA InitTrail == Init => TrailInv
BY DEF Init, TrailInv, Overlap, CallTrail, Trailed, Fresh, Signed, Running, Idle, Early

\* A step of a running call, after which the others are as they were.
LEMMA TrailStep ==
  ASSUME ErrorInv, ErrorInv', TrailInv, NEW c \in Calls, Running(c), \A d \in Calls \ {c} : call'[d] = call[d],
         had \subseteq had', sent \cup audit \subseteq sent' \cup audit', \A p \in wrote' \ wrote : p[2] = c,
         RowsFollow, CallTrail(c)'
  PROVE  TrailInv'
<1>1. ASSUME NEW d \in Calls \ {c}
      PROVE  CallTrail(d)'
  <2>1. call'[d] = call[d] /\ CallTrail(d)
    BY DEF TrailInv
  <2>2. \A p \in wrote' : p[2] = d => p \in wrote
    OBVIOUS
  <2>3. Trailed(d)'
    BY <2>1, <2>2 DEF CallTrail, Trailed, Exempt, Had, Tells
  <2>4. Fresh(d)'
    <3>1. CASE call[d].pc = "readBack"
      <4>1. Had("beside", d)
        BY <3>1 DEF TrailInv, Overlap, Running
      <4> QED BY <4>1 DEF Fresh, Had
    <3>2. CASE call[d].pc # "readBack"
      BY <2>1, <3>2 DEF Fresh
    <3> QED BY <3>1, <3>2
  <2> QED BY <2>1, <2>3, <2>4 DEF CallTrail, Signed
<1>2. Overlap'
  BY DEF TrailInv, Overlap, Running, Had
<1> QED BY <1>1, <1>2 DEF TrailInv

\* The same when the rows and the entries stay.
LEMMA TrailQuiet ==
  ASSUME ErrorInv, ErrorInv', TrailInv, NEW c \in Calls, Running(c), \A d \in Calls \ {c} : call'[d] = call[d],
         had \subseteq had', sent \cup audit \subseteq sent' \cup audit', UNCHANGED <<rows, lastId, wrote>>,
         CallTrail(c)'
  PROVE  TrailInv'
<1>1. RowsFollow
  BY DEF RowsFollow, ErrorInv, RowInv, Ids, ChoiceOf
<1> QED BY <1>1, TrailStep

LEMMA TrailHandle ==
  ASSUME ErrorInv, ErrorInv', TrailInv, NEW c \in Calls, Handle(c)
  PROVE  TrailInv'
<1> DEFINE beside == {d \in Calls : Running(d)}
<1>1. PICK l : Start(c, l) /\ Begun(c, l)
  BY HandleBegins DEF Begins, ErrorInv
<1>2. /\ call[c].pc = "idle" /\ NotYet(c) /\ Moves(c, l)
      /\ UNCHANGED Stores /\ had' = had \cup {<<"beside", d>> : d \in IF beside = {} THEN {} ELSE beside \cup {c}}
  BY <1>1 DEF ErrorInv, CallInv, Start, At, Moves
<1>3. CallTrail(c)'
  BY <1>1, <1>2 DEF Begun, CallTrail, Trailed, Fresh, Signed, NotYet, Stores, Moves, Early
<1>4. ASSUME NEW d \in Calls \ {c}
      PROVE  CallTrail(d)'
  <2>1. call'[d] = call[d] /\ CallTrail(d) /\ had \subseteq had'
    BY <1>2 DEF TrailInv, Moves
  <2> QED BY <1>2, <2>1 DEF CallTrail, Trailed, Fresh, Signed, Exempt, Had, Tells, Stores
<1>5. ASSUME NEW a \in Calls, NEW b \in Calls, a # b, Running(a)', Running(b)'
      PROVE  Had("beside", a)'
  <2>1. CASE a = c
    <3>1. b \in beside
      BY <1>2, <1>5, <2>1 DEF Running, Moves
    <3>2. c \in IF beside = {} THEN {} ELSE beside \cup {c}
      BY <3>1
    <3> QED BY <1>2, <2>1, <3>2 DEF Had
  <2>2. CASE a # c
    <3>1. a \in beside
      BY <1>2, <1>5, <2>2 DEF Running, Moves
    <3>2. a \in IF beside = {} THEN {} ELSE beside \cup {c}
      BY <3>1
    <3> QED BY <1>2, <3>2 DEF Had
  <2> QED BY <2>1, <2>2
<1> QED BY <1>3, <1>4, <1>5 DEF TrailInv, Overlap

\* A call that ends before it wrote anything.
LEMMA TrailEnds ==
  ASSUME ErrorInv, ErrorInv', TrailInv, NEW c \in Calls, NEW result, Done(c, result), had \subseteq had',
         sent \cup audit \subseteq sent' \cup audit', UNCHANGED <<rows, lastId, wrote>>, call[c].pc # "idle",
         call[c].pc # "done",
         \/ call[c].pc \in Early \/ <<"failed", c>> \in had' \/ call[c].op = "export"
  PROVE  TrailInv'
<1>1. /\ \A d \in Calls \ {c} : call'[d] = call[d]
      /\ call'[c].pc = "done" /\ call'[c].op = call[c].op
  BY DEF Done, Idle, ErrorInv, CallInv
<1>2. NotYet(c)
  BY DEF ErrorInv, CallInv
<1>3. CallTrail(c)'
  BY <1>1, <1>2 DEF CallTrail, Trailed, Fresh, Signed, Exempt, NotYet, Had, Early
<1> QED BY <1>1, <1>3, TrailQuiet DEF Running

LEMMA TrailRead ==
  ASSUME ErrorInv, ErrorInv', TrailInv, NEW c \in Calls, CheckQuestion(c) \/ ReadOld(c) \/ FindVersion(c)
  PROVE  TrailInv'
<1> DEFINE k == call[c]
<1>1. /\ k.pc \in {"checkQuestion", "readOld", "find"} /\ NotTheRows /\ UNCHANGED <<sent, audit, had>>
      /\ Knows(k) /\ NotYet(c) /\ DOMAIN call = Calls /\ CallTrail(c)
  BY DEF CheckQuestion, ReadOld, FindVersion, At, Keep, ErrorInv, CallInv, TrailInv
<1>2. CASE Done(c, "error")
  BY <1>1, <1>2, TrailEnds DEF NotTheRows, Early
<1>3. ASSUME NEW l, Moves(c, l), l.op = k.op, l.row = k.row, l.pc \in Early
      PROVE  TrailInv'
  <2>1. CallTrail(c)'
    BY <1>1, <1>3 DEF Moves, CallTrail, Trailed, Fresh, Signed, NotYet, NotTheRows, Early
  <2> QED BY <1>1, <1>3, <2>1, TrailQuiet DEF Moves, Running, NotTheRows
<1>4. k \in Locals
  BY <1>1 DEF Knows
<1>5. ASSUME NEW pc \in Early, Moves(c, [k EXCEPT !.pc = pc])
      PROVE  TrailInv'
  <2>1. PICK l : Moves(c, l) /\ l.op = k.op /\ l.row = k.row /\ l.pc = pc
    BY <1>4, <1>5 DEF Locals
  <2> QED BY <1>3, <2>1
<1>6. ASSUME NEW pc \in Early, NEW old, Moves(c, [k EXCEPT !.pc = pc, !.old = old])
      PROVE  TrailInv'
  <2> DEFINE l == [k EXCEPT !.pc = pc, !.old = old]
  <2>1. l.pc = pc /\ l.op = k.op /\ l.row = k.row
    BY <1>4 DEF Locals
  <2> HIDE DEF l
  <2>2. Moves(c, l)
    BY <1>6 DEF l
  <2> QED BY <1>3, <2>1, <2>2
<1>7. ASSUME NEW pc \in Early, NEW p, Moves(c, [k EXCEPT !.pc = pc, !.found = p])
      PROVE  TrailInv'
  <2> DEFINE l == [k EXCEPT !.pc = pc, !.found = p]
  <2>1. l.pc = pc /\ l.op = k.op /\ l.row = k.row
    BY <1>4 DEF Locals
  <2> HIDE DEF l
  <2>2. Moves(c, l)
    BY <1>7 DEF l
  <2> QED BY <1>3, <2>1, <2>2
<1>8. CASE CheckQuestion(c) /\ ~ Done(c, "error")
  <2>1. PICK pc \in {"insert", "readOld"} : call' = [call EXCEPT ![c].pc = pc]
    BY <1>8 DEF CheckQuestion, Goto
  <2> QED BY <1>1, <1>5, <2>1 DEF Moves, Early
<1>9. CASE ReadOld(c) /\ ~ Done(c, "error")
  <2>1. PICK pc \in {"write", "drop"} : \E old : call' = [call EXCEPT ![c].pc = pc, ![c].old = old]
    BY <1>9 DEF ReadOld
  <2>2. PICK old : call' = [call EXCEPT ![c].pc = pc, ![c].old = old]
    BY <2>1
  <2>3. Moves(c, [k EXCEPT !.pc = pc, !.old = old])
    BY <1>1, <2>2 DEF Moves
  <2> QED BY <1>6, <2>3 DEF Early
<1>10. CASE FindVersion(c)
  <2>1. \/ call' = [call EXCEPT ![c].pc = "make"]
        \/ \E p : call' = [call EXCEPT ![c].pc = "apply", ![c].found = p]
    BY <1>10 DEF FindVersion, Goto
  <2> QED BY <1>1, <1>5, <1>7, <2>1 DEF Moves, Early
<1> QED BY <1>2, <1>8, <1>9, <1>10

LEMMA TrailInsert ==
  ASSUME ErrorInv, ErrorInv', TrailInv, NEW c \in Calls, InsertRow(c)
  PROVE  TrailInv'
<1> DEFINE k == call[c]
           i == lastId + 1
<1>1. /\ k.pc = "insert" /\ UNCHANGED <<sent, audit, had>> /\ Knows(k) /\ NotYet(c) /\ DOMAIN call = Calls
      /\ CallTrail(c) /\ RowInv
  BY DEF InsertRow, At, Keep, ErrorInv, CallInv, TrailInv
<1>2. CASE ~ (k.row.refs \subseteq DOMAIN rows)
  <2>1. Done(c, "error") /\ NotTheRows
    BY <1>2 DEF InsertRow
  <2> QED BY <1>1, <2>1, TrailEnds DEF NotTheRows, Early
<1>3. CASE k.row.refs \subseteq DOMAIN rows
  <2>1. /\ rows' = Joined([j \in {i} |-> k.row]) /\ lastId' = i /\ wrote' = wrote \cup {<<i, c>>}
        /\ Moves(c, [k EXCEPT !.pc = "readBack", !.id = i])
    BY <1>1, <1>3 DEF InsertRow, Insert, Moves
  <2>2. RowsFollow /\ rows'[i] = k.row
    <3>1. k.row \in RowSet
      BY <1>1 DEF Knows, InsertInv
    <3>2. k.row.t = "choice" => \E q \in DOMAIN rows : k.row.refs = {q} /\ rows[q].t = "question"
      BY <1>1, <1>3 DEF Knows, InsertInv, Brings, IsQuestion
    <3> QED BY <1>1, <1>3, <2>1, <3>1, <3>2, RowAdded
  <2>3. call'[c].pc = "readBack" /\ call'[c].id = i
    <3>1. k \in Locals
      BY <1>1 DEF Knows
    <3> HIDE DEF i
    <3> QED BY <2>1, <3>1 DEF Moves, Locals
  <2>4. k.row.n = c
    BY <1>1 DEF CallTrail, Signed, Early, Knows, InsertInv
  <2>5. CallTrail(c)'
    BY <1>1, <2>1, <2>2, <2>3, <2>4 DEF CallTrail, Trailed, Fresh, Signed, NotYet, Early
  <2> QED BY <1>1, <2>1, <2>2, <2>5, TrailStep DEF Moves, Running
<1> QED BY <1>2, <1>3

\* The one change of a call is told.
LEMMA TrailedByOne ==
  ASSUME NEW c \in Calls, NEW i, NEW x \in sent', UNCHANGED wrote, had \subseteq had',
         call'[c].pc = "done",
         Tells(x, i, c)' \/ Had("beside", c), call[c].pc # "done",
         \A p \in wrote : p[2] = c => p[1] = i \/ Exempt(p[1], c)
  PROVE  Trailed(c)'
<1>1. ASSUME NEW j, Exempt(j, c)
      PROVE  Exempt(j, c)'
  BY <1>1 DEF Exempt, Had
<1>2. Had("beside", c) => \A j : Exempt(j, c)'
  BY DEF Exempt, Had
<1>3. \A p \in wrote' : p[2] = c => Exempt(p[1], c)' \/ Tells(x, p[1], c)'
  BY <1>1, <1>2
<1> QED BY <1>3 DEF Trailed

LEMMA TrailReadBack ==
  ASSUME ErrorInv, ErrorInv', TrailInv, NEW c \in Calls, ReadBack(c)
  PROVE  TrailInv'
<1> DEFINE k == call[c]
           e == IF Seen(k.id) THEN Entry(k.id, "insert", None, rows[k.id].n) ELSE Entry(None, "insert", None, None)
<1>1. /\ k.pc = "readBack" /\ NotTheRows /\ UNCHANGED audit /\ had \subseteq had' /\ CallTrail(c)
      /\ k.op = "create" /\ DOMAIN call = Calls
  BY DEF ReadBack, At, ErrorInv, CallInv, TrailInv, Knows, ReadInv
<1>2. ASSUME NEW result, Done(c, result)
      PROVE  /\ \A d \in Calls \ {c} : call'[d] = call[d]
             /\ call'[c].pc = "done" /\ call'[c].op = k.op /\ call'[c].t = k.t /\ call'[c].result = result
  BY <1>1, <1>2 DEF Done, Idle
<1>3. CASE Seen(k.id) /\ Elsewhere(k.t, k.id, k.co)
  <2>1. Done(c, "error") /\ UNCHANGED sent
    BY <1>3 DEF ReadBack
  <2>2. Excused(c, call[c])'
    BY DEF ErrorInv, ErrorMeansNoChange, Excused
  <2>3. CallTrail(c)'
    BY <1>1, <1>2, <2>1, <2>2 DEF CallTrail, Trailed, Fresh, Signed, Exempt, Excused, Had, NotTheRows, Early
  <2> QED BY <1>1, <1>2, <2>1, <2>3, TrailQuiet DEF NotTheRows, Running
<1>4. CASE ~ (Seen(k.id) /\ Elsewhere(k.t, k.id, k.co))
  <2>1. Done(c, "ok") /\ sent' = sent \cup {e}
    BY <1>4 DEF ReadBack, Send
  <2>2. CASE ~ Seen(k.id)
    <3>1. <<"unseen", c>> \in had'
      BY <2>2 DEF ReadBack
    <3>2. CallTrail(c)'
      BY <1>2, <2>1, <3>1 DEF CallTrail, Trailed, Fresh, Signed, Exempt, Had, Early
    <3> QED BY <1>1, <1>2, <2>1, <3>2, TrailQuiet DEF NotTheRows, Running
  <2>3. CASE Seen(k.id)
    <3>1. e.id = k.id /\ e.new = rows[k.id].n
      BY <2>3 DEF Entry
    <3>2. rows[k.id].n = c \/ Had("beside", c)
      BY <1>1, <2>3 DEF CallTrail, Fresh, Seen
    <3> HIDE DEF e
    <3>3. Trailed(c)'
      <4>1. PICK i, x : i = k.id /\ x = e
        OBVIOUS
      <4>2. x \in sent' /\ call'[c].op # "delete"
        BY <1>1, <1>2, <2>1, <4>1
      <4>3. Tells(x, i, c)' \/ Had("beside", c)
        BY <3>1, <3>2, <4>1, <4>2 DEF Tells
      <4>4. \A p \in wrote : p[2] = c => p[1] = i \/ Exempt(p[1], c)
        BY <1>1, <4>1 DEF CallTrail, Trailed
      <4> QED BY <1>1, <1>2, <2>1, <4>2, <4>3, <4>4, TrailedByOne DEF NotTheRows
    <3>4. CallTrail(c)'
      BY <1>2, <2>1, <3>3 DEF CallTrail, Fresh, Signed, Early
    <3> QED BY <1>1, <1>2, <2>1, <3>4, TrailQuiet DEF NotTheRows, Running
  <2> QED BY <2>2, <2>3
<1> QED BY <1>3, <1>4

LEMMA TrailWrite ==
  ASSUME ErrorInv, ErrorInv', RowsFollow, TrailInv, NEW c \in Calls, WriteRow(c) \/ DropRow(c), ~ Missed(c)
  PROVE  TrailInv'
<1> DEFINE k == call[c]
<1>1. /\ k.pc \in {"write", "drop"} /\ UNCHANGED <<sent, audit, had, lastId>> /\ Knows(k) /\ NotYet(c)
      /\ DOMAIN call = Calls
  BY DEF WriteRow, DropRow, At, Keep, ErrorInv, CallInv
<1>2. CASE Done(c, "error") /\ UNCHANGED <<rows, wrote>>
  BY <1>1, <1>2, TrailEnds DEF Early
<1>3. CASE Goto(c, "log") /\ wrote' \subseteq wrote \cup {<<k.id, c>>}
  <2>1. Moves(c, [k EXCEPT !.pc = "log"])
    BY <1>1, <1>3 DEF Goto, Moves
  <2>2. call'[c].pc = "log" /\ call'[c].id = k.id
    BY <1>1, <2>1 DEF Moves, Knows, Locals
  <2>3. CallTrail(c)'
    BY <1>1, <1>3, <2>2 DEF CallTrail, Trailed, Fresh, Signed, NotYet, Early
  <2> QED BY <1>1, <1>3, <2>1, <2>3, TrailStep DEF Moves, Running
<1>4. CASE WriteRow(c)
  <2>1. CASE k.row.refs \subseteq DOMAIN rows
    BY <1>3, <1>4, <2>1 DEF WriteRow
  <2>2. CASE ~ (k.row.refs \subseteq DOMAIN rows)
    BY <1>2, <1>4, <2>2 DEF WriteRow
  <2> QED BY <2>1, <2>2
<1>5. CASE DropRow(c)
  <2>1. CASE \E i \in DOMAIN rows : k.id \in rows[i].refs
    BY <1>2, <1>5, <2>1 DEF DropRow
  <2>2. CASE ~ \E i \in DOMAIN rows : k.id \in rows[i].refs
    BY <1>3, <1>5, <2>2 DEF DropRow
  <2> QED BY <2>1, <2>2
<1> QED BY <1>4, <1>5

LEMMA TrailMissed ==
  ASSUME ErrorInv, ErrorInv', TrailInv, NEW c \in Calls, WriteRow(c) \/ DropRow(c), Missed(c)
  PROVE  TrailInv'
<1>1. PICK l : /\ Moves(c, l) /\ l.pc = "log" /\ call[c].pc \in {"write", "drop"}
               /\ UNCHANGED Stores /\ had \subseteq had'
  BY MissedMoves
<1>2. NotYet(c)
  BY DEF ErrorInv, CallInv
<1>3. CallTrail(c)'
  BY <1>1, <1>2 DEF Moves, CallTrail, Trailed, Fresh, Signed, NotYet, Early, Stores
<1> QED BY <1>1, <1>3, TrailQuiet DEF Moves, Stores, Running

LEMMA TrailLog ==
  ASSUME ErrorInv, ErrorInv', TrailInv, NEW c \in Calls, LogChange(c)
  PROVE  TrailInv'
<1> DEFINE k == call[c]
           e == Entry(k.id, k.op, k.old, IF k.op = "update" THEN c ELSE None)
<1>1. /\ k.pc = "log" /\ NotTheRows /\ UNCHANGED <<audit, had>> /\ CallTrail(c) /\ k.op \in {"update", "delete"}
      /\ sent' = sent \cup {e} /\ DOMAIN call = Calls
  BY DEF LogChange, At, Keep, Send, ErrorInv, CallInv, Knows, TrailInv
<1>2. /\ \A d \in Calls \ {c} : call'[d] = call[d]
      /\ call'[c].pc = "done" /\ call'[c].op = k.op /\ call'[c].t = k.t
  BY <1>1 DEF LogChange, Done, Idle
<1>3. e.id = k.id /\ e.kind = k.op /\ (k.op = "update" => e.new = c)
  BY DEF Entry
<1> HIDE DEF e
<1>4. Trailed(c)'
  <2>1. PICK i, x : i = k.id /\ x = e
    OBVIOUS
  <2>2. x \in sent' /\ Tells(x, i, c)'
    BY <1>1, <1>2, <1>3, <2>1 DEF Tells
  <2>3. \A p \in wrote : p[2] = c => p[1] = i \/ Exempt(p[1], c)
    BY <1>1, <2>1 DEF CallTrail, Trailed
  <2> QED BY <1>1, <1>2, <2>2, <2>3, TrailedByOne DEF NotTheRows
<1>5. CallTrail(c)'
  BY <1>2, <1>4 DEF CallTrail, Fresh, Signed, Early
<1> QED BY <1>1, <1>2, <1>5, TrailQuiet DEF NotTheRows, Running

\* An export tells the audit log nothing.
LEMMA TrailExport ==
  ASSUME ErrorInv, ErrorInv', RowsFollow, TrailInv, NEW c \in Calls, MakePosting(c) \/ UsePosting(c)
  PROVE  TrailInv'
<1>1. /\ call[c].pc \in {"make", "apply"} /\ UNCHANGED <<sent, audit, had>> /\ \A p \in wrote' \ wrote : p[2] = c
      /\ call[c].op = "export"
  BY DEF MakePosting, UsePosting, At, Keep, Insert, NotTheRows, ErrorInv, CallInv, Knows, ExportInv
<1>2. CASE UsePosting(c) /\ Done(c, "error") /\ NotTheRows
  BY <1>1, <1>2, TrailEnds DEF NotTheRows
<1>3. CASE AfterApplication(c)
  <2>1. PICK l : Moves(c, l) /\ l.pc \in {"clear", "attach"} /\ l.op = "export"
    BY <1>1, <1>3, AfterKnows
  <2>2. CallTrail(c)'
    BY <2>1 DEF Moves, CallTrail, Trailed, Fresh, Signed, Early
  <2> QED BY <1>1, <2>1, <2>2, TrailStep DEF Moves, Running
<1> QED BY <1>2, <1>3 DEF MakePosting, UsePosting

LEMMA NextTrail ==
  ASSUME ErrorInv, ErrorInv', TrailInv, [Next]_vars
  PROVE  TrailInv'
<1>1. ASSUME UNCHANGED <<rows, wrote, call>>, had \subseteq had', sent \cup audit \subseteq sent' \cup audit'
      PROVE  TrailInv'
  BY <1>1 DEF TrailInv, Overlap, CallTrail, Trailed, Fresh, Signed, Exempt, Had, Tells, Running
<1>2. CASE UNCHANGED vars
  BY <1>1, <1>2 DEF vars
<1>3. ASSUME NEW e \in sent, LogLands(e)
      PROVE  TrailInv'
  BY <1>1, <1>3 DEF LogLands, NotTheRows
<1>4. ASSUME NEW e \in sent, LogLost(e)
      PROVE  TrailInv'
  <2>1. UNCHANGED <<rows, wrote, call, audit>> /\ had' = had \cup {<<"lost", e.id>>} /\ sent' = sent \ {e}
    BY <1>4 DEF LogLost, NotTheRows
  <2>2. ASSUME NEW c \in Calls
        PROVE  Trailed(c)'
    <3>1. ASSUME NEW p \in wrote, NEW x \in sent \cup audit, Tells(x, p[1], c)
          PROVE  Had("lost", p[1])' \/ (x \in (sent \cup audit)' /\ Tells(x, p[1], c)')
      BY <2>1, <3>1 DEF Tells, Had
    <3> QED BY <2>1, <3>1 DEF TrailInv, CallTrail, Trailed, Exempt, Had
  <2> QED BY <2>1, <2>2 DEF TrailInv, Overlap, CallTrail, Fresh, Signed, Had, Running
<1>5. ASSUME NEW c \in Calls, Fail(c)
      PROVE  TrailInv'
  BY <1>5, TrailEnds DEF Fail, Running, Stores
<1>6. ASSUME NEW c \in Calls, AddAttachment(c) \/ ClearCache(c)
      PROVE  TrailInv'
  <2>1. Knows(call[c])
    BY DEF ErrorInv, CallInv
  <2>2. call[c].op = "export" /\ call[c].pc \notin {"idle", "done"}
    BY <1>6, <2>1 DEF AddAttachment, ClearCache, At, Knows, ExportInv
  <2> QED BY <1>6, <2>2, TrailEnds DEF AddAttachment, ClearCache, NotTheRows, Keep
<1>7. ASSUME NEW c \in Calls, Step(c)
      PROVE  TrailInv'
  BY <1>6, <1>7, TrailInsert, TrailReadBack, TrailRead, TrailWrite, TrailMissed, TrailLog, TrailExport, WriteRowFollows,
     DropRowFollows, MakePostingFollows, UsePostingFollows DEF Step
<1> QED BY <1>2, <1>3, <1>4, <1>5, <1>7, TrailHandle DEF Next

\* Once everything is still, a change made through the API is in the audit trail, for any number
\* of calls and faults, with the exceptions the property names.
THEOREM ChangesAreTold == Spec => []TrailComplete
<1>1. ErrorInv /\ TrailInv => TrailComplete
  BY DEF TrailInv, CallTrail, TrailComplete, Settled, Trailed, Tells, Told, Exempt, Had, Api, Running
<1> QED BY <1>1, InitError, NextError, InitTrail, NextTrail, PTL DEF Spec

-----------------------------------------------------------------------------
(* Following the trail of a row back.                                      *)

Alone == \A c \in Calls : ~ Had("beside", c)

Before(l) == l.pc \in {"idle"} \cup Early

\* A value that a row may have: that of a call which is past its statement.
Valued(v) == v = 0 \/ (v \in Calls /\ ~ Before(call[v]))

Changes == {e \in sent \cup audit : e.kind # "insert" /\ e.old # None}

\* The entries so far: a row left the values that an entry starts from, and no two entries
\* start from the same; except where a statement missed the row.
Linked ==
  /\ \A i \in DOMAIN rows : Valued(rows[i].n)
  /\ \A e \in sent \cup audit : e.kind # "insert" => e.old # e.new \/ e.old = None
  /\ \A e \in Changes : /\ Valued(e.old) /\ e.id \in Ids
                        /\ e.id \in DOMAIN rows => rows[e.id].n # e.old \/ Had("missed", e.id)
  /\ \A e, f \in Changes : e.id = f.id /\ e.old = f.old => e = f \/ Had("missed", e.id)

\* What a call read is what the row has, until its own statement; then nobody told of it yet.
LogInv(c) ==
  /\ call[c].pc \in {"write", "drop"} /\ call[c].old # None =>
       call[c].id \in DOMAIN rows /\ rows[call[c].id].n = call[c].old
  /\ call[c].pc = "log" /\ call[c].old # None =>
       /\ call[c].id \in Ids /\ Valued(call[c].old) /\ call[c].old # c
       /\ \/ Had("missed", call[c].id)
          \/ /\ call[c].id \in DOMAIN rows => rows[call[c].id].n # call[c].old
             /\ \A e \in Changes : ~ (e.id = call[c].id /\ e.old = call[c].old)

LinkInv == Alone => Linked /\ \A c \in Calls : LogInv(c)

LEMMA InitLink == Init => LinkInv
<1> SUFFICES ASSUME Init
             PROVE  LinkInv
  OBVIOUS
<1>1. PICK o : rows = [i \in 1 .. 13 |-> Given(o)[i]]
  BY DEF Init
<1>2. \A i \in 1 .. 13 : rows[i].n = 0
  BY <1>1 DEF Given, Row
<1>3. sent \cup audit = {} /\ \A c \in Calls : call[c].pc = "idle"
  BY DEF Init, Idle
<1> QED BY <1>1, <1>2, <1>3 DEF LinkInv, Linked, Changes, LogInv, Valued

\* Only one call is under way when none is beside another.
LEMMA OneRuns ==
  ASSUME TrailInv, Alone, NEW c \in Calls, Running(c), NEW d \in Calls \ {c}
  PROVE  ~ Running(d)
BY DEF TrailInv, Overlap, Alone

LEMMA LinkStep ==
  ASSUME ErrorInv, TrailInv, LinkInv, NEW c \in Calls, Running(c), \A d \in Calls \ {c} : call'[d] = call[d],
         had \subseteq had', Alone => Linked' /\ LogInv(c)'
  PROVE  LinkInv'
<1>1. Alone' => Alone
  BY DEF Alone, Had
<1>2. ASSUME Alone, NEW d \in Calls \ {c}
      PROVE  LogInv(d)'
  <2>1. call'[d].pc \notin {"write", "drop", "log"}
    BY <1>2, OneRuns DEF Running
  <2> QED BY <2>1 DEF LogInv
<1> QED BY <1>1, <1>2 DEF LinkInv

\* A call that stays before, or gets past, its statement.
LEMMA ValuedStill ==
  ASSUME NEW c \in Calls, \A d \in Calls \ {c} : call'[d] = call[d], Before(call[c]) \/ ~ Before(call'[c]),
         NEW v, Valued(v)
  PROVE  Valued(v)' /\ (Before(call[c]) => v # c)
<1>1. c # 0
  <2>1. \A n : 0 \notin 1 .. n
    OBVIOUS
  <2> QED BY <2>1, CallsAssumption, Zenon
<1> QED BY <1>1 DEF Valued, Before

\* The rows and the entries stay.
LEMMA LinkedStill ==
  ASSUME Linked, NEW c \in Calls, \A d \in Calls \ {c} : call'[d] = call[d], Before(call[c]) \/ ~ Before(call'[c]),
         sent' \cup audit' \subseteq sent \cup audit, UNCHANGED <<rows, lastId>>, had \subseteq had'
  PROVE  Linked'
<1>1. \A v : Valued(v) => Valued(v)'
  BY ValuedStill
<1>2. Changes' \subseteq Changes
  BY DEF Changes
<1> QED BY <1>1, <1>2 DEF Linked, Ids, Had

\* A statement of c.
LEMMA LinkedWrite ==
  ASSUME Linked, RowInv, lastId' \in Nat, lastId <= lastId', NEW c \in Calls,
         \A d \in Calls \ {c} : call'[d] = call[d],
         Before(call[c]), ~ Before(call'[c]), UNCHANGED <<sent, audit, had>>,
         \A i \in DOMAIN rows' : /\ i \in Ids => i \in DOMAIN rows
                                 /\ rows'[i].n = c \/ (i \in DOMAIN rows /\ rows'[i].n = rows[i].n)
  PROVE  Linked'
<1>1. \A v : Valued(v) => Valued(v)' /\ v # c
  BY ValuedStill
<1>2. Valued(c)'
  BY DEF Valued
<1>3. Changes' = Changes /\ Ids \subseteq Ids'
  BY DEF Changes, Ids, RowInv
<1>4. ASSUME NEW i \in DOMAIN rows'
      PROVE  Valued(rows[i].n)'
  <2>1. PICK v : v = rows'[i].n
    OBVIOUS
  <2>2. v = c \/ Valued(v)
    BY <2>1 DEF Linked
  <2>3. Valued(v)'
    BY <1>1, <1>2, <2>2
  <2> QED BY <2>1, <2>3 DEF Valued
<1>5. ASSUME NEW e \in Changes
      PROVE  /\ Valued(e.old)' /\ e.id \in Ids'
             /\ e.id \in DOMAIN rows' => rows'[e.id].n # e.old \/ Had("missed", e.id)
  BY <1>1, <1>3 DEF Linked
<1> QED BY <1>3, <1>4, <1>5 DEF Linked, Had

\* A step that ends a call, or after which it still has no values read.
LEMMA LinkQuiet ==
  ASSUME ErrorInv, TrailInv, LinkInv, NEW c \in Calls, Running(c), \A d \in Calls \ {c} : call'[d] = call[d],
         had \subseteq had', UNCHANGED <<rows, lastId, sent, audit>>, Before(call[c]) \/ ~ Before(call'[c]),
         call'[c].pc \notin {"write", "drop", "log"}
  PROVE  LinkInv'
<1>1. LogInv(c)'
  BY DEF LogInv
<1>2. Linked => Linked'
  BY LinkedStill
<1> QED BY <1>1, <1>2, LinkStep DEF LinkInv

LEMMA DoneMoves ==
  ASSUME ErrorInv, NEW c \in Calls, NEW result, Done(c, result)
  PROVE  /\ \A d \in Calls \ {c} : call'[d] = call[d]
         /\ call'[c].pc = "done" /\ call'[c].op = call[c].op /\ call'[c].t = call[c].t
         /\ call'[c].result = result /\ ~ Before(call'[c])
BY DEF Done, Idle, ErrorInv, CallInv, Before, Early

LEMMA LinkDone ==
  ASSUME ErrorInv, TrailInv, LinkInv, NEW c \in Calls, Running(c), NEW result, Done(c, result),
         had \subseteq had', UNCHANGED <<rows, lastId, sent, audit>>
  PROVE  LinkInv'
BY DoneMoves, LinkQuiet

LEMMA LinkHandle ==
  ASSUME ErrorInv, TrailInv, LinkInv, NEW c \in Calls, Handle(c)
  PROVE  LinkInv'
<1>1. PICK l : Start(c, l) /\ Begun(c, l)
  BY HandleBegins DEF Begins, ErrorInv
<1>2. /\ call[c].pc = "idle" /\ Moves(c, l) /\ UNCHANGED Stores /\ had \subseteq had'
      /\ l.pc \in {"insert", "checkQuestion", "readOld", "find", "done"}
  BY <1>1 DEF ErrorInv, CallInv, Start, At, Moves, Begun
<1>3. Alone' => Alone
  BY <1>2 DEF Alone, Had
<1>4. Linked => Linked'
  BY <1>2, LinkedStill DEF Moves, Stores, Before
<1>5. ASSUME NEW d \in Calls, Linked, LogInv(d)
      PROVE  LogInv(d)'
  <2>1. CASE d = c
    BY <1>2, <2>1 DEF Moves, LogInv
  <2>2. CASE d # c
    <3>1. call'[d] = call[d]
      BY <1>2, <2>2 DEF Moves
    <3>2. Valued(call[d].old) => Valued(call[d].old)'
      BY <1>2, <3>1, ValuedStill DEF Moves, Before, Valued
    <3>3. Changes' = Changes
      BY <1>2 DEF Changes, Stores
    <3> QED BY <1>2, <1>5, <3>1, <3>2, <3>3 DEF LogInv, Stores, Ids, Had
  <2> QED BY <2>1, <2>2
<1> QED BY <1>3, <1>4, <1>5 DEF LinkInv

LEMMA LinkInsert ==
  ASSUME ErrorInv, TrailInv, LinkInv, NEW c \in Calls, InsertRow(c)
  PROVE  LinkInv'
<1> DEFINE k == call[c]
<1>1. /\ k.pc = "insert" /\ UNCHANGED <<sent, audit, had>> /\ Knows(k) /\ DOMAIN call = Calls
      /\ CallTrail(c) /\ RowInv
  BY DEF InsertRow, At, Keep, ErrorInv, CallInv, TrailInv
<1>2. CASE ~ (k.row.refs \subseteq DOMAIN rows)
  BY <1>1, <1>2, LinkDone DEF InsertRow, NotTheRows, Running
<1>3. CASE k.row.refs \subseteq DOMAIN rows
  <2>1. PICK i : i = lastId + 1
    OBVIOUS
  <2>2. /\ rows' = Joined([j \in {lastId + 1} |-> k.row]) /\ lastId' = lastId + 1
        /\ Moves(c, [k EXCEPT !.pc = "readBack", !.id = i])
    BY <1>1, <1>3, <2>1 DEF InsertRow, Insert, Moves
  <2>3. /\ RowsFollow /\ DOMAIN rows' = DOMAIN rows \cup {i} /\ rows'[i] = k.row
        /\ \A j \in DOMAIN rows : rows'[j] = rows[j]
    <3>1. k.row \in RowSet
      BY <1>1 DEF Knows, InsertInv
    <3>2. k.row.t = "choice" => \E q \in DOMAIN rows : k.row.refs = {q} /\ rows[q].t = "question"
      BY <1>1, <1>3 DEF Knows, InsertInv, Brings, IsQuestion
    <3> QED BY <1>1, <1>3, <2>1, <2>2, <3>1, <3>2, RowAdded
  <2>4. call'[c].pc = "readBack"
    BY <1>1, <2>2 DEF Moves, Knows, Locals
  <2>5. k.row.n = c
    BY <1>1 DEF CallTrail, Signed, Early, Knows, InsertInv
  <2>6. Alone => Linked'
    <3>1. lastId' \in Nat /\ lastId <= lastId'
      BY <2>3 DEF RowsFollow, RowInv
    <3>2. \A j \in DOMAIN rows' : j \in Ids => j \in DOMAIN rows
      BY <2>3 DEF RowsFollow
    <3>3. Before(k) /\ ~ Before(call'[c])
      BY <1>1, <2>4 DEF Before, Early
    <3> QED BY <1>1, <2>2, <2>3, <2>5, <3>1, <3>2, <3>3, LinkedWrite DEF LinkInv, Moves
  <2>7. LogInv(c)'
    BY <2>4 DEF LogInv
  <2> QED BY <1>1, <2>2, <2>6, <2>7, LinkStep DEF Moves, Running
<1> QED BY <1>2, <1>3

\* The creation's entry does not start from values.
LEMMA LinkReadBack ==
  ASSUME ErrorInv, TrailInv, LinkInv, NEW c \in Calls, ReadBack(c)
  PROVE  LinkInv'
<1>1. call[c].pc = "readBack" /\ NotTheRows /\ UNCHANGED audit /\ had \subseteq had'
  BY DEF ReadBack, At
<1>2. PICK result : Done(c, result)
  BY DEF ReadBack
<1>3. sent' = sent \/ \E x : x.kind = "insert" /\ sent' = sent \cup {x}
  BY DEF ReadBack, Send, Entry
<1>4. Changes' = Changes
  BY <1>1, <1>3 DEF Changes
<1>5. \A d \in Calls \ {c} : call'[d] = call[d]
  BY <1>2, DoneMoves
<1>6. call'[c].pc = "done" /\ ~ Before(call'[c])
  BY <1>2, DoneMoves
<1>7. Alone => Linked'
  <2>1. \A v : Valued(v) => Valued(v)'
    BY <1>5, <1>6, ValuedStill
  <2>2. \A e \in sent' \cup audit' : e.kind # "insert" => e \in sent \cup audit
    BY <1>1, <1>3
  <2> QED BY <1>1, <1>4, <2>1, <2>2 DEF LinkInv, Linked, Ids, NotTheRows, Had
<1>8. LogInv(c)'
  BY <1>6 DEF LogInv
<1> QED BY <1>1, <1>5, <1>7, <1>8, LinkStep DEF Running

LEMMA LinkQuestion ==
  ASSUME ErrorInv, TrailInv, LinkInv, NEW c \in Calls, CheckQuestion(c) \/ FindVersion(c)
  PROVE  LinkInv'
<1> DEFINE k == call[c]
<1>1. /\ k.pc \in {"checkQuestion", "find"} /\ NotTheRows /\ UNCHANGED <<sent, audit, had>>
      /\ k \in Locals /\ DOMAIN call = Calls
  BY DEF CheckQuestion, FindVersion, At, Keep, ErrorInv, CallInv, Knows
<1>2. CASE Done(c, "error")
  BY <1>1, <1>2, LinkDone DEF NotTheRows, Running
<1>3. CASE ~ Done(c, "error")
  <2>1. \/ \E pc \in {"insert", "readOld", "make"} : call' = [call EXCEPT ![c].pc = pc]
        \/ \E p : call' = [call EXCEPT ![c].pc = "apply", ![c].found = p]
    BY <1>3 DEF CheckQuestion, FindVersion, Goto
  <2>2. call'[c].pc \in {"insert", "readOld", "make", "apply"}
    BY <1>1, <2>1 DEF Locals
  <2>3. \A d \in Calls \ {c} : call'[d] = call[d]
    BY <1>1, <2>1
  <2> QED BY <1>1, <2>2, <2>3, LinkQuiet DEF NotTheRows, Running, Before, Early
<1> QED BY <1>2, <1>3

\* What is read is what the row has.
LEMMA LinkRead ==
  ASSUME ErrorInv, TrailInv, LinkInv, NEW c \in Calls, ReadOld(c)
  PROVE  LinkInv'
<1> DEFINE k == call[c]
           next == IF k.op = "update" THEN "write" ELSE "drop"
           seen == IF Seen(k.id) THEN rows[k.id].n ELSE None
<1>1. /\ k.pc = "readOld" /\ NotTheRows /\ UNCHANGED <<sent, audit, had>> /\ k \in Locals /\ DOMAIN call = Calls
  BY DEF ReadOld, At, Keep, ErrorInv, CallInv, Knows
<1>2. CASE Done(c, "error")
  BY <1>1, <1>2, LinkDone DEF NotTheRows, Running
<1>3. CASE ~ Done(c, "error")
  <2>1. call' = [call EXCEPT ![c].pc = next, ![c].old = seen]
    BY <1>3 DEF ReadOld
  <2>2. call'[c].pc \in {"write", "drop"} /\ call'[c].id = k.id /\ call'[c].old = seen
    <3>1. call'[c] = [k EXCEPT !.pc = next, !.old = seen]
      BY <1>1, <2>1
    <3> HIDE DEF seen
    <3> QED BY <1>1, <3>1 DEF Locals
  <2>3. \A d \in Calls \ {c} : call'[d] = call[d]
    BY <1>1, <2>1
  <2>4. LogInv(c)'
    <3>1. seen # None => k.id \in DOMAIN rows /\ rows[k.id].n = seen
      BY DEF Seen
    <3> QED BY <1>1, <2>2, <3>1 DEF LogInv, NotTheRows
  <2>5. Alone => Linked'
    BY <1>1, <2>3, LinkedStill DEF LinkInv, NotTheRows, Before, Early
  <2> QED BY <1>1, <2>3, <2>4, <2>5, LinkStep DEF Running
<1> QED BY <1>2, <1>3

\* What a call is to tell once its statement has run.
LEMMA LinkWrite ==
  ASSUME ErrorInv, ErrorInv', TrailInv, LinkInv, NEW c \in Calls, WriteRow(c) \/ DropRow(c), ~ Missed(c)
  PROVE  LinkInv'
<1> DEFINE k == call[c]
<1>1. /\ k.pc \in {"write", "drop"} /\ UNCHANGED <<sent, audit, had, lastId>> /\ k \in Locals
      /\ DOMAIN call = Calls /\ RowInv /\ OldInv(k) /\ lastId \in Nat
  BY DEF WriteRow, DropRow, At, Keep, ErrorInv, CallInv, Knows, WriteInv, DropInv, RowInv
<1>2. CASE Done(c, "error") /\ UNCHANGED <<rows, wrote>>
  BY <1>1, <1>2, LinkDone DEF Running
<1>3. ASSUME Goto(c, "log"), RowsFollow,
             \A i \in DOMAIN rows' : rows'[i].n = rows[i].n \/ rows'[i].n = c,
             k.id \in DOMAIN rows' => rows'[k.id].n = c
      PROVE  LinkInv'
  <2>1. Moves(c, [k EXCEPT !.pc = "log"])
    BY <1>1, <1>3 DEF Goto, Moves
  <2>2. call'[c].pc = "log" /\ call'[c].id = k.id /\ call'[c].old = k.old
    BY <1>1, <2>1 DEF Moves, Locals
  <2>3. \A d \in Calls \ {c} : call'[d] = call[d]
    BY <2>1 DEF Moves
  <2>4. Before(k) /\ ~ Before(call'[c])
    BY <1>1, <2>2 DEF Before, Early
  <2>5. \A i \in DOMAIN rows' : i \in Ids => i \in DOMAIN rows
    BY <1>3 DEF RowsFollow
  <2>6. DOMAIN rows' \subseteq Ids
    BY <1>1, <1>3 DEF RowsFollow, RowInv, Ids
  <2>7. Alone => Linked'
    BY <1>1, <1>3, <2>3, <2>4, <2>5, <2>6, LinkedWrite DEF LinkInv
  <2>8. ASSUME Alone, k.old # None
        PROVE  /\ k.id \in Ids /\ Valued(k.old)' /\ k.old # c
               /\ \/ Had("missed", k.id)
                  \/ /\ k.id \in DOMAIN rows' => rows'[k.id].n # k.old
                     /\ \A e \in Changes : ~ (e.id = k.id /\ e.old = k.old)
    <3>1. k.id \in DOMAIN rows /\ rows[k.id].n = k.old /\ Linked
      BY <1>1, <2>8 DEF LinkInv, LogInv
    <3>2. PICK v : v = k.old /\ Valued(v)
      BY <3>1 DEF Linked
    <3>3. Valued(v)' /\ v # c
      BY <2>3, <2>4, <3>2, ValuedStill
    <3>4. Valued(k.old)'
      <4>1. call'[c].old = v
        BY <2>2, <3>2
      <4> QED BY <3>3, <4>1 DEF Valued
    <3>5. k.id \in Ids
      BY <1>1, <3>1 DEF RowInv
    <3> QED BY <1>3, <3>1, <3>2, <3>3, <3>4, <3>5 DEF Linked
  <2>9. Alone => LogInv(c)'
    <3>1. Changes' = Changes /\ Ids' = Ids
      BY <1>1 DEF Changes, Ids
    <3> QED BY <1>1, <2>2, <2>8, <3>1 DEF LogInv, Valued, Had
  <2> QED BY <1>1, <2>3, <2>7, <2>9, LinkStep DEF Running
<1>4. CASE WriteRow(c)
  <2>1. CASE ~ (k.row.refs \subseteq DOMAIN rows)
    BY <1>2, <1>4, <2>1 DEF WriteRow
  <2>2. CASE k.row.refs \subseteq DOMAIN rows
    <3>1. Goto(c, "log") /\ RowsFollow
      BY <1>4, <2>2, WriteRowFollows DEF WriteRow
    <3>2. CASE k.id \in DOMAIN rows
      <4>1. rows' = Written(k.id, k.row, c)
        BY <1>4, <2>2, <3>2 DEF WriteRow
      <4>2. WriteInv(k) /\ k.row \in RowSet /\ NamesIts(k) /\ NamesOurs(k) /\ Brings(k)
        BY <1>4 DEF WriteRow, At, ErrorInv, CallInv, Knows, WriteInv, OldInv
      <4>3. /\ DOMAIN rows' = DOMAIN rows /\ \A j \in DOMAIN rows : j # k.id => rows'[j] = rows[j]
            /\ rows'[k.id].n = c
        BY <1>1, <2>2, <3>2, <4>1, <4>2, WriteFollows
      <4> QED BY <1>3, <3>1, <4>3
    <3>3. CASE k.id \notin DOMAIN rows
      <4>1. UNCHANGED rows
        BY <1>4, <2>2, <3>3 DEF WriteRow
      <4> QED BY <1>3, <3>1, <3>3, <4>1
    <3> QED BY <3>2, <3>3
  <2> QED BY <2>1, <2>2
<1>5. CASE DropRow(c)
  <2>1. CASE \E i \in DOMAIN rows : k.id \in rows[i].refs
    BY <1>2, <1>5, <2>1 DEF DropRow
  <2>2. CASE ~ \E i \in DOMAIN rows : k.id \in rows[i].refs
    <3>1. Goto(c, "log") /\ RowsFollow /\ rows' = Restrict(rows, DOMAIN rows \ {k.id})
      BY <1>5, <2>2, DropRowFollows DEF DropRow
    <3>2. DOMAIN rows' = DOMAIN rows \ {k.id} /\ \A j \in DOMAIN rows' : rows'[j] = rows[j]
      BY <3>1 DEF Restrict
    <3> QED BY <1>3, <3>1, <3>2
  <2> QED BY <2>1, <2>2
<1> QED BY <1>4, <1>5

LEMMA LinkMissed ==
  ASSUME ErrorInv, TrailInv, LinkInv, NEW c \in Calls, WriteRow(c) \/ DropRow(c), Missed(c)
  PROVE  LinkInv'
<1>1. PICK l : /\ Moves(c, l) /\ l.pc = "log" /\ l.id = call[c].id /\ l.old = call[c].old
               /\ call[c].pc \in {"write", "drop"}
               /\ UNCHANGED Stores /\ had' = had \cup {<<"missed", call[c].id>>}
  BY MissedMoves
<1>2. \A d \in Calls \ {c} : call'[d] = call[d]
  BY <1>1 DEF Moves
<1>3. Before(call[c]) /\ ~ Before(call'[c]) /\ RowInv
  BY <1>1 DEF Moves, Before, Early, ErrorInv
<1>4. Linked => Linked'
  BY <1>1, <1>2, <1>3, LinkedStill DEF Stores
<1>5. ASSUME Alone
      PROVE  LogInv(c)'
  <2> SUFFICES ASSUME call[c].old # None
               PROVE  call[c].id \in Ids /\ Valued(call[c].old)' /\ call[c].old # c
    BY <1>1 DEF Moves, LogInv, Had, Stores, Ids, Valued
  <2>1. /\ call[c].id \in DOMAIN rows /\ rows[call[c].id].n = call[c].old
        /\ \A i \in DOMAIN rows : Valued(rows[i].n)
    BY <1>1, <1>5 DEF LinkInv, LogInv, Linked
  <2>2. PICK v : v = call[c].old /\ Valued(v)
    BY <2>1
  <2>3. Valued(v)' /\ v # c
    BY <1>2, <1>3, <2>2, ValuedStill
  <2>4. call'[c].old = v
    BY <1>1, <2>2 DEF Moves
  <2> QED BY <1>1, <1>3, <2>1, <2>2, <2>3, <2>4 DEF RowInv, Moves, Valued
<1> QED BY <1>1, <1>2, <1>4, <1>5, LinkStep DEF LinkInv, Running

LEMMA LinkLog ==
  ASSUME ErrorInv, TrailInv, LinkInv, NEW c \in Calls, LogChange(c)
  PROVE  LinkInv'
<1>1. /\ call[c].pc = "log" /\ NotTheRows /\ UNCHANGED <<audit, had>> /\ call[c].op \in {"update", "delete"}
      /\ Done(c, "ok")
  BY DEF LogChange, At, Keep, ErrorInv, CallInv, Knows
<1>2. PICK i, old, x : /\ i = call[c].id /\ old = call[c].old /\ sent' = sent \cup {x} /\ x.id = i /\ x.old = old
                       /\ x.kind = call[c].op /\ x.new = IF call[c].op = "update" THEN c ELSE None
  <2>1. PICK x : x = Entry(call[c].id, call[c].op, call[c].old, IF call[c].op = "update" THEN c ELSE None)
    OBVIOUS
  <2>2. sent' = sent \cup {x}
    BY <2>1 DEF LogChange, Send
  <2>3. /\ x.id = call[c].id /\ x.old = call[c].old
        /\ x.kind = call[c].op /\ x.new = IF call[c].op = "update" THEN c ELSE None
    BY <2>1 DEF Entry
  <2> QED BY <2>2, <2>3
<1>3. \A d \in Calls \ {c} : call'[d] = call[d]
  BY <1>1, DoneMoves
<1>4. call'[c].pc = "done" /\ ~ Before(call'[c])
  BY <1>1, DoneMoves
<1>5. Alone => Linked'
  <2> SUFFICES ASSUME Alone
               PROVE  Linked'
    OBVIOUS
  <2>1. Linked /\ LogInv(c)
    BY DEF LinkInv
  <2>2. \A v : Valued(v) => Valued(v)'
    BY <1>3, <1>4, ValuedStill
  <2>3. Changes' = IF old = None THEN Changes ELSE Changes \cup {x}
    BY <1>1, <1>2 DEF Changes
  <2>4. old # None => /\ i \in Ids /\ Valued(old) /\ old # c
                      /\ \/ Had("missed", i)
                         \/ /\ i \in DOMAIN rows => rows[i].n # old
                            /\ \A e \in Changes : ~ (e.id = i /\ e.old = old)
    BY <1>1, <1>2, <2>1 DEF LogInv
  <2>5. x.old # x.new \/ x.old = None
    BY <1>1, <1>2, <2>4
  <2>6. \A e \in sent' \cup audit' : e.kind # "insert" => e.old # e.new \/ e.old = None
    BY <1>1, <1>2, <2>1, <2>5 DEF Linked
  <2>7. \A e \in Changes' : /\ Valued(e.old) /\ e.id \in Ids
                            /\ e.id \in DOMAIN rows => rows[e.id].n # e.old \/ Had("missed", e.id)
    BY <1>2, <2>1, <2>3, <2>4 DEF Linked
  <2>8. \A e, f \in Changes' : e.id = f.id /\ e.old = f.old => e = f \/ Had("missed", e.id)
    BY <1>2, <2>1, <2>3, <2>4 DEF Linked
  <2> QED BY <1>1, <2>1, <2>2, <2>6, <2>7, <2>8 DEF Linked, Ids, NotTheRows, Had
<1>6. LogInv(c)'
  BY <1>4 DEF LogInv
<1> QED BY <1>1, <1>3, <1>5, <1>6, LinkStep DEF Running

LEMMA LinkExport ==
  ASSUME ErrorInv, ErrorInv', TrailInv, LinkInv, NEW c \in Calls, MakePosting(c) \/ UsePosting(c)
  PROVE  LinkInv'
<1> DEFINE k == call[c]
<1>1. /\ k.pc \in {"make", "apply"} /\ UNCHANGED <<sent, audit, had>> /\ k.row \in RowSet /\ k.row.n = c /\ RowInv
      /\ Before(k)
  BY DEF MakePosting, UsePosting, At, Keep, ErrorInv, CallInv, Knows, TrailInv, CallTrail, Signed, Early, ExportInv,
         Before
<1>2. CASE Done(c, "error") /\ NotTheRows
  BY <1>1, <1>2, LinkDone DEF NotTheRows, Running
<1>3. ASSUME AfterApplication(c), RowsFollow,
             \A i \in DOMAIN rows' : rows'[i].n = c \/ (i \in DOMAIN rows /\ rows'[i].n = rows[i].n)
      PROVE  LinkInv'
  <2>1. PICK l : Moves(c, l) /\ l.pc \in {"clear", "attach"}
    BY <1>1, <1>3, AfterKnows
  <2>2. /\ call'[c].pc \in {"clear", "attach"} /\ ~ Before(call'[c])
        /\ \A d \in Calls \ {c} : call'[d] = call[d]
    BY <2>1 DEF Moves, Before, Early
  <2>3. /\ lastId' \in Nat /\ lastId <= lastId'
        /\ \A i \in DOMAIN rows' : i \in Ids => i \in DOMAIN rows
    BY <1>3 DEF RowsFollow, RowInv
  <2>4. Alone => Linked'
    BY <1>1, <1>3, <2>2, <2>3, LinkedWrite DEF LinkInv
  <2>5. LogInv(c)'
    BY <2>2 DEF LogInv
  <2> QED BY <1>1, <2>2, <2>4, <2>5, LinkStep DEF Running
<1>4. CASE MakePosting(c)
  <2>1. PICK v : v = lastId + 1
    OBVIOUS
  <2>2. PICK r \in RowSet : r = k.row /\ r.n = c
    BY <1>1
  <2>3. /\ DOMAIN rows' = DOMAIN rows \cup {v, v + 1, v + 2} /\ \A i \in DOMAIN rows : rows'[i] = rows[i]
        /\ rows'[v] = Row("version", k.co, {}, r.opening, c, c)
        /\ rows'[v + 1] = Row("posting", k.co, {v}, r.opening, c, c)
        /\ rows'[v + 2] = [r EXCEPT !.refs = {v + 1}]
    BY <1>4, <2>1, <2>2, MadeRows
  <2>4. rows'[v].n = c /\ rows'[v + 1].n = c /\ rows'[v + 2].n = c
    BY <2>2, <2>3 DEF Row, RowSet
  <2>5. AfterApplication(c) /\ RowsFollow
    BY <1>4, MakePostingFollows DEF MakePosting
  <2> QED BY <1>3, <2>3, <2>4, <2>5
<1>5. CASE UsePosting(c)
  <2>1. CASE k.found \subseteq DOMAIN rows
    <3>1. PICK i : i = lastId + 1
      OBVIOUS
    <3>2. PICK r \in RowSet : r = k.row /\ r.n = c
      BY <1>1
    <3>3. /\ DOMAIN rows' = DOMAIN rows \cup {i} /\ \A j \in DOMAIN rows : rows'[j] = rows[j]
          /\ rows'[i] = [r EXCEPT !.refs = k.found] /\ RowsFollow
      BY <1>5, <2>1, <3>1, <3>2, UsedRows
    <3>4. rows'[i].n = c
      BY <3>2, <3>3 DEF RowSet
    <3>5. AfterApplication(c)
      BY <1>5, <2>1 DEF UsePosting
    <3> QED BY <1>3, <3>3, <3>4, <3>5
  <2>2. CASE ~ (k.found \subseteq DOMAIN rows)
    BY <1>2, <1>5, <2>2 DEF UsePosting
  <2> QED BY <2>1, <2>2
<1> QED BY <1>4, <1>5

LEMMA LinkEntry ==
  ASSUME LinkInv, UNCHANGED <<rows, lastId, call>>, had \subseteq had', sent' \cup audit' \subseteq sent \cup audit
  PROVE  LinkInv'
<1>1. Alone' => Alone
  BY DEF Alone, Had
<1>2. Changes' \subseteq Changes
  BY DEF Changes
<1>3. Linked => Linked'
  BY <1>2 DEF Linked, Ids, Valued, Had
<1>4. ASSUME NEW c \in Calls, LogInv(c)
      PROVE  LogInv(c)'
  BY <1>2, <1>4 DEF LogInv, Ids, Valued, Had
<1> QED BY <1>1, <1>3, <1>4 DEF LinkInv

LEMMA NextLink ==
  ASSUME ErrorInv, ErrorInv', TrailInv, LinkInv, [Next]_vars
  PROVE  LinkInv'
<1>1. CASE UNCHANGED vars
  BY <1>1, LinkEntry DEF vars
<1>2. ASSUME NEW e \in sent, LogLands(e) \/ LogLost(e)
      PROVE  LinkInv'
  BY <1>2, LinkEntry DEF LogLands, LogLost, NotTheRows
<1>3. ASSUME NEW c \in Calls, Fail(c) \/ AddAttachment(c) \/ ClearCache(c)
      PROVE  LinkInv'
  BY <1>3, LinkDone DEF Fail, AddAttachment, ClearCache, NotTheRows, Keep, Stores, At, Running
<1>4. ASSUME NEW c \in Calls, Step(c)
      PROVE  LinkInv'
  BY <1>3, <1>4, LinkInsert, LinkReadBack, LinkQuestion, LinkRead, LinkWrite, LinkMissed, LinkLog, LinkExport DEF Step
<1> QED BY <1>1, <1>2, <1>3, <1>4, LinkHandle DEF Next

\* As long as no calls were under way at a time, the trail of a row can be followed back, whatever
\* was lost and whatever failed; except for two entries of a row one of whose statements missed.
THEOREM TrailIsLinked == Spec => []TrailLinks
<1>1. LinkInv => TrailLinks
  BY DEF LinkInv, TrailLinks, Linked, Changes, Alone
<1> QED BY <1>1, InitError, NextError, InitTrail, NextTrail, InitLink, NextLink, PTL DEF Spec

-----------------------------------------------------------------------------
(* One posting for an opening.                                             *)

ExportAlone == \A c \in Calls : ~ (Had("beside", c) /\ call[c].op = "export")

\* The tables an export writes.
Exported == {"version", "posting", "application"}

Alike(i, j) == rows[i].co = rows[j].co /\ rows[i].opening = rows[j].opening

\* An opening of a company has at most one version and one posting, and both or none; an
\* exported application is for the posting of its opening.
OnePosting ==
  /\ \A i, j \in Of("version") : Alike(i, j) => i = j
  /\ \A i, j \in Of("posting") : Alike(i, j) => i = j
  /\ \A i \in Of("version") : \E j \in Of("posting") : Alike(i, j)
  /\ \A i \in Of("posting") : \E j \in Of("version") : Alike(i, j)
  /\ \A a \in Of("application") : rows[a].by # 0 =>
       \E p \in Of("posting") : rows[a].refs = {p} /\ Alike(a, p)

\* What an export found is so.
Found(c) ==
  /\ call[c].pc = "make" => Matching("version", call[c].co, call[c].row.opening) = {}
  /\ call[c].pc = "apply" =>
       \E p \in Matching("posting", call[c].co, call[c].row.opening) : call[c].found = {p}

PostInv == ExportAlone /\ ~ Meddled => OnePosting /\ \A c \in Calls : Found(c)

LEMMA InitPost == Init => PostInv
<1> SUFFICES ASSUME Init
             PROVE  OnePosting /\ \A c \in Calls : Found(c)
  BY DEF PostInv
<1>1. PICK o \in {None, Opening} : rows = [i \in 1 .. 13 |-> Given(o)[i]]
  BY DEF Init
<1>2. DOMAIN rows = 1 .. 13
  BY <1>1
<1>3. ASSUME NEW i \in 1 .. 13
      PROVE  /\ rows[i].t = "version" <=> i = 4
             /\ rows[i].t = "posting" <=> i = 6
             /\ rows[i].by = 0 \/ rows[i].t # "application"
  BY <1>1 DEF Given, Row
<1>4. Of("version") = {4} /\ Of("posting") = {6} /\ \A a \in Of("application") : rows[a].by = 0
  BY <1>2, <1>3 DEF Of
<1>5. rows[4].co = rows[6].co /\ rows[4].opening = rows[6].opening
  BY <1>1 DEF Given, Row
<1>6. \A c \in Calls : call[c].pc = "idle"
  BY DEF Init, Idle
<1> QED BY <1>4, <1>5, <1>6 DEF OnePosting, Alike, Found

\* What went wrong stays, and a change by the API too.
LEMMA TroubleStays ==
  ASSUME ErrorInv, had \subseteq had', wrote \subseteq wrote', NEW c \in Calls, \A d \in Calls \ {c} : call'[d] = call[d],
         call[c].pc # "idle" => call'[c].op = call[c].op /\ call'[c].t = call[c].t,
         ExportAlone' /\ ~ Meddled'
  PROVE  ExportAlone /\ ~ Meddled
<1>1. ASSUME NEW d \in Calls, Had("beside", d), call[d].op = "export"
      PROVE  FALSE
  <2>1. call[d].pc # "idle"
    BY <1>1, NoneAssumption DEF ErrorInv, CallInv, Knows, Ops
  <2> QED BY <1>1, <2>1 DEF ExportAlone, Had
<1>2. ASSUME NEW p \in wrote, p[2] \in Api, call[p[2]].t \in Exported
      PROVE  FALSE
  <2>1. p[2] \in Calls
    BY <1>2 DEF Api
  <2>2. call[p[2]].pc # "idle"
    BY <2>1 DEF ErrorInv, CallInv, NotYet
  <2>3. call'[p[2]].op = call[p[2]].op /\ call'[p[2]].t = call[p[2]].t
    BY <2>1, <2>2
  <2> QED BY <1>2, <2>1, <2>3 DEF Meddled, Api, Exported
<1> QED BY <1>1, <1>2 DEF ExportAlone, Meddled, Exported

LEMMA PostStep ==
  ASSUME ErrorInv, TrailInv, PostInv, NEW c \in Calls, Running(c), \A d \in Calls \ {c} : call'[d] = call[d],
         call'[c].op = call[c].op, call'[c].t = call[c].t, had \subseteq had', wrote \subseteq wrote',
         ExportAlone /\ ~ Meddled /\ ~ Meddled' => OnePosting' /\ Found(c)'
  PROVE  PostInv'
<1> SUFFICES ASSUME ExportAlone' /\ ~ Meddled'
             PROVE  OnePosting' /\ \A d \in Calls : Found(d)'
  BY DEF PostInv
<1>1. ExportAlone /\ ~ Meddled
  BY TroubleStays
<1>2. ASSUME NEW d \in Calls \ {c}
      PROVE  Found(d)'
  <2>1. call[d].pc \in {"make", "apply"} => Running(d) /\ call[d].op = "export"
    BY DEF ErrorInv, CallInv, Knows, ExportInv, Running
  <2>2. Running(d) => Had("beside", d)
    BY DEF TrailInv, Overlap
  <2>3. call'[d].pc \notin {"make", "apply"}
    BY <1>1, <2>1, <2>2 DEF ExportAlone
  <2> QED BY <2>3 DEF Found
<1> QED BY <1>1, <1>2

\* The tables of the export are as they were.
Untouched ==
  \A i : \/ i \in DOMAIN rows /\ rows[i].t \in Exported
         \/ i \in DOMAIN rows' /\ rows'[i].t \in Exported
    => i \in DOMAIN rows /\ i \in DOMAIN rows' /\ rows'[i] = rows[i]

LEMMA PostingStill ==
  ASSUME OnePosting, Untouched
  PROVE  OnePosting'
<1>1. ASSUME NEW t \in Exported
      PROVE  Of(t)' = Of(t) /\ \A i \in Of(t) : rows'[i] = rows[i]
  BY DEF Untouched, Of
<1>2. /\ Of("version")' = Of("version") /\ Of("posting")' = Of("posting") /\ Of("application")' = Of("application")
      /\ \A i \in Of("version") \cup Of("posting") \cup Of("application") : rows'[i] = rows[i]
  BY <1>1 DEF Exported
<1> QED BY <1>2 DEF OnePosting, Alike

LEMMA PostElsewhere ==
  ASSUME ErrorInv, TrailInv, PostInv, NEW c \in Calls, Running(c), \A d \in Calls \ {c} : call'[d] = call[d],
         call'[c].op = call[c].op, call'[c].t = call[c].t, had \subseteq had', wrote \subseteq wrote',
         ~ Meddled' => Untouched, call'[c].pc \notin {"make", "apply"}
  PROVE  PostInv'
<1>1. Found(c)'
  BY DEF Found
<1> QED BY <1>1, PostStep, PostingStill DEF PostInv

LEMMA PostDone ==
  ASSUME ErrorInv, TrailInv, PostInv, NEW c \in Calls, Running(c), NEW result, Done(c, result),
         had \subseteq had', UNCHANGED <<rows, wrote>>
  PROVE  PostInv'
BY DoneMoves, PostElsewhere DEF Untouched

\* A call of the API that wrote one of the three tables.
LEMMA Meddles ==
  ASSUME NEW c \in Calls, NEW i, <<i, c>> \in wrote', call'[c].op \in {"create", "update", "delete"},
         call'[c].t \in Exported
  PROVE  Meddled'
<1>1. PICK p \in wrote' : p = <<i, c>>
  OBVIOUS
<1> QED BY <1>1 DEF Meddled, Api, Exported

LEMMA PostHandle ==
  ASSUME ErrorInv, ErrorInv', TrailInv, PostInv, NEW c \in Calls, Handle(c)
  PROVE  PostInv'
<1> DEFINE beside == {d \in Calls : Running(d)}
<1>1. PICK l : Start(c, l) /\ Begun(c, l)
  BY HandleBegins DEF Begins, ErrorInv
<1>2. /\ call[c].pc = "idle" /\ Moves(c, l) /\ UNCHANGED <<rows, wrote>>
      /\ had' = had \cup {<<"beside", d>> : d \in IF beside = {} THEN {} ELSE beside \cup {c}}
      /\ l.pc \in {"insert", "checkQuestion", "readOld", "find", "done"}
  BY <1>1 DEF ErrorInv, CallInv, Start, At, Moves, Begun, Stores
<1>3. /\ \A d \in Calls \ {c} : call'[d] = call[d]
      /\ call'[c].pc \notin {"make", "apply"} /\ had \subseteq had'
  BY <1>2 DEF Moves
<1> SUFFICES ASSUME ExportAlone' /\ ~ Meddled'
             PROVE  OnePosting' /\ \A d \in Calls : Found(d)'
  BY DEF PostInv
<1>4. ExportAlone /\ ~ Meddled
  BY <1>2, <1>3, TroubleStays
<1>5. OnePosting'
  BY <1>2, <1>4, PostingStill DEF PostInv, Untouched
<1>6. ASSUME NEW d \in Calls, call'[d].pc \in {"make", "apply"}
      PROVE  FALSE
  <2>1. d # c /\ call'[d] = call[d]
    BY <1>3, <1>6
  <2>2. Running(d) /\ call'[d].op = "export"
    BY <1>6, <2>1 DEF ErrorInv, CallInv, Knows, ExportInv, Running
  <2>3. d \in IF beside = {} THEN {} ELSE beside \cup {c}
    BY <2>2
  <2>4. <<"beside", d>> \in had'
    BY <1>2, <2>3
  <2> QED BY <2>2, <2>4 DEF ExportAlone, Had
<1> QED BY <1>5, <1>6 DEF Found

LEMMA PostInsert ==
  ASSUME ErrorInv, ErrorInv', TrailInv, PostInv, NEW c \in Calls, InsertRow(c)
  PROVE  PostInv'
<1> DEFINE k == call[c]
<1>1. /\ k.pc = "insert" /\ UNCHANGED had /\ Knows(k) /\ DOMAIN call = Calls /\ RowInv
  BY DEF InsertRow, At, Keep, ErrorInv, CallInv
<1>2. CASE ~ (k.row.refs \subseteq DOMAIN rows)
  BY <1>1, <1>2, PostDone DEF InsertRow, NotTheRows, Running
<1>3. CASE k.row.refs \subseteq DOMAIN rows
  <2>1. PICK i : i = lastId + 1
    OBVIOUS
  <2>2. /\ rows' = Joined([j \in {lastId + 1} |-> k.row]) /\ lastId' = lastId + 1 /\ wrote' = wrote \cup {<<i, c>>}
        /\ Moves(c, [k EXCEPT !.pc = "readBack", !.id = i])
    BY <1>1, <1>3, <2>1 DEF InsertRow, Insert, Moves
  <2>3. k.row \in RowSet /\ k.row.t = k.t /\ k.op = "create"
    BY <1>1 DEF Knows, InsertInv
  <2>4. /\ DOMAIN rows' = DOMAIN rows \cup {i} /\ rows'[i] = k.row
        /\ \A j \in DOMAIN rows : rows'[j] = rows[j]
    <3>1. k.row.t = "choice" => \E q \in DOMAIN rows : k.row.refs = {q} /\ rows[q].t = "question"
      BY <1>1, <1>3 DEF Knows, InsertInv, Brings, IsQuestion
    <3> QED BY <1>1, <1>3, <2>1, <2>2, <2>3, <3>1, RowAdded
  <2>5. call'[c].pc = "readBack" /\ call'[c].op = k.op /\ call'[c].t = k.t
    BY <1>1, <2>2 DEF Moves, Knows, Locals
  <2>6. i \notin DOMAIN rows
    BY <1>1, <2>1 DEF RowInv, Ids
  <2>7. ~ Meddled' => Untouched
    BY <2>2, <2>3, <2>4, <2>5, <2>6, Meddles DEF Untouched
  <2> QED BY <1>1, <2>2, <2>5, <2>7, PostElsewhere DEF Moves, Running
<1> QED BY <1>2, <1>3

LEMMA PostWrite ==
  ASSUME ErrorInv, ErrorInv', TrailInv, PostInv, NEW c \in Calls, WriteRow(c) \/ DropRow(c), ~ Missed(c)
  PROVE  PostInv'
<1> DEFINE k == call[c]
<1>1. /\ k.pc \in {"write", "drop"} /\ UNCHANGED had /\ k \in Locals /\ DOMAIN call = Calls
      /\ RowInv /\ OldInv(k)
  BY DEF WriteRow, DropRow, At, Keep, ErrorInv, CallInv, Knows, WriteInv, DropInv
<1>2. CASE Done(c, "error") /\ UNCHANGED <<rows, wrote>>
  BY <1>1, <1>2, PostDone DEF Running
<1>3. ASSUME Goto(c, "log"),
             \/ UNCHANGED wrote /\ DOMAIN rows' = DOMAIN rows /\ \A i \in DOMAIN rows : rows'[i] = rows[i]
             \/ /\ k.id \in DOMAIN rows /\ wrote' = wrote \cup {<<k.id, c>>}
                /\ \A i : i # k.id => /\ i \in DOMAIN rows <=> i \in DOMAIN rows'
                                      /\ i \in DOMAIN rows => rows'[i] = rows[i]
                /\ k.id \in DOMAIN rows' => rows'[k.id].t = rows[k.id].t
      PROVE  PostInv'
  <2>1. Moves(c, [k EXCEPT !.pc = "log"])
    BY <1>1, <1>3 DEF Goto, Moves
  <2>2. call'[c].pc = "log" /\ call'[c].op = k.op /\ call'[c].t = k.t
    BY <1>1, <2>1 DEF Moves, Locals
  <2>3. k.op \in {"update", "delete"} /\ (k.id \in DOMAIN rows => rows[k.id].t = k.t)
    BY <1>1 DEF OldInv, NamesIts
  <2>4. ~ Meddled' => Untouched
    <3>1. CASE DOMAIN rows' = DOMAIN rows /\ \A i \in DOMAIN rows : rows'[i] = rows[i]
      BY <3>1 DEF Untouched
    <3>2. CASE ~ (DOMAIN rows' = DOMAIN rows /\ \A i \in DOMAIN rows : rows'[i] = rows[i])
      <4>1. <<k.id, c>> \in wrote' /\ rows[k.id].t = k.t
        BY <1>3, <2>3, <3>2
      <4>2. CASE k.t \in Exported
        BY <2>2, <2>3, <4>1, <4>2, Meddles
      <4>3. CASE k.t \notin Exported
        BY <1>3, <3>2, <4>1, <4>3 DEF Untouched
      <4> QED BY <4>2, <4>3
    <3> QED BY <3>1, <3>2
  <2> QED BY <1>1, <1>3, <2>1, <2>2, <2>4, PostElsewhere DEF Moves, Running
<1>4. CASE WriteRow(c)
  <2>1. CASE ~ (k.row.refs \subseteq DOMAIN rows)
    BY <1>2, <1>4, <2>1 DEF WriteRow
  <2>2. CASE k.row.refs \subseteq DOMAIN rows /\ k.id \in DOMAIN rows
    <3>1. rows' = Written(k.id, k.row, c) /\ Goto(c, "log") /\ wrote' = wrote \cup {<<k.id, c>>} /\ UNCHANGED lastId
      BY <1>4, <2>2 DEF WriteRow
    <3>2. k.row \in RowSet /\ NamesIts(k) /\ NamesOurs(k) /\ Brings(k)
      BY <1>4 DEF WriteRow, At, ErrorInv, CallInv, Knows, WriteInv, OldInv
    <3>3. /\ DOMAIN rows' = DOMAIN rows /\ \A j \in DOMAIN rows : j # k.id => rows'[j] = rows[j]
          /\ rows'[k.id].t = rows[k.id].t
      BY <1>1, <2>2, <3>1, <3>2, WriteFollows
    <3> QED BY <1>3, <2>2, <3>1, <3>3
  <2>3. CASE k.row.refs \subseteq DOMAIN rows /\ k.id \notin DOMAIN rows
    BY <1>3, <1>4, <2>3 DEF WriteRow
  <2> QED BY <2>1, <2>2, <2>3
<1>5. CASE DropRow(c)
  <2>1. CASE \E i \in DOMAIN rows : k.id \in rows[i].refs
    BY <1>2, <1>5, <2>1 DEF DropRow
  <2>2. CASE ~ \E i \in DOMAIN rows : k.id \in rows[i].refs
    <3>1. /\ Goto(c, "log") /\ rows' = Restrict(rows, DOMAIN rows \ {k.id})
          /\ wrote' = IF k.id \in DOMAIN rows THEN wrote \cup {<<k.id, c>>} ELSE wrote
      BY <1>5, <2>2 DEF DropRow
    <3>2. DOMAIN rows' = DOMAIN rows \ {k.id} /\ \A j \in DOMAIN rows' : rows'[j] = rows[j]
      BY <3>1 DEF Restrict
    <3>3. CASE k.id \in DOMAIN rows
      BY <1>3, <3>1, <3>2, <3>3
    <3>4. CASE k.id \notin DOMAIN rows
      BY <1>3, <3>1, <3>2, <3>4
    <3> QED BY <3>3, <3>4
  <2> QED BY <2>1, <2>2
<1> QED BY <1>4, <1>5

LEMMA PostMissed ==
  ASSUME ErrorInv, TrailInv, PostInv, NEW c \in Calls, WriteRow(c) \/ DropRow(c), Missed(c)
  PROVE  PostInv'
<1>1. PICK l : /\ Moves(c, l) /\ l.pc = "log" /\ l.op = call[c].op /\ l.t = call[c].t
               /\ call[c].pc \in {"write", "drop"} /\ UNCHANGED Stores /\ had \subseteq had'
  BY MissedMoves
<1> QED BY <1>1, PostElsewhere DEF Moves, Stores, Running, Untouched

LEMMA PostFind ==
  ASSUME ErrorInv, TrailInv, PostInv, NEW c \in Calls, FindVersion(c)
  PROVE  PostInv'
<1> DEFINE k == call[c]
           versions == Matching("version", k.co, k.row.opening)
           posted == Matching("posting", k.co, k.row.opening)
<1>1. k.pc = "find" /\ UNCHANGED <<rows, wrote, had>> /\ k \in Locals /\ DOMAIN call = Calls
  BY DEF FindVersion, At, Keep, NotTheRows, ErrorInv, CallInv, Knows
<1>2. ASSUME OnePosting
      PROVE  posted = {} => versions = {}
  BY <1>2 DEF OnePosting, Matching, Alike, Of
<1>3. \/ versions = {} /\ call' = [call EXCEPT ![c].pc = "make"]
      \/ versions # {} /\ \E p \in SUBSET Nat : /\ call' = [call EXCEPT ![c].pc = "apply", ![c].found = p]
                                                /\ (\E q \in posted : p = {q}) \/ posted = {}
  <2>1. posted \subseteq Nat
    BY IdsNat DEF Matching, Of, ErrorInv, RowInv
  <2> QED BY <2>1 DEF FindVersion, Goto
<1>4. \/ versions = {} /\ Moves(c, [k EXCEPT !.pc = "make"])
      \/ versions # {} /\ \E p \in SUBSET Nat : /\ Moves(c, [k EXCEPT !.pc = "apply", !.found = p])
                                                /\ (\E q \in posted : p = {q}) \/ posted = {}
  BY <1>1, <1>3 DEF Moves
<1>5. PICK co, row : co = k.co /\ row = k.row
  OBVIOUS
<1>6. PICK l : /\ Moves(c, l) /\ l.op = k.op /\ l.t = k.t /\ l.co = co /\ l.row = row
               /\ \/ l.pc = "make" /\ versions = {}
                  \/ l.pc = "apply" /\ versions # {} /\ ((\E q \in posted : l.found = {q}) \/ posted = {})
  <2>1. CASE versions = {} /\ Moves(c, [k EXCEPT !.pc = "make"])
    <3> DEFINE l == [k EXCEPT !.pc = "make"]
    <3>1. l.pc = "make" /\ l.op = k.op /\ l.t = k.t /\ l.co = k.co /\ l.row = k.row
      BY <1>1 DEF Locals
    <3>2. Moves(c, l)
      BY <2>1
    <3> HIDE DEF l
    <3> QED BY <1>5, <2>1, <3>1, <3>2
  <2>2. ASSUME versions # {}, NEW p \in SUBSET Nat, Moves(c, [k EXCEPT !.pc = "apply", !.found = p]),
               (\E q \in posted : p = {q}) \/ posted = {}
        PROVE  \E l : /\ Moves(c, l) /\ l.op = k.op /\ l.t = k.t /\ l.co = co /\ l.row = row
                      /\ \/ l.pc = "make" /\ versions = {}
                         \/ l.pc = "apply" /\ versions # {} /\ ((\E q \in posted : l.found = {q}) \/ posted = {})
    <3> DEFINE l == [k EXCEPT !.pc = "apply", !.found = p]
    <3>1. l.pc = "apply" /\ l.op = k.op /\ l.t = k.t /\ l.co = k.co /\ l.row = k.row /\ l.found = p
      BY <1>1 DEF Locals
    <3>2. Moves(c, l)
      BY <2>2
    <3> HIDE DEF l
    <3> QED BY <1>5, <2>2, <3>1, <3>2
  <2> QED BY <1>4, <2>1, <2>2
<1>7. \A t : Matching(t, co, row.opening)' = Matching(t, co, row.opening)
  BY <1>1 DEF Matching, Of
<1>8. ASSUME OnePosting
      PROVE  OnePosting' /\ Found(c)'
  <2>1. OnePosting'
    BY <1>1, <1>8, PostingStill DEF Untouched
  <2>2. call'[c] = l /\ (l.pc = "make" => Matching("version", co, row.opening) = {})
        /\ (l.pc = "apply" => \E q \in Matching("posting", co, row.opening) : l.found = {q})
    BY <1>2, <1>5, <1>6, <1>8 DEF Moves
  <2>3. Found(c)'
    BY <1>1, <1>6, <2>2 DEF Found, Matching, Of
  <2> QED BY <2>1, <2>3
<1> QED BY <1>1, <1>6, <1>8, PostStep DEF Moves, Running, PostInv

\* The rows of an export, when there was no version of the opening.
LEMMA PostMake ==
  ASSUME ErrorInv, ErrorInv', TrailInv, PostInv, NEW c \in Calls, MakePosting(c)
  PROVE  PostInv'
<1>1. PICK v : v = lastId + 1
  OBVIOUS
<1>2. PICK co \in Companies, r \in RowSet : co = call[c].co /\ r = call[c].row /\ r.t = "application" /\ r.co = co
  BY DEF MakePosting, At, ErrorInv, CallInv, Knows
<1>3. /\ lastId \in Nat
      /\ DOMAIN rows' = DOMAIN rows \cup {v, v + 1, v + 2}
      /\ \A i \in DOMAIN rows : i \in 1 .. lastId /\ rows'[i] = rows[i]
      /\ rows'[v] = Row("version", co, {}, r.opening, c, c)
      /\ rows'[v + 1] = Row("posting", co, {v}, r.opening, c, c)
      /\ rows'[v + 2] = [r EXCEPT !.refs = {v + 1}]
  BY <1>1, <1>2, MadeRows
<1>4. /\ rows'[v].t = "version" /\ rows'[v].co = co /\ rows'[v].opening = r.opening
      /\ rows'[v + 1].t = "posting" /\ rows'[v + 1].co = co /\ rows'[v + 1].opening = r.opening
      /\ rows'[v + 2].t = "application" /\ rows'[v + 2].co = co /\ rows'[v + 2].opening = r.opening
      /\ rows'[v + 2].refs = {v + 1}
  BY <1>2, <1>3 DEF Row, RowSet
<1>5. /\ Of("version")' = Of("version") \cup {v}
      /\ Of("posting")' = Of("posting") \cup {v + 1}
      /\ Of("application")' = Of("application") \cup {v + 2}
      /\ \A i \in Of("version") \cup Of("posting") \cup Of("application") : rows'[i] = rows[i]
  <2>1. v \notin DOMAIN rows /\ v + 1 \notin DOMAIN rows /\ v + 2 \notin DOMAIN rows
    BY <1>1, <1>3
  <2> QED BY <1>3, <1>4, <2>1 DEF Of
<1>6. call[c].pc = "make" /\ UNCHANGED had /\ wrote \subseteq wrote'
  BY DEF MakePosting, At, Keep
<1>7. PICK l : /\ Moves(c, l) /\ l.pc \in {"clear", "attach"} /\ l.op = call[c].op /\ l.t = call[c].t
  BY <1>6, AfterKnows DEF MakePosting
<1>8. ASSUME OnePosting, Found(c)
      PROVE  OnePosting'
  <2>1. \A i \in Of("version") : ~ (rows[i].co = co /\ rows[i].opening = r.opening)
    BY <1>2, <1>6, <1>8 DEF Found, Matching
  <2>2. \A i \in Of("posting") : ~ (rows[i].co = co /\ rows[i].opening = r.opening)
    BY <1>8, <2>1 DEF OnePosting, Alike
  <2>3. \A i, j \in Of("version")' : Alike(i, j)' => i = j
    BY <1>4, <1>5, <1>8, <2>1 DEF OnePosting, Alike
  <2>4. \A i, j \in Of("posting")' : Alike(i, j)' => i = j
    BY <1>4, <1>5, <1>8, <2>2 DEF OnePosting, Alike
  <2>5. \A i \in Of("version")' : \E j \in Of("posting")' : Alike(i, j)'
    BY <1>4, <1>5, <1>8 DEF OnePosting, Alike
  <2>6. \A i \in Of("posting")' : \E j \in Of("version")' : Alike(i, j)'
    BY <1>4, <1>5, <1>8 DEF OnePosting, Alike
  <2>7. \A a \in Of("application")' : rows'[a].by # 0 =>
           \E p \in Of("posting")' : rows'[a].refs = {p} /\ Alike(a, p)'
    BY <1>4, <1>5, <1>8 DEF OnePosting, Alike
  <2> QED BY <2>3, <2>4, <2>5, <2>6, <2>7 DEF OnePosting
<1>9. Found(c)'
  BY <1>7 DEF Found, Moves
<1> QED BY <1>6, <1>7, <1>8, <1>9, PostStep DEF Moves, Running, PostInv

LEMMA PostUse ==
  ASSUME ErrorInv, ErrorInv', TrailInv, PostInv, NEW c \in Calls, UsePosting(c)
  PROVE  PostInv'
<1>1. /\ call[c].pc = "apply" /\ UNCHANGED had /\ RowInv
  BY DEF UsePosting, At, Keep, ErrorInv
<1>2. CASE ~ (call[c].found \subseteq DOMAIN rows)
  BY <1>1, <1>2, PostDone DEF UsePosting, NotTheRows, Running
<1>3. CASE call[c].found \subseteq DOMAIN rows
  <2>1. PICK n : n = lastId + 1
    OBVIOUS
  <2>2. PICK co \in Companies, found \in SUBSET Nat, r \in RowSet :
           /\ co = call[c].co /\ found = call[c].found /\ r = call[c].row
           /\ r.t = "application" /\ r.co = co
    BY <1>1 DEF ErrorInv, CallInv, Knows, Locals
  <2>3. /\ DOMAIN rows' = DOMAIN rows \cup {n}
        /\ rows'[n] = [r EXCEPT !.refs = found]
        /\ \A j \in DOMAIN rows : rows'[j] = rows[j]
    BY <1>3, <2>1, <2>2, UsedRows
  <2>4. /\ rows'[n].t = "application" /\ rows'[n].co = co /\ rows'[n].opening = r.opening
        /\ rows'[n].refs = found
    BY <2>2, <2>3, <1>1 DEF RowSet, ErrorInv, CallInv, Knows, Locals
  <2>5. n \notin DOMAIN rows
    BY <1>1, <2>1 DEF RowInv, Ids
  <2>6. /\ Of("version")' = Of("version") /\ Of("posting")' = Of("posting")
        /\ Of("application")' = Of("application") \cup {n}
        /\ \A i \in Of("version") \cup Of("posting") \cup Of("application") : rows'[i] = rows[i]
    BY <2>3, <2>4, <2>5 DEF Of
  <2>7. AfterApplication(c) /\ wrote \subseteq wrote'
    BY <1>3 DEF UsePosting, Insert
  <2>8. PICK l : /\ Moves(c, l) /\ l.pc \in {"clear", "attach"} /\ l.op = call[c].op /\ l.t = call[c].t
    BY <1>1, <2>7, AfterKnows
  <2>9. ASSUME OnePosting, Found(c)
        PROVE  OnePosting'
    <3>1. PICK p \in Of("posting") : found = {p} /\ rows[p].co = co /\ rows[p].opening = r.opening
      BY <1>1, <2>2, <2>9 DEF Found, Matching
    <3>2. \A a \in Of("application")' : rows'[a].by # 0 =>
             \E q \in Of("posting")' : rows'[a].refs = {q} /\ Alike(a, q)'
      <4>1. rows'[n].refs = {p} /\ Alike(n, p)'
        BY <2>4, <2>6, <3>1 DEF Alike
      <4>2. ASSUME NEW a \in Of("application"), rows[a].by # 0
            PROVE  \E q \in Of("posting") : rows'[a].refs = {q} /\ Alike(a, q)'
        <5>1. PICK q \in Of("posting") : rows[a].refs = {q} /\ Alike(a, q)
          BY <2>9, <4>2 DEF OnePosting
        <5> QED BY <2>6, <5>1 DEF Alike
      <4> QED BY <2>6, <4>1, <4>2
    <3>3. /\ \A i, j \in Of("version")' : Alike(i, j)' => i = j
          /\ \A i, j \in Of("posting")' : Alike(i, j)' => i = j
          /\ \A i \in Of("version")' : \E j \in Of("posting")' : Alike(i, j)'
          /\ \A i \in Of("posting")' : \E j \in Of("version")' : Alike(i, j)'
      BY <2>6, <2>9 DEF OnePosting, Alike
    <3> QED BY <3>2, <3>3 DEF OnePosting
  <2>10. Found(c)'
    BY <2>8 DEF Found, Moves
  <2> QED BY <1>1, <2>7, <2>8, <2>9, <2>10, PostStep DEF Moves, Running, PostInv
<1> QED BY <1>2, <1>3

LEMMA PostOther ==
  ASSUME ErrorInv, ErrorInv', TrailInv, PostInv, NEW c \in Calls,
         ReadBack(c) \/ CheckQuestion(c) \/ ReadOld(c) \/ LogChange(c) \/ AddAttachment(c) \/ ClearCache(c) \/ Fail(c)
  PROVE  PostInv'
<1>1. UNCHANGED <<rows, wrote>> /\ had \subseteq had' /\ Running(c)
  BY DEF ReadBack, CheckQuestion, ReadOld, LogChange, AddAttachment, ClearCache, Fail, NotTheRows, Keep, Stores,
         At, Running
<1>2. CASE \E result : Done(c, result)
  BY <1>1, <1>2, PostDone
<1>3. CASE ~ \E result : Done(c, result)
  <2>1. call[c] \in Locals /\ DOMAIN call = Calls
    BY DEF ErrorInv, CallInv, Knows
  <2>2. \/ \E pc \in {"insert", "readOld"} : call' = [call EXCEPT ![c].pc = pc]
        \/ \E pc \in {"write", "drop"} : \E old : call' = [call EXCEPT ![c].pc = pc, ![c].old = old]
    BY <1>3 DEF ReadBack, CheckQuestion, ReadOld, LogChange, AddAttachment, ClearCache, Fail, Goto
  <2>3. /\ \A d \in Calls \ {c} : call'[d] = call[d]
        /\ call'[c].pc \notin {"make", "apply"} /\ call'[c].op = call[c].op /\ call'[c].t = call[c].t
    BY <2>1, <2>2 DEF Locals
  <2> QED BY <1>1, <2>3, PostElsewhere DEF Untouched
<1> QED BY <1>2, <1>3

LEMMA NextPost ==
  ASSUME ErrorInv, ErrorInv', TrailInv, PostInv, [Next]_vars
  PROVE  PostInv'
<1>1. ASSUME UNCHANGED <<rows, wrote, call>>, UNCHANGED had \/ \E i : had' = had \cup {<<"lost", i>>}
      PROVE  PostInv'
  BY <1>1 DEF PostInv, ExportAlone, Meddled, Had, Api, OnePosting, Alike, Of, Found, Matching
<1>2. CASE UNCHANGED vars
  BY <1>1, <1>2 DEF vars
<1>3. ASSUME NEW e \in sent, LogLands(e) \/ LogLost(e)
      PROVE  PostInv'
  BY <1>1, <1>3 DEF LogLands, LogLost, NotTheRows
<1>4. ASSUME NEW c \in Calls, Step(c) \/ Fail(c)
      PROVE  PostInv'
  BY <1>4, PostInsert, PostWrite, PostMissed, PostFind, PostMake, PostUse, PostOther DEF Step
<1> QED BY <1>2, <1>3, <1>4, PostHandle DEF Next

\* However often candidates are exported, as long as no export ran beside another call and the API
\* left the three tables alone: an opening has one posting, and its candidates are for it.
THEOREM OnePostingEach == Spec => []OpeningHasOnePosting
<1>1. PostInv => OpeningHasOnePosting
  <2> SUFFICES ASSUME OnePosting, NEW a \in Of("application"), NEW b \in Of("application"),
                      rows[a].by # 0, rows[b].by # 0
               PROVE  /\ Posted(a)
                      /\ rows[a].co = rows[b].co /\ rows[a].opening = rows[b].opening => rows[a].refs = rows[b].refs
    BY DEF PostInv, ExportAlone, OpeningHasOnePosting
  <2>1. PICK p \in Of("posting") : rows[a].refs = {p} /\ Alike(a, p)
    BY DEF OnePosting
  <2>2. PICK q \in Of("posting") : rows[b].refs = {q} /\ Alike(b, q)
    BY DEF OnePosting
  <2>3. Alike(a, b) => p = q
    BY <2>1, <2>2 DEF OnePosting, Alike
  <2> QED BY <2>1, <2>2, <2>3 DEF Posted, Alike
<1> QED BY <1>1, InitError, NextError, InitTrail, NextTrail, InitPost, NextPost, PTL DEF Spec
=============================================================================
