------------------------- MODULE DatabaseProofs -------------------------
(* Connection strings name complete databases, databases are doubled only after *)
(* a blind check, instances are not overfilled and nothing is dropped that was  *)
(* not to be dropped, for any number of tenants, instances, creations, patches  *)
(* and failures; and what is read from a database page by page is read whole    *)
(* and once, as far as offsets can promise it, for any number of rows.          *)
EXTENDS TenantDatabase, Listings, FiniteSetTheorems, SequenceTheorems, WellFoundedInduction, TLAPS

-----------------------------------------------------------------------------
(* The invariant *)

\* What the function of a creation has found by each of its steps.
CreationLocals(c) ==
    /\ creation[c].pc # "idle" => creation[c].tenant \in Tenants
    /\ creation[c].pc \in {"create", "tables", "auth", "publish"} => creation[c].at \in Instances
    /\ creation[c].pc = "check" => creation[c].seen = {} /\ creation[c].at = None
    /\ creation[c].pc = "place" =>
        /\ \E k \in 0 .. Cardinality(Instances) - 1 : creation[c].seen = 1 .. k
        /\ creation[c].seen = {} => creation[c].at = None
        /\ creation[c].seen # {} => creation[c].at \in Instances

Locals ==
    /\ \A c \in Creations : CreationLocals(c)
    /\ \A p \in Patches :
        patch[p].pc # "idle" => patch[p].tenant \in Tenants /\ patch[p].op \in {"remove", "undo"}
    /\ deletion.pc # "idle" => deletion.tenant \in Tenants
    /\ deletion.pc \in {"poll", "drop"} => deletion.task \in Instances
    /\ \A t \in Tenants : conn[t].kind = "full" => conn[t].at \in Instances

\* A creation that passed the check.
Passed(c) == creation[c].pc \in {"place", "create"}

\* Two creations pass the check for a tenant, or one for a tenant that has a database, only
\* if it was blind.
Checked ==
    /\ \A c \in Creations :
        Passed(c) => Holders(creation[c].tenant) = {} \/ creation[c].tenant \in blind
    /\ \A c, o \in Creations :
        Passed(c) /\ Passed(o) /\ c # o /\ creation[c].tenant = creation[o].tenant =>
            creation[c].tenant \in blind
    /\ doubled \subseteq blind

\* A creation that has counted, and an instance that had no more databases then.
Counting(c) == Passed(c) /\ (creation[c].pc = "create" \/ creation[c].seen # {})

Placed(c) ==
    /\ Count(creation[c].at) <= creation[c].least
    /\ creation[c].least <= MaxDatabases
    /\ creation[c].pc = "create" => creation[c].least < MaxDatabases

\* Unless two were placed at once, only one creation has counted, and what it counted is
\* not exceeded.
Placement ==
    ~ crowded =>
        /\ \A i \in Instances : Count(i) <= MaxDatabases
        /\ \A c \in Creations : Counting(c) => Placed(c)
        /\ \A c, o \in Creations : Counting(c) /\ Counting(o) => c = o

\* The level that a creation has brought its database to.
Building(c) == creation[c].pc \in {"tables", "auth", "publish"}
LevelAt(pc) == IF pc = "tables" THEN "bare" ELSE IF pc = "auth" THEN "tables" ELSE "ready"

\* A record that asks for the deletion of t's database, or the function that was given it.
Recorded(k, t) == stream[k].full /\ stream[k].tenant = t
Waiting(t) == \E k \in DOMAIN stream : Recorded(k, t)
AtMostOnce(t) == \A k, l \in DOMAIN stream : Recorded(k, t) /\ Recorded(l, t) => k = l
InDeletion(t) == deletion.pc # "idle" /\ deletion.tenant = t
Pending(t) == InDeletion(t) \/ Waiting(t)

\* Of a tenant that never had two databases: the function that is to drop one has a
\* backup of it.
One(t) ==
    /\ \A i, j \in Holders(t) : i = j
    /\ InDeletion(t) /\ deletion.pc = "drop" =>
        deletion.task \in Holders(t) /\ <<t, deletion.task>> \in backups

\* And if no deletion was delivered to it twice: a database is in creation, or published,
\* or to be deleted.
Course(t) ==
    /\ \A c \in Creations :
        Building(c) /\ creation[c].tenant = t =>
            /\ db[creation[c].at][t] = LevelAt(creation[c].pc)
            /\ conn[t].kind # "full" /\ ~ Pending(t)
            /\ \A o \in Creations : Building(o) /\ creation[o].tenant = t => o = c
    /\ conn[t].kind = "full" => db[conn[t].at][t] = "ready" /\ ~ Pending(t)
    /\ conn[t].kind = "full" /\ conn[t].ttl => asked[t] = "remove"
    /\ Pending(t) => Holders(t) # {} /\ asked[t] = "remove"
    /\ InDeletion(t) => ~ Waiting(t)
    /\ AtMostOnce(t)

IInv ==
    /\ TypeOK
    /\ Locals
    /\ Checked
    /\ Placement
    /\ \A t \in Tenants \ doubled : One(t)
    /\ \A t \in Tenants \ (doubled \cup again) : Course(t)

-----------------------------------------------------------------------------
(* Where a database is found *)

LEMMA HasLeast ==
    ASSUME NEW S \in SUBSET Instances, S # {}
    PROVE  Least(S) \in S
<1>1. S \subseteq Nat
  <2>1. Cardinality(Instances) \in Nat
    BY FiniteAssumption, FS_CardinalityType
  <2> QED BY <2>1, InstancesAssumption
<1>2. PICK i \in S : \A j \in S : ~ (<<j, i>> \in OpToRel(<, Nat))
  BY <1>1, WFMin, NatLessThanWellFounded
<1>3. \A j \in S : ~ (j < i)
  BY <1>1, <1>2 DEF OpToRel
<1>4. \A j \in S : i <= j
  BY <1>1, <1>3
<1> QED BY <1>2, <1>4 DEF Least

LEMMA InstancesNumbered ==
    /\ Cardinality(Instances) \in Nat \ {0}
    /\ Instances = 1 .. Cardinality(Instances)
<1>1. Cardinality(Instances) \in Nat
  BY FiniteAssumption, FS_CardinalityType
<1>2. Cardinality(Instances) # 0
  BY FiniteAssumption, InstancesAssumption, FS_EmptySet
<1> QED BY <1>1, <1>2, InstancesAssumption

LEMMA HoldersPlaced == \A t : Holders(t) \subseteq Instances
BY DEF Holders

\* A tenant whose item is there is sent to the instance it names; any other to one that
\* holds its database. The search fails, or finds what there is.
LEMMA AnswersFound ==
    ASSUME TypeOK, Locals, NEW t \in Tenants, NEW answer \in Answers(t)
    PROVE  /\ answer.at \in Instances \cup {None}
           /\ answer.failed \in BOOLEAN
           /\ answer.at = None /\ ~ answer.failed => conn[t].kind # "full" /\ Holders(t) \subseteq down
<1>1. conn[t].kind = "full" => conn[t].at \in Instances
  BY DEF Locals
<1>2. Holders(t) \ down # {} => Least(Holders(t) \ down) \in Holders(t) \ down
  BY HasLeast, HoldersPlaced
<1>3. Located(t) \in Instances \cup {None}
  BY <1>1, <1>2, HoldersPlaced DEF Located
<1>4. Located(t) = None => conn[t].kind # "full" /\ Holders(t) \subseteq down
  BY <1>1, <1>2, HoldersPlaced, NoneAssumption DEF Located
<1> DEFINE found == IF Holders(t) \ down # {} THEN Least(Holders(t) \ down) ELSE None
<1>5. found \in Instances \cup {None}
  BY <1>2, HoldersPlaced
<1>6. \/ answer = [at |-> Located(t), failed |-> FALSE]
      \/ answer = [at |-> found, failed |-> TRUE]
      \/ answer = [at |-> None, failed |-> TRUE]
  BY DEF Answers
<1> HIDE DEF found
<1>7. CASE answer = [at |-> Located(t), failed |-> FALSE]
  BY <1>3, <1>4, <1>7
<1>8. CASE answer = [at |-> found, failed |-> TRUE]
  BY <1>5, <1>8
<1>9. CASE answer = [at |-> None, failed |-> TRUE]
  BY <1>9
<1> QED BY <1>6, <1>7, <1>8, <1>9

-----------------------------------------------------------------------------
(* Steps that leave a part of the invariant alone *)

\* No database is added.
NoNewDatabase == load' = load /\ \A t \in Tenants : Holders(t)' \subseteq Holders(t)

\* No creation comes to be among those that passed the check, or has counted.
NoNewPassed ==
    \A c \in Creations : Passed(c)' =>
        Passed(c) /\ creation'[c].tenant = creation[c].tenant
NoNewCounting ==
    \A c \in Creations : Counting(c)' => Counting(c) /\ creation'[c] = creation[c]

LEMMA CheckedKept ==
    ASSUME IInv, NoNewDatabase, NoNewPassed, UNCHANGED doubled, blind \subseteq blind'
    PROVE  Checked'
<1>1. ASSUME NEW c \in Creations, Passed(c)'
      PROVE  Holders(creation[c].tenant)' = {} \/ creation'[c].tenant \in blind'
  <2>1. Passed(c) /\ creation'[c].tenant = creation[c].tenant /\ creation[c].tenant \in Tenants
    BY <1>1 DEF NoNewPassed, IInv, Locals, CreationLocals, Passed
  <2>2. PICK t \in Tenants : t = creation[c].tenant
    BY <2>1
  <2>3. Holders(t) = {} \/ t \in blind
    BY <2>1, <2>2 DEF IInv, Checked
  <2>4. Holders(t)' \subseteq Holders(t)
    BY DEF NoNewDatabase
  <2>5. (Holders(creation[c].tenant))' = Holders(t)'
    BY <2>1, <2>2 DEF Holders
  <2> QED BY <2>1, <2>2, <2>3, <2>4, <2>5
<1>2. ASSUME NEW c \in Creations, NEW o \in Creations, Passed(c)', Passed(o)', c # o,
             creation'[c].tenant = creation'[o].tenant
      PROVE  creation'[c].tenant \in blind'
  <2>1. Passed(c) /\ Passed(o) /\ creation[c].tenant = creation[o].tenant
        /\ creation'[c].tenant = creation[c].tenant
    BY <1>2 DEF NoNewPassed
  <2> QED BY <1>2, <2>1 DEF IInv, Checked
<1>3. doubled' \subseteq blind'
  BY DEF IInv, Checked
<1> QED BY <1>1, <1>2, <1>3 DEF Checked

LEMMA CountFinite ==
    ASSUME NEW i, NEW n
    PROVE  IsFiniteSet({t \in Tenants : db[i][t] # n}) /\ Cardinality({t \in Tenants : db[i][t] # n}) \in Nat
BY FiniteAssumption, FS_Subset, FS_CardinalityType

LEMMA CountNat == ASSUME TypeOK, NEW i \in Instances PROVE Count(i) \in Nat
<1>1. Cardinality({t \in Tenants : db[i][t] # "none"}) \in Nat
  BY CountFinite
<1> QED BY <1>1 DEF Count, TypeOK

LEMMA CountKept ==
    ASSUME TypeOK, NoNewDatabase, NEW i \in Instances
    PROVE  /\ Count(i) \in Nat /\ Count(i)' \in Nat
           /\ Count(i)' <= Count(i)
<1> DEFINE now == {t \in Tenants : db[i][t] # "none"}
           then == {t \in Tenants : db'[i][t] # "none"}
<1>1. then \subseteq now
  BY DEF NoNewDatabase, Holders
<1>2. IsFiniteSet(now) /\ IsFiniteSet(then)
  BY FiniteAssumption, FS_Subset
<1>3. Cardinality(now) \in Nat /\ Cardinality(then) \in Nat
  BY <1>2, FS_CardinalityType
<1>4. Cardinality(then) <= Cardinality(now)
  BY <1>1, <1>2, FS_Subset
<1>5. load' = load /\ load[i] \in Nat
  BY DEF NoNewDatabase, TypeOK
<1> QED BY <1>3, <1>4, <1>5 DEF Count

LEMMA PlacementKept ==
    ASSUME IInv, NoNewDatabase, NoNewCounting, crowded => crowded'
    PROVE  Placement'
<1> SUFFICES ASSUME ~ crowded'
             PROVE  /\ \A i \in Instances : Count(i)' <= MaxDatabases
                    /\ \A c \in Creations : Counting(c)' => Placed(c)'
                    /\ \A c, o \in Creations : Counting(c)' /\ Counting(o)' => c = o
  BY DEF Placement
<1>1. \A i \in Instances : Count(i)' \in Nat /\ Count(i) \in Nat /\ Count(i)' <= Count(i)
  BY CountKept DEF IInv
<1>2. \A i \in Instances : Count(i)' <= MaxDatabases
  BY <1>1, LimitsAssumption DEF IInv, Placement
<1>3. ASSUME NEW c \in Creations, Counting(c)'
      PROVE  Placed(c)'
  <2>1. Counting(c) /\ creation'[c] = creation[c] /\ Placed(c)
    BY <1>3 DEF NoNewCounting, IInv, Placement
  <2>2. creation[c].at \in Instances /\ creation[c].least \in Nat
    BY <2>1 DEF IInv, TypeOK, Locals, CreationLocals, Counting, Passed
  <2>3. Count(creation[c].at)' <= creation[c].least
    BY <1>1, <2>1, <2>2 DEF Placed
  <2> QED BY <2>1, <2>3 DEF Placed
<1>4. \A c, o \in Creations : Counting(c)' /\ Counting(o)' => c = o
  BY DEF NoNewCounting, IInv, Placement
<1> QED BY <1>2, <1>3, <1>4

\* Databases and item of t stay, and no creation or deletion of its database begins.
Apart(t) ==
    /\ \A i \in Instances : db'[i][t] = db[i][t]
    /\ conn'[t] = conn[t] /\ asked'[t] = asked[t]
    /\ InDeletion(t)' => InDeletion(t) /\ deletion' = deletion
    /\ Waiting(t)' => Waiting(t)
    /\ AtMostOnce(t) => AtMostOnce(t)'
    /\ \A i \in Instances : <<t, i>> \in backups => <<t, i>> \in backups'
    /\ \A c \in Creations : Building(c)' /\ creation'[c].tenant = t =>
            Building(c) /\ creation'[c] = creation[c]
    /\ doubled \subseteq doubled' /\ again \subseteq again'

LEMMA TenantKept ==
    ASSUME IInv, NEW t \in Tenants, Apart(t)
    PROVE  /\ t \notin doubled' => One(t)'
           /\ t \notin doubled' \cup again' => Course(t)'
<1>1. Holders(t)' = Holders(t)
  BY DEF Apart, Holders
<1>2. ASSUME t \notin doubled'
      PROVE  One(t)'
  <2>1. One(t)
    BY <1>2 DEF IInv, Apart
  <2>2. \A i \in Holders(t) : i \in Instances
    BY HoldersPlaced
  <2> QED BY <1>1, <2>1, <2>2 DEF One, Apart
<1>3. ASSUME t \notin doubled' \cup again'
      PROVE  Course(t)'
  <2>1. Course(t)
    BY <1>3 DEF IInv, Apart
  <2>2. (Pending(t)' => Pending(t)) /\ (InDeletion(t)' => ~ Waiting(t)') /\ AtMostOnce(t)'
    BY <2>1 DEF Apart, Pending, Course
  <2>3. ASSUME NEW c \in Creations, Building(c)', creation'[c].tenant = t
        PROVE  /\ db'[creation'[c].at][t] = LevelAt(creation'[c].pc)
               /\ conn'[t].kind # "full" /\ ~ Pending(t)'
               /\ \A o \in Creations : Building(o)' /\ creation'[o].tenant = t => o = c
    <3>1. Building(c) /\ creation'[c] = creation[c] /\ creation[c].at \in Instances
      BY <2>3 DEF Apart, IInv, Locals, CreationLocals, Building
    <3> QED BY <2>1, <2>2, <2>3, <3>1 DEF Course, Apart
  <2>4. conn[t].kind = "full" => conn[t].at \in Instances
    BY DEF IInv, Locals
  <2> QED BY <1>1, <2>1, <2>2, <2>3, <2>4 DEF Course, Apart
<1> QED BY <1>2, <1>3

LEMMA AllKept ==
    ASSUME IInv, TypeOK', Locals', Checked', Placement', NEW actor,
           \A t \in Tenants \ {actor} : Apart(t),
           actor \in Tenants \ doubled' => One(actor)',
           actor \in Tenants \ (doubled' \cup again') => Course(actor)'
    PROVE  IInv'
<1>1. \A t \in Tenants \ doubled' : One(t)'
  BY TenantKept
<1>2. \A t \in Tenants \ (doubled' \cup again') : Course(t)'
  BY TenantKept
<1> QED BY <1>1, <1>2 DEF IInv

LEMMA NobodyActs ==
    ASSUME IInv, TypeOK', Locals', Checked', Placement', \A t \in Tenants : Apart(t)
    PROVE  IInv'
<1>1. \A t \in Tenants \ doubled' : One(t)'
  BY TenantKept
<1>2. \A t \in Tenants \ (doubled' \cup again') : Course(t)'
  BY TenantKept
<1> QED BY <1>1, <1>2 DEF IInv

\* Steps of the stream, of patches and of the outside leave the creations alone.
LEMMA CreationsStay ==
    ASSUME IInv, UNCHANGED creation, \A t \in Tenants : Holders(t)' \subseteq Holders(t),
           UNCHANGED <<load, blind, doubled, crowded>>
    PROVE  /\ Checked' /\ Placement'
           /\ \A c \in Creations : CreationLocals(c)'
<1>1. NoNewDatabase /\ NoNewPassed /\ NoNewCounting
  BY DEF NoNewDatabase, NoNewPassed, NoNewCounting, Passed, Counting
<1>2. Checked' /\ Placement'
  BY <1>1, CheckedKept, PlacementKept
<1>3. \A c \in Creations : CreationLocals(c)'
  BY DEF IInv, Locals, CreationLocals
<1> QED BY <1>2, <1>3

\* One creation changes its step.
LEMMA Went ==
    ASSUME TypeOK, NEW c \in Creations, NEW pc \in CreationSteps, Goto(c, pc)
    PROVE  /\ creation' \in [Creations -> [pc : CreationSteps, tenant : Tenants \cup {None},
                                   at : Instances \cup {None}, seen : SUBSET Instances,
                                   least : Nat]]
           /\ creation'[c].pc = pc
           /\ creation'[c].tenant = creation[c].tenant /\ creation'[c].at = creation[c].at
           /\ creation'[c].seen = creation[c].seen /\ creation'[c].least = creation[c].least
           /\ \A o \in Creations \ {c} : creation'[o] = creation[o]
BY DEF TypeOK, Goto

LEMMA Replaced ==
    ASSUME TypeOK, NEW c \in Creations, NEW pc \in CreationSteps, NEW t \in Tenants \cup {None},
           creation' = [creation EXCEPT ![c] = Begun(pc, t)]
    PROVE  /\ creation' \in [Creations -> [pc : CreationSteps, tenant : Tenants \cup {None},
                                   at : Instances \cup {None}, seen : SUBSET Instances,
                                   least : Nat]]
           /\ creation'[c].pc = pc
           /\ creation'[c].tenant = t /\ creation'[c].at = None /\ creation'[c].seen = {}
           /\ \A o \in Creations \ {c} : creation'[o] = creation[o]
BY DEF TypeOK, Begun

-----------------------------------------------------------------------------
(* The first state *)

LEMMA InitInv == Init => IInv
<1> SUFFICES ASSUME Init PROVE IInv
  OBVIOUS
<1>1. TypeOK
  <2>1. <<>> \in Seq([tenant : Tenants, full : BOOLEAN])
    BY EmptySeq
  <2>2. load \in [Instances -> Nat]
    BY LimitsAssumption DEF Init
  <2> QED BY <2>1, <2>2 DEF Init, TypeOK, Levels, Items, NoItem, NoCreation, Begun,
               CreationSteps, PatchSteps, DeletionSteps, NoPatch, NoDeletion
<1>2. \A c \in Creations : creation[c].pc = "idle"
  BY DEF Init, NoCreation, Begun
<1>3. Locals
  BY <1>2 DEF Init, Locals, CreationLocals, NoPatch, NoDeletion, NoItem
<1>4. Checked
  BY <1>2 DEF Init, Checked, Passed
<1>5. Placement
  <2>1. ASSUME NEW i \in Instances
        PROVE  Count(i) <= MaxDatabases
    <3>1. {t \in Tenants : db[i][t] # "none"} = {}
      BY DEF Init
    <3>2. load[i] \in 0 .. MaxDatabases
      BY DEF Init
    <3>3. Count(i) = load[i] + 0
      BY <3>1, FS_EmptySet DEF Count
    <3> QED BY <3>2, <3>3, LimitsAssumption
  <2> QED BY <2>1, <1>2 DEF Placement, Counting, Passed
<1>6. \A t \in Tenants : Holders(t) = {} /\ ~ InDeletion(t) /\ ~ Waiting(t) /\ AtMostOnce(t)
  BY DEF Init, Holders, InDeletion, NoDeletion, Waiting, AtMostOnce
<1>7. \A t \in Tenants : One(t)
  BY <1>6 DEF One
<1>8. \A t \in Tenants : Course(t)
  BY <1>2, <1>6 DEF Course, Building, Pending, Init, NoItem
<1> QED BY <1>1, <1>3, <1>4, <1>5, <1>7, <1>8 DEF IInv

-----------------------------------------------------------------------------
(* Steps of patches and of the outside that leave the databases and their items alone *)

LEMMA ApartWhenStill ==
    ASSUME UNCHANGED <<db, conn, creation, stream, deletion, backups, asked, doubled>>,
           again \subseteq again', NEW t
    PROVE  Apart(t)
BY DEF Apart, InDeletion, Waiting, AtMostOnce, Recorded, Building

LEMMA StillKept ==
    ASSUME IInv, TypeOK',
           UNCHANGED <<db, load, conn, creation, stream, deletion, backups, asked, blind,
                       doubled, crowded, again>>,
           \A p \in Patches : patch'[p].pc # "idle" =>
                patch'[p].tenant \in Tenants /\ patch'[p].op \in {"remove", "undo"}
    PROVE  IInv'
<1>1. \A t \in Tenants : Holders(t)' \subseteq Holders(t)
  BY DEF Holders
<1>2. Checked' /\ Placement' /\ \A c \in Creations : CreationLocals(c)'
  BY <1>1, CreationsStay
<1>3. Locals'
  BY <1>2 DEF Locals, IInv
<1>4. \A t \in Tenants : Apart(t)
  BY ApartWhenStill
<1> QED BY <1>2, <1>3, <1>4, NobodyActs

LEMMA ScheduleTenantDeletionKept ==
    ASSUME IInv, NEW p \in Patches, NEW t \in Tenants, NEW op \in {"remove", "undo"},
           ScheduleTenantDeletion(p, t, op)
    PROVE  IInv'
<1>1. TypeOK'
  BY DEF ScheduleTenantDeletion, IInv, TypeOK, PatchSteps, stores, history
<1>2. \A q \in Patches : patch'[q].pc # "idle" =>
        patch'[q].tenant \in Tenants /\ patch'[q].op \in {"remove", "undo"}
  BY DEF ScheduleTenantDeletion, IInv, TypeOK, Locals
<1> QED BY <1>1, <1>2, StillKept DEF ScheduleTenantDeletion, stores, history

\* A patch goes on or ends.
LEMMA PatchMoved ==
    ASSUME TypeOK, Locals, NEW p \in Patches, patch[p].pc # "idle",
           \/ PatchEnd(p)
           \/ \E pc \in {"url", "update"} : PatchGoto(p, pc)
    PROVE  /\ patch' \in [Patches -> [pc : PatchSteps, tenant : Tenants \cup {None},
                              op : {"remove", "undo", "none"}]]
           /\ \A q \in Patches : patch'[q].pc # "idle" =>
                patch'[q].tenant \in Tenants /\ patch'[q].op \in {"remove", "undo"}
<1>1. CASE PatchEnd(p)
  BY <1>1 DEF TypeOK, Locals, PatchEnd, NoPatch, PatchSteps
<1>2. ASSUME NEW pc \in {"url", "update"}, PatchGoto(p, pc)
      PROVE  /\ patch' \in [Patches -> [pc : PatchSteps, tenant : Tenants \cup {None},
                              op : {"remove", "undo", "none"}]]
             /\ \A q \in Patches : patch'[q].pc # "idle" =>
                patch'[q].tenant \in Tenants /\ patch'[q].op \in {"remove", "undo"}
  <2>1. /\ patch \in [Patches -> [pc : PatchSteps, tenant : Tenants \cup {None},
                                  op : {"remove", "undo", "none"}]]
        /\ \A q \in Patches : patch[q].pc # "idle" =>
                patch[q].tenant \in Tenants /\ patch[q].op \in {"remove", "undo"}
    BY DEF TypeOK, Locals
  <2>2. patch' = [patch EXCEPT ![p].pc = pc] /\ pc \in PatchSteps
    BY <1>2 DEF PatchGoto, PatchSteps
  <2> QED BY <2>1, <2>2
<1> QED BY <1>1, <1>2

LEMMA ReadTenantInfoKept ==
    ASSUME IInv, NEW p \in Patches, ReadTenantInfo(p)
    PROVE  IInv'
<1>1. PatchEnd(p) \/ PatchGoto(p, "url")
  BY DEF ReadTenantInfo
<1>2. patch[p].pc # "idle"
  BY DEF ReadTenantInfo
<1>3. UNCHANGED <<stores, creation, stream, deletion, history>>
  BY DEF ReadTenantInfo
<1>4. TypeOK'
  BY <1>1, <1>2, <1>3, PatchMoved DEF IInv, TypeOK, stores, history
<1> QED BY <1>1, <1>2, <1>3, <1>4, PatchMoved, StillKept DEF IInv, stores, history

LEMMA CheckUrlKept ==
    ASSUME IInv, NEW p \in Patches, CheckUrl(p)
    PROVE  IInv'
<1>1. PatchEnd(p) \/ PatchGoto(p, "update")
  BY DEF CheckUrl
<1>2. patch[p].pc # "idle"
  BY DEF CheckUrl
<1>3. UNCHANGED <<stores, creation, stream, deletion, history>>
  BY DEF CheckUrl
<1>4. TypeOK'
  BY <1>1, <1>2, <1>3, PatchMoved DEF IInv, TypeOK, stores, history
<1> QED BY <1>1, <1>2, <1>3, <1>4, PatchMoved, StillKept DEF IInv, stores, history

LEMMA PatchFailsKept ==
    ASSUME IInv, NEW p \in Patches, PatchFails(p)
    PROVE  IInv'
<1>1. PatchEnd(p) /\ patch[p].pc # "idle"
  BY DEF PatchFails
<1>2. UNCHANGED <<stores, creation, stream, deletion, history>>
  BY DEF PatchFails
<1>3. TypeOK'
  BY <1>1, <1>2, PatchMoved DEF IInv, TypeOK, stores, history
<1> QED BY <1>1, <1>2, <1>3, PatchMoved, StillKept DEF IInv, stores, history

LEMMA MaintenanceKept ==
    ASSUME IInv, NEW i \in Instances, GoDown(i) \/ ComeUp(i)
    PROVE  IInv'
<1>1. down' \subseteq Instances
  BY DEF GoDown, ComeUp, IInv, TypeOK
<1>2. UNCHANGED <<db, conn, admin, load, creation, patch, stream, deletion, history>>
  BY DEF GoDown, ComeUp
<1>3. TypeOK'
  BY <1>1, <1>2 DEF IInv, TypeOK, history
<1> QED BY <1>2, <1>3, StillKept DEF IInv, Locals, history

-----------------------------------------------------------------------------
(* Steps of creations that leave the databases and their items alone *)

LEMMA CreationOnly ==
    ASSUME IInv, TypeOK', Checked', Placement',
           UNCHANGED <<db, conn, patch, stream, deletion, backups, asked, doubled, again>>,
           \A c \in Creations : CreationLocals(c)',
           \A c \in Creations : Building(c)' => Building(c) /\ creation'[c] = creation[c]
    PROVE  IInv'
<1>1. Locals'
  BY DEF IInv, Locals
<1>2. \A t \in Tenants : Apart(t)
  BY DEF Apart, InDeletion, Waiting, AtMostOnce, Recorded
<1> QED BY <1>1, <1>2, NobodyActs

LEMMA LocalsOfOthers ==
    ASSUME IInv, NEW o \in Creations, creation'[o] = creation[o]
    PROVE  CreationLocals(o)'
BY DEF IInv, Locals, CreationLocals

LEMMA BegunKept ==
    ASSUME IInv, NEW c \in Creations, NEW t \in Tenants,
           NEW pc \in {"check", "account"},
           creation[c].pc = "idle",
           creation' = [creation EXCEPT ![c] = Begun(pc, t)],
           UNCHANGED <<stores, patch, stream, deletion, history>>
    PROVE  IInv'
<1>1. /\ creation' \in [Creations -> [pc : CreationSteps, tenant : Tenants \cup {None},
                                   at : Instances \cup {None}, seen : SUBSET Instances,
                                   least : Nat]]
      /\ creation'[c].pc = pc
      /\ creation'[c].tenant = t /\ creation'[c].at = None /\ creation'[c].seen = {}
      /\ \A o \in Creations \ {c} : creation'[o] = creation[o]
  BY Replaced DEF IInv, CreationSteps
<1>2. TypeOK'
  BY <1>1 DEF IInv, TypeOK, stores, history
<1>3. NoNewDatabase /\ NoNewPassed /\ NoNewCounting
  BY <1>1 DEF NoNewDatabase, NoNewPassed, NoNewCounting, Passed, Counting, Holders, stores
<1>4. Checked' /\ Placement'
  BY <1>3, CheckedKept, PlacementKept DEF history
<1>5. \A o \in Creations \ {c} : CreationLocals(o)'
  BY <1>1, LocalsOfOthers
<1>6. CreationLocals(c)'
  BY <1>1 DEF CreationLocals
<1>7. \A o \in Creations : Building(o)' => Building(o) /\ creation'[o] = creation[o]
  BY <1>1 DEF Building
<1> QED BY <1>2, <1>4, <1>5, <1>6, <1>7, CreationOnly DEF stores, history

LEMMA AddRdsDatabaseKept ==
    ASSUME IInv, NEW c \in Creations, NEW t \in Tenants, AddRdsDatabase(c, t)
    PROVE  IInv'
BY BegunKept DEF AddRdsDatabase

LEMMA AddAdminKept ==
    ASSUME IInv, NEW c \in Creations, NEW t \in Tenants, AddAdmin(c, t)
    PROVE  IInv'
BY BegunKept DEF AddAdmin

\* A creation ends, or goes to its last step.
LEMMA LeftKept ==
    ASSUME IInv, NEW c \in Creations, End(c) \/ (Goto(c, "account") /\ creation[c].pc # "idle"),
           admin' \in [Tenants -> 0 .. 3 \cup {None}],
           UNCHANGED <<db, conn, down, load, patch, stream, deletion, backups, asked, doubled,
                       crowded, skipped, again>>,
           blind \subseteq blind', blind' \subseteq Tenants
    PROVE  IInv'
<1>1. /\ creation' \in [Creations -> [pc : CreationSteps, tenant : Tenants \cup {None},
                                   at : Instances \cup {None}, seen : SUBSET Instances,
                                   least : Nat]]
      /\ creation'[c].pc \in {"idle", "account"}
      /\ creation'[c].pc # "idle" => creation'[c].tenant \in Tenants
      /\ \A o \in Creations \ {c} : creation'[o] = creation[o]
  <2>1. CASE End(c)
    <3>1. creation' = [creation EXCEPT ![c] = Begun("idle", None)]
      BY <2>1 DEF End, NoCreation
    <3> QED BY <3>1, Replaced DEF IInv, CreationSteps
  <2>2. CASE Goto(c, "account") /\ creation[c].pc # "idle"
    BY <2>2, Went DEF IInv, CreationSteps, Locals, CreationLocals
  <2> QED BY <2>1, <2>2
<1>2. TypeOK'
  BY <1>1 DEF IInv, TypeOK
<1>3. NoNewDatabase /\ NoNewPassed /\ NoNewCounting
  BY <1>1 DEF NoNewDatabase, NoNewPassed, NoNewCounting, Passed, Counting, Holders
<1>4. Checked' /\ Placement'
  BY <1>3, CheckedKept, PlacementKept
<1>5. \A o \in Creations \ {c} : CreationLocals(o)'
  BY <1>1, LocalsOfOthers
<1>6. CreationLocals(c)'
  BY <1>1 DEF CreationLocals
<1>7. \A o \in Creations : Building(o)' => Building(o) /\ creation'[o] = creation[o]
  BY <1>1 DEF Building
<1> QED BY <1>2, <1>4, <1>5, <1>6, <1>7, CreationOnly

LEMMA CreationFailsKept ==
    ASSUME IInv, NEW c \in Creations, CreationFails(c)
    PROVE  IInv'
<1>1. Goto(c, "account") /\ creation[c].pc # "idle"
  BY DEF CreationFails
<1>2. UNCHANGED <<stores, patch, stream, deletion, history>>
  BY DEF CreationFails
<1> QED BY <1>1, <1>2, LeftKept DEF IInv, TypeOK, stores, history

LEMMA AddHrGlobalAdminAccountKept ==
    ASSUME IInv, NEW c \in Creations, AddHrGlobalAdminAccount(c)
    PROVE  IInv'
<1>1. End(c) /\ creation[c].tenant \in Tenants
  BY DEF AddHrGlobalAdminAccount, IInv, Locals, CreationLocals
<1>2. UNCHANGED <<db, conn, down, load, patch, stream, deletion, history>>
  BY DEF AddHrGlobalAdminAccount
<1> DEFINE t == creation[c].tenant
<1>3. admin' = admin \/ \E roles \in 0 .. 3 : admin' = [admin EXCEPT ![t] = roles]
  BY DEF AddHrGlobalAdminAccount
<1>4. admin \in [Tenants -> 0 .. 3 \cup {None}]
  BY DEF IInv, TypeOK
<1>5. admin' \in [Tenants -> 0 .. 3 \cup {None}]
  <2> HIDE DEF t
  <2> QED BY <1>3, <1>4
<1> QED BY <1>1, <1>2, <1>5, LeftKept DEF IInv, TypeOK, history

LEMMA TenantCheckerKept ==
    ASSUME IInv, NEW c \in Creations, TenantChecker(c)
    PROVE  IInv'
<1> DEFINE t == creation[c].tenant
<1>1. PICK answer \in Answers(t) :
        /\ IF answer.at # None THEN End(c) ELSE Goto(c, "place")
        /\ blind' = IF answer.failed \/ Holders(t) \cap down # {} \/ Rivals(c) # {}
                     THEN blind \cup {t} ELSE blind
  BY DEF TenantChecker
<1>2. creation[c].pc = "check" /\ t \in Tenants /\ creation[c].seen = {} /\ creation[c].at = None
  BY DEF TenantChecker, IInv, Locals, CreationLocals
<1>3. UNCHANGED <<stores, patch, stream, deletion, backups, asked, doubled, crowded,
                   skipped, again>>
  BY DEF TenantChecker
<1>4. blind \subseteq blind' /\ blind' \subseteq Tenants
  BY <1>1, <1>2 DEF IInv, TypeOK
<1>5. CASE End(c)
  BY <1>3, <1>4, <1>5, LeftKept DEF IInv, TypeOK, stores
<1>6. CASE Goto(c, "place") /\ answer.at = None
  <2>1. /\ creation' \in [Creations -> [pc : CreationSteps, tenant : Tenants \cup {None},
                                   at : Instances \cup {None}, seen : SUBSET Instances,
                                   least : Nat]]
        /\ creation'[c].pc = "place"
        /\ creation'[c].tenant = t /\ creation'[c].seen = {} /\ creation'[c].at = None
        /\ \A o \in Creations \ {c} : creation'[o] = creation[o]
    BY <1>2, <1>6, Went DEF IInv, CreationSteps
  <2>2. TypeOK'
    BY <1>3, <1>4, <2>1 DEF IInv, TypeOK, stores
  <2>3. NoNewDatabase /\ NoNewCounting
    BY <1>3, <2>1 DEF NoNewDatabase, NoNewCounting, Passed, Counting, Holders, stores
  <2>4. Placement'
    BY <1>3, <2>3, PlacementKept
  <2>5. ASSUME t \notin blind'
        PROVE  Holders(t) = {} /\ \A o \in Creations \ {c} : Passed(o) => creation[o].tenant # t
    <3>1. ~ answer.failed /\ Holders(t) \cap down = {} /\ Rivals(c) = {}
      BY <1>1, <2>5
    <3>2. Holders(t) \subseteq down
      BY <1>2, <1>6, <3>1, AnswersFound DEF IInv
    <3>3. \A o \in Creations \ {c} : Passed(o) => creation[o].tenant # t
      BY <3>1 DEF Rivals, Passed
    <3> QED BY <3>1, <3>2, <3>3
  <2>6. Checked'
    <3>1. ASSUME NEW o \in Creations, Passed(o)'
          PROVE  (Holders(creation[o].tenant))' = {} \/ creation'[o].tenant \in blind'
      <4>1. CASE o = c
        <5>1. (Holders(creation[o].tenant))' = Holders(t)
          BY <1>3, <2>1, <4>1 DEF Holders, stores
        <5> QED BY <2>1, <2>5, <4>1, <5>1
      <4>2. CASE o # c
        <5>1. (Holders(creation[o].tenant))' = Holders(creation[o].tenant)
          BY <1>3, <2>1, <4>2 DEF Holders, stores
        <5> QED BY <1>4, <2>1, <3>1, <4>2, <5>1 DEF IInv, Checked, Passed
      <4> QED BY <4>1, <4>2
    <3>2. ASSUME NEW o \in Creations, NEW q \in Creations, Passed(o)', Passed(q)', o # q,
                 creation'[o].tenant = creation'[q].tenant
          PROVE  creation'[o].tenant \in blind'
      <4>1. CASE o = c \/ q = c
        BY <2>1, <2>5, <3>2, <4>1 DEF Passed
      <4>2. CASE o # c /\ q # c
        BY <1>4, <2>1, <3>2, <4>2 DEF IInv, Checked, Passed
      <4> QED BY <4>1, <4>2
    <3>3. doubled' \subseteq blind'
      BY <1>3, <1>4 DEF IInv, Checked
    <3> QED BY <3>1, <3>2, <3>3 DEF Checked
  <2>7. \A o \in Creations \ {c} : CreationLocals(o)'
    BY <2>1, LocalsOfOthers
  <2>8. CreationLocals(c)'
    <3>1. {} = 1 .. 0 /\ 0 \in 0 .. Cardinality(Instances) - 1
      BY InstancesNumbered
    <3> QED BY <1>2, <2>1, <3>1 DEF CreationLocals
  <2>9. \A o \in Creations : Building(o)' => Building(o) /\ creation'[o] = creation[o]
    BY <2>1 DEF Building
  <2> QED BY <1>3, <2>2, <2>4, <2>6, <2>7, <2>8, <2>9, CreationOnly DEF stores
<1> QED BY <1>1, <1>5, <1>6

\* The places asked so far are the first ones: the next has the next number.
LEMMA NextPlace ==
    ASSUME NEW k \in 0 .. Cardinality(Instances) - 1
    PROVE  /\ Cardinality(1 .. k) + 1 = k + 1
           /\ k + 1 \in Instances
           /\ (1 .. k) \cup {k + 1} = 1 .. (k + 1)
           /\ k + 1 # Cardinality(Instances) => k + 1 \in 0 .. Cardinality(Instances) - 1
<1>1. Cardinality(Instances) \in Nat \ {0} /\ Instances = 1 .. Cardinality(Instances)
  BY InstancesNumbered
<1> DEFINE N == Cardinality(Instances)
<1> HIDE DEF N
<1>2. N \in Nat \ {0} /\ k \in 0 .. N - 1 /\ Instances = 1 .. N
  BY <1>1 DEF N
<1>3. Cardinality(1 .. k) = k
  <2>1. Cardinality(1 .. k) = IF 1 > k THEN 0 ELSE k - 1 + 1
    BY <1>2, FS_Interval
  <2> QED BY <1>2, <2>1
<1>4. k + 1 \in 1 .. N /\ (k + 1 # N => k + 1 \in 0 .. N - 1)
  BY <1>2
<1>5. (1 .. k) \cup {k + 1} = 1 .. (k + 1)
  BY <1>2
<1> QED BY <1>2, <1>3, <1>4, <1>5 DEF N

LEMMA DbPlacementDeterminantKept ==
    ASSUME IInv, NEW c \in Creations, DbPlacementDeterminant(c)
    PROVE  IInv'
<1> DEFINE cr == creation[c]
           N == Cardinality(Instances)
           i == Cardinality(cr.seen) + 1
           better == cr.at = None \/ FewerThan(Count(i), cr.least)
           at == IF better THEN i ELSE cr.at
           least == IF better THEN Count(i) ELSE cr.least
           pc == IF i = N THEN "create" ELSE "place"
           placed == [pc |-> pc, tenant |-> cr.tenant, at |-> at, seen |-> cr.seen \cup {i},
                      least |-> least]
           others == {o \in Creations \ {c} : creation[o].pc \in {"place", "create"}}
<1>1. /\ cr.pc = "place" /\ cr.tenant \in Tenants
      /\ crowded' = (crowded \/ others # {})
      /\ UNCHANGED <<stores, patch, stream, deletion, backups, asked, blind, doubled,
                     skipped, again>>
  BY DEF DbPlacementDeterminant, IInv, Locals, CreationLocals
<1>2. \/ End(c)
      \/ ~ (i = N /\ LimitReached(least)) /\ creation' = [creation EXCEPT ![c] = placed]
  BY DEF DbPlacementDeterminant
<1>3. crowded \in BOOLEAN /\ crowded' \in BOOLEAN
  BY <1>1 DEF IInv, TypeOK
<1>4. NoNewDatabase
  BY <1>1 DEF NoNewDatabase, Holders, stores
<1>5. CASE End(c)
  <2>1. creation' = [creation EXCEPT ![c] = Begun("idle", None)]
    BY <1>5 DEF End, NoCreation
  <2>2. /\ creation' \in [Creations -> [pc : CreationSteps, tenant : Tenants \cup {None},
                                   at : Instances \cup {None}, seen : SUBSET Instances,
                                   least : Nat]]
        /\ creation'[c].pc = "idle"
        /\ \A o \in Creations \ {c} : creation'[o] = creation[o]
    BY <2>1, Replaced DEF IInv, CreationSteps
  <2>3. TypeOK'
    BY <1>1, <1>3, <2>2 DEF IInv, TypeOK, stores
  <2>4. NoNewPassed /\ NoNewCounting
    BY <2>2 DEF NoNewPassed, NoNewCounting, Passed, Counting
  <2>5. Checked' /\ Placement'
    BY <1>1, <1>4, <2>4, CheckedKept, PlacementKept
  <2>6. \A o \in Creations \ {c} : CreationLocals(o)'
    BY <2>2, LocalsOfOthers
  <2>7. CreationLocals(c)'
    BY <2>2 DEF CreationLocals
  <2>8. \A o \in Creations : Building(o)' => Building(o) /\ creation'[o] = creation[o]
    BY <2>2 DEF Building
  <2> QED BY <1>1, <2>3, <2>5, <2>6, <2>7, <2>8, CreationOnly DEF stores
<1>6. CASE ~ (i = N /\ LimitReached(least)) /\ creation' = [creation EXCEPT ![c] = placed]
  <2>1. PICK k \in 0 .. N - 1 : cr.seen = 1 .. k
    BY <1>1 DEF IInv, Locals, CreationLocals
  <2>2. /\ i = k + 1 /\ i \in Instances
        /\ cr.seen \cup {i} = 1 .. (k + 1)
        /\ k + 1 # N => k + 1 \in 0 .. N - 1
    BY <2>1, NextPlace
  <2>3. Count(i) \in Nat /\ cr.least \in Nat
    <3>1. Count(i) \in Nat
      BY <2>2, CountNat DEF IInv
    <3>2. cr.least \in Nat
      BY DEF IInv, TypeOK
    <3> QED BY <3>1, <3>2
  <2>4. cr.seen = {} => cr.at = None
    BY <1>1 DEF IInv, Locals, CreationLocals
  <2>5. cr.seen # {} => cr.at \in Instances
    BY <1>1 DEF IInv, Locals, CreationLocals
  <2>6. at \in Instances /\ least \in Nat /\ pc \in {"place", "create"} /\ (pc = "create" <=> i = N)
    BY <2>2, <2>3, <2>4, <2>5
  <2>7. cr.seen \cup {i} # {} /\ cr.seen \cup {i} \in SUBSET Instances
    BY <2>2 DEF IInv, TypeOK
  <2>8. ASSUME ~ crowded, \A o \in Creations : Counting(o) => o = c
        PROVE  /\ Count(at) <= least /\ least <= MaxDatabases
               /\ pc = "create" => least < MaxDatabases
    <3>1. Count(i) <= MaxDatabases
      BY <2>2, <2>8 DEF IInv, Placement
    <3>2. CASE better
      BY <1>6, <2>3, <2>6, <3>1, <3>2, LimitsAssumption DEF LimitReached
    <3>3. CASE ~ better
      <4>1. cr.seen # {} /\ Passed(c)
        BY <1>1, <2>4, <3>3 DEF Passed
      <4>2. Placed(c)
        BY <2>8, <4>1 DEF IInv, Placement, Counting
      <4> QED BY <1>6, <2>3, <2>6, <3>3, <4>2, LimitsAssumption DEF LimitReached, Placed
    <3> QED BY <3>2, <3>3
  <2>9. creation[c] \in [pc : CreationSteps, tenant : Tenants \cup {None},
                         at : Instances \cup {None}, seen : SUBSET Instances, least : Nat]
    BY DEF IInv, TypeOK
  <2> HIDE DEF i, at, least, pc, better
  <2>10. /\ creation' \in [Creations -> [pc : CreationSteps, tenant : Tenants \cup {None},
                                   at : Instances \cup {None}, seen : SUBSET Instances,
                                   least : Nat]]
         /\ creation'[c] = placed
         /\ \A o \in Creations \ {c} : creation'[o] = creation[o]
    BY <1>1, <1>6, <2>6, <2>7 DEF IInv, TypeOK, CreationSteps
  <2>11. /\ creation'[c].pc = pc /\ creation'[c].tenant = creation[c].tenant
         /\ creation'[c].at = at /\ creation'[c].seen = cr.seen \cup {i}
         /\ creation'[c].least = least
    BY <2>10
  <2>12. TypeOK'
    BY <1>1, <1>3, <2>10 DEF IInv, TypeOK, stores
  <2>13. NoNewPassed
    BY <1>1, <2>10, <2>11 DEF NoNewPassed, Passed
  <2>14. Checked'
    BY <1>1, <1>4, <2>13, CheckedKept
  <2>15. ASSUME ~ crowded'
         PROVE  /\ \A j \in Instances : Count(j)' <= MaxDatabases
                /\ \A o \in Creations : Counting(o)' => Placed(o)'
                /\ \A o, q \in Creations : Counting(o)' /\ Counting(q)' => o = q
    <3>1. ~ crowded /\ others = {}
      BY <1>1, <2>15
    <3>2. \A o \in Creations \ {c} : ~ Passed(o)
      BY <3>1 DEF Passed
    <3>3. \A j \in Instances : Count(j)' = Count(j)
      BY <1>1 DEF Count, stores
    <3>4. \A j \in Instances : Count(j)' <= MaxDatabases
      BY <3>1, <3>3 DEF IInv, Placement
    <3>5. \A o \in Creations \ {c} : ~ Counting(o) /\ ~ Counting(o)'
      BY <2>10, <3>2 DEF Counting, Passed
    <3>6. Count(at) <= least /\ least <= MaxDatabases /\ (pc = "create" => least < MaxDatabases)
      BY <2>8, <3>1, <3>5
    <3>7. (Count(creation[c].at))' = Count(at)
      BY <1>1, <2>11 DEF Count, stores
    <3>8. Placed(c)'
      BY <2>11, <3>6, <3>7 DEF Placed
    <3> QED BY <3>4, <3>5, <3>8
  <2>16. Placement'
    BY <2>15 DEF Placement
  <2>17. \A o \in Creations \ {c} : CreationLocals(o)'
    BY <2>10, LocalsOfOthers
  <2>18. CreationLocals(c)'
    BY <1>1, <2>2, <2>6, <2>7, <2>11 DEF CreationLocals
  <2>19. \A o \in Creations : Building(o)' => Building(o) /\ creation'[o] = creation[o]
    BY <2>6, <2>10, <2>11 DEF Building
  <2> QED BY <1>1, <2>12, <2>14, <2>16, <2>17, <2>18, <2>19, CreationOnly DEF stores
<1> QED BY <1>2, <1>5, <1>6

-----------------------------------------------------------------------------
(* Steps that make a database *)

\* One more tenant has a database on the instance.
LEMMA CountOneMore ==
    ASSUME TypeOK, NEW i \in Instances, NEW t \in Tenants, db[i][t] = "none",
           db' = [db EXCEPT ![i][t] = "bare"], load' = load
    PROVE  /\ Count(i)' = Count(i) + 1
           /\ \A j \in Instances \ {i} : Count(j)' = Count(j)
<1> DEFINE now == {u \in Tenants : db[i][u] # "none"}
           then == {u \in Tenants : db'[i][u] # "none"}
<1>1. \A u \in Tenants : db'[i][u] = IF u = t THEN "bare" ELSE db[i][u]
  BY DEF TypeOK
<1>2. then = now \cup {t} /\ t \notin now
  BY <1>1
<1>3. IsFiniteSet(now)
  BY FiniteAssumption, FS_Subset
<1>4. Cardinality(then) = Cardinality(now) + 1
  BY <1>2, <1>3, FS_AddElement
<1>5. \A j \in Instances \ {i} : db'[j] = db[j]
  BY DEF TypeOK
<1>6. \A j \in Instances \ {i} : Count(j)' = Count(j)
  BY <1>5 DEF Count
<1>7. load[i] \in Nat /\ Cardinality(now) \in Nat
  BY <1>3, FS_CardinalityType DEF TypeOK
<1> QED BY <1>4, <1>6, <1>7 DEF Count

LEMMA CreateDatabaseKept ==
    ASSUME IInv, NEW c \in Creations, CreateDatabase(c)
    PROVE  IInv'
<1>1. PICK t \in Tenants : t = creation[c].tenant
  BY DEF CreateDatabase, IInv, Locals, CreationLocals
<1>2. PICK i \in Instances : i = creation[c].at
  BY DEF CreateDatabase, IInv, Locals, CreationLocals
<1>3. /\ creation[c].pc = "create" /\ db[i][t] = "none"
      /\ db' = [db EXCEPT ![i][t] = "bare"]
      /\ doubled' = IF Holders(t) # {} THEN doubled \cup {t} ELSE doubled
      /\ backups' = backups \ {<<t, i>>}
      /\ Goto(c, "tables")
      /\ UNCHANGED <<conn, down, admin, load, patch, stream, deletion, asked, blind, crowded,
                     skipped, again>>
  BY <1>1, <1>2 DEF CreateDatabase
<1>4. /\ creation' \in [Creations -> [pc : CreationSteps, tenant : Tenants \cup {None},
                                   at : Instances \cup {None}, seen : SUBSET Instances,
                                   least : Nat]]
      /\ creation'[c].pc = "tables"
      /\ creation'[c].tenant = t /\ creation'[c].at = i
      /\ \A o \in Creations \ {c} : creation'[o] = creation[o]
  BY <1>1, <1>2, <1>3, Went DEF IInv, CreationSteps
<1>5. db' \in [Instances -> [Tenants -> Levels]]
  BY <1>3 DEF IInv, TypeOK, Levels
<1>6. doubled \subseteq doubled' /\ doubled' \subseteq Tenants
  BY <1>3 DEF IInv, TypeOK
<1>7. TypeOK'
  BY <1>3, <1>4, <1>5, <1>6 DEF IInv, TypeOK
<1>8. \A j \in Instances, u \in Tenants :
        db'[j][u] = IF j = i /\ u = t THEN "bare" ELSE db[j][u]
  BY <1>3 DEF IInv, TypeOK
<1>9. Holders(t)' = Holders(t) \cup {i} /\ \A u \in Tenants \ {t} : Holders(u)' = Holders(u)
  BY <1>8 DEF Holders
<1>10. Passed(c) /\ (Holders(t) = {} \/ t \in blind)
  BY <1>1, <1>3 DEF Passed, IInv, Checked
<1>11. Checked'
  <2>1. ASSUME NEW o \in Creations, Passed(o)'
        PROVE  o # c /\ Passed(o) /\ creation'[o] = creation[o]
    BY <1>4, <2>1 DEF Passed
  <2>2. ASSUME NEW o \in Creations, Passed(o)'
        PROVE  (Holders(creation[o].tenant))' = {} \/ creation'[o].tenant \in blind'
    <3>1. o # c /\ Passed(o) /\ creation'[o] = creation[o]
      BY <2>1, <2>2
    <3>2. PICK u \in Tenants : u = creation[o].tenant
      BY <3>1 DEF IInv, Locals, CreationLocals, Passed
    <3>3. (Holders(creation[o].tenant))' = Holders(u)'
      BY <3>1, <3>2 DEF Holders
    <3>4. CASE u = t
      BY <1>1, <1>3, <1>10, <3>1, <3>2, <3>4 DEF IInv, Checked
    <3>5. CASE u # t
      BY <1>3, <1>9, <3>1, <3>2, <3>3, <3>5 DEF IInv, Checked
    <3> QED BY <3>4, <3>5
  <2>3. ASSUME NEW o \in Creations, NEW q \in Creations, Passed(o)', Passed(q)', o # q,
               creation'[o].tenant = creation'[q].tenant
        PROVE  creation'[o].tenant \in blind'
    BY <1>3, <2>1, <2>3 DEF IInv, Checked
  <2>4. doubled' \subseteq blind'
    BY <1>3, <1>10 DEF IInv, Checked
  <2> QED BY <2>2, <2>3, <2>4 DEF Checked
<1>12. Placement'
  <2> SUFFICES ASSUME ~ crowded'
               PROVE  /\ \A j \in Instances : Count(j)' <= MaxDatabases
                      /\ \A o \in Creations : ~ Counting(o)'
    BY DEF Placement
  <2>1. ~ crowded /\ Counting(c)
    BY <1>3, <1>10 DEF Counting
  <2>2. Count(i) <= creation[c].least /\ creation[c].least < MaxDatabases
    BY <1>2, <1>3, <2>1 DEF IInv, Placement, Placed
  <2>3. Count(i) \in Nat /\ creation[c].least \in Nat /\ MaxDatabases \in Nat
    BY <1>2, CountNat, LimitsAssumption DEF IInv, TypeOK
  <2>4. Count(i)' = Count(i) + 1 /\ \A j \in Instances \ {i} : Count(j)' = Count(j)
    BY <1>3, CountOneMore DEF IInv
  <2>5. Count(i)' <= MaxDatabases
    BY <2>2, <2>3, <2>4
  <2>6. \A j \in Instances : Count(j)' <= MaxDatabases
    BY <2>1, <2>4, <2>5 DEF IInv, Placement
  <2>7. \A o \in Creations : ~ Counting(o)'
    BY <1>4, <2>1 DEF IInv, Placement, Counting, Passed
  <2> QED BY <2>6, <2>7
<1>13. Locals'
  <2>1. \A o \in Creations \ {c} : CreationLocals(o)'
    BY <1>4, LocalsOfOthers
  <2>2. CreationLocals(c)'
    BY <1>4 DEF CreationLocals
  <2> QED BY <1>3, <2>1, <2>2 DEF IInv, Locals
<1>14. ASSUME NEW u \in Tenants \ {t}
       PROVE  Apart(u)
  <2>1. \A j \in Instances : db'[j][u] = db[j][u]
    BY <1>8
  <2>2. \A o \in Creations : Building(o)' /\ creation'[o].tenant = u =>
            Building(o) /\ creation'[o] = creation[o]
    BY <1>4 DEF Building
  <2>3. \A j \in Instances : <<u, j>> \in backups => <<u, j>> \in backups'
    BY <1>3
  <2> QED BY <1>3, <1>6, <2>1, <2>2, <2>3 DEF Apart, InDeletion, Waiting, AtMostOnce, Recorded
<1>15. ASSUME t \notin doubled'
       PROVE  One(t)'
  <2>1. Holders(t) = {} /\ One(t)
    BY <1>3, <1>15 DEF IInv
  <2>2. Holders(t)' = {i}
    BY <1>9, <2>1
  <2>3. ~ (InDeletion(t)' /\ deletion'.pc = "drop")
    BY <1>3, <2>1 DEF One, InDeletion
  <2> QED BY <2>2, <2>3 DEF One
<1>16. ASSUME t \notin doubled' \cup again'
       PROVE  Course(t)'
  <2>1. Holders(t) = {} /\ Course(t)
    BY <1>3, <1>16 DEF IInv
  <2>2. ~ Pending(t)
    BY <2>1 DEF Course
  <2>3. conn[t].kind # "full"
    <3>1. conn[t].kind = "full" => conn[t].at \in Instances /\ db[conn[t].at][t] = "ready"
      BY <2>1 DEF Course, IInv, Locals
    <3> QED BY <2>1, <3>1 DEF Holders
  <2>4. ASSUME NEW o \in Creations, Building(o), creation[o].tenant = t
        PROVE  FALSE
    <3>1. creation[o].at \in Instances /\ db[creation[o].at][t] = LevelAt(creation[o].pc)
      BY <2>1, <2>4 DEF Course, IInv, Locals, CreationLocals, Building
    <3> QED BY <2>1, <3>1 DEF Holders, LevelAt
  <2>5. ~ Pending(t)' /\ conn'[t].kind # "full"
    BY <1>3, <2>2, <2>3 DEF Pending, InDeletion, Waiting, Recorded
  <2>6. db'[i][t] = LevelAt("tables")
    BY <1>8 DEF LevelAt
  <2>7. \A o \in Creations : Building(o)' /\ creation'[o].tenant = t => o = c
    BY <1>4, <2>4 DEF Building
  <2>8. \A o \in Creations : Building(o)' /\ creation'[o].tenant = t =>
            db'[creation'[o].at][t] = LevelAt(creation'[o].pc)
    BY <1>4, <2>6, <2>7
  <2>9. AtMostOnce(t)'
    BY <1>3, <2>1 DEF Course, AtMostOnce, Recorded
  <2> QED BY <2>5, <2>7, <2>8, <2>9 DEF Course, Pending
<1> QED BY <1>7, <1>11, <1>12, <1>13, <1>14, <1>15, <1>16, AllKept

LEMMA ApplyScriptsKept ==
    ASSUME IInv, NEW c \in Creations,
           NEW pc \in {"tables", "auth"}, NEW next \in {"auth", "publish"}, pc # next,
           pc = "tables" => next = "auth",
           ApplyScripts(c, pc, LevelAt(pc), LevelAt(next), next)
    PROVE  IInv'
<1>1. PICK t \in Tenants : t = creation[c].tenant
  BY DEF ApplyScripts, IInv, Locals, CreationLocals
<1>2. PICK i \in Instances : i = creation[c].at
  BY DEF ApplyScripts, IInv, Locals, CreationLocals
<1> DEFINE from == LevelAt(pc)
           to == LevelAt(next)
<1>3. /\ creation[c].pc = pc /\ db[i][t] # "none"
      /\ db' = IF db[i][t] = from THEN [db EXCEPT ![i][t] = to] ELSE db
      /\ Goto(c, next)
      /\ UNCHANGED <<conn, down, admin, load, patch, stream, deletion, history>>
  BY <1>1, <1>2 DEF ApplyScripts
<1>4. /\ creation' \in [Creations -> [pc : CreationSteps, tenant : Tenants \cup {None},
                                   at : Instances \cup {None}, seen : SUBSET Instances,
                                   least : Nat]]
      /\ creation'[c].pc = next
      /\ creation'[c].tenant = t /\ creation'[c].at = i
      /\ \A o \in Creations \ {c} : creation'[o] = creation[o]
  BY <1>1, <1>2, <1>3, Went DEF IInv, CreationSteps
<1>5. to \in Levels /\ to # "none" /\ from # "none" /\ Building(c)
  BY <1>3 DEF LevelAt, Levels, Building
<1> HIDE DEF from, to
<1>6. db' \in [Instances -> [Tenants -> Levels]]
  BY <1>3, <1>5 DEF IInv, TypeOK
<1>7. TypeOK'
  BY <1>3, <1>4, <1>6 DEF IInv, TypeOK, history
<1>8. \A j \in Instances, u \in Tenants :
        db'[j][u] = IF j = i /\ u = t /\ db[i][t] = from THEN to ELSE db[j][u]
  BY <1>3, <1>5 DEF IInv, TypeOK
<1>9. \A u \in Tenants : Holders(u)' = Holders(u)
  BY <1>3, <1>5, <1>8 DEF Holders
<1>10. NoNewDatabase /\ NoNewPassed /\ NoNewCounting
  BY <1>3, <1>4, <1>9 DEF NoNewDatabase, NoNewPassed, NoNewCounting, Passed, Counting
<1>11. Checked' /\ Placement'
  BY <1>3, <1>10, CheckedKept, PlacementKept DEF history
<1>12. Locals'
  <2>1. \A o \in Creations \ {c} : CreationLocals(o)'
    BY <1>4, LocalsOfOthers
  <2>2. CreationLocals(c)'
    BY <1>4 DEF CreationLocals
  <2> QED BY <1>3, <2>1, <2>2 DEF IInv, Locals
<1>13. ASSUME NEW u \in Tenants \ {t}
       PROVE  Apart(u)
  <2>1. \A j \in Instances : db'[j][u] = db[j][u]
    BY <1>8
  <2>2. \A o \in Creations : Building(o)' /\ creation'[o].tenant = u =>
            Building(o) /\ creation'[o] = creation[o]
    BY <1>4 DEF Building
  <2> QED BY <1>3, <2>1, <2>2 DEF Apart, InDeletion, Waiting, AtMostOnce, Recorded, history
<1>14. ASSUME t \notin doubled'
       PROVE  One(t)'
  <2>1. One(t)
    BY <1>3, <1>14 DEF IInv, history
  <2> QED BY <1>3, <1>9, <2>1 DEF One, InDeletion, history
<1>15. ASSUME t \notin doubled' \cup again'
       PROVE  Course(t)'
  <2>1. Course(t)
    BY <1>3, <1>15 DEF IInv, history
  <2>2. db[i][t] = from /\ conn[t].kind # "full" /\ ~ Pending(t)
        /\ \A o \in Creations : Building(o) /\ creation[o].tenant = t => o = c
    BY <1>1, <1>2, <1>3, <1>5, <2>1 DEF Course, from
  <2>3. ~ Pending(t)' /\ conn'[t].kind # "full"
    BY <1>3, <2>2 DEF Pending, InDeletion, Waiting, Recorded
  <2>4. \A o \in Creations : Building(o)' /\ creation'[o].tenant = t => o = c
    BY <1>4, <2>2 DEF Building
  <2>5. db'[i][t] = LevelAt(next)
    BY <1>8, <2>2 DEF to
  <2>6. \A o \in Creations : Building(o)' /\ creation'[o].tenant = t =>
            db'[creation'[o].at][t] = LevelAt(creation'[o].pc)
    BY <1>4, <2>4, <2>5
  <2>7. AtMostOnce(t)'
    BY <1>3, <2>1 DEF Course, AtMostOnce, Recorded
  <2> QED BY <2>3, <2>4, <2>6, <2>7 DEF Course, Pending
<1> QED BY <1>7, <1>11, <1>12, <1>13, <1>14, <1>15, AllKept

LEMMA ApplySchemaKept ==
    ASSUME IInv, NEW c \in Creations, ApplySchema(c)
    PROVE  IInv'
<1>1. LevelAt("tables") = "bare" /\ LevelAt("auth") = "tables"
  BY DEF LevelAt
<1>2. ApplyScripts(c, "tables", LevelAt("tables"), LevelAt("auth"), "auth")
  BY <1>1 DEF ApplySchema
<1> QED BY <1>2, ApplyScriptsKept

LEMMA AuthSetupKept ==
    ASSUME IInv, NEW c \in Creations, AuthSetup(c)
    PROVE  IInv'
<1>1. LevelAt("auth") = "tables" /\ LevelAt("publish") = "ready"
  BY DEF LevelAt
<1>2. ApplyScripts(c, "auth", LevelAt("auth"), LevelAt("publish"), "publish")
  BY <1>1 DEF AuthSetup
<1> QED BY <1>2, ApplyScriptsKept

LEMMA AddConnectionStringKept ==
    ASSUME IInv, NEW c \in Creations, AddConnectionString(c)
    PROVE  IInv'
<1>1. PICK t \in Tenants : t = creation[c].tenant
  BY DEF AddConnectionString, IInv, Locals, CreationLocals
<1>2. PICK i \in Instances : i = creation[c].at
  BY DEF AddConnectionString, IInv, Locals, CreationLocals
<1>3. /\ creation[c].pc = "publish"
      /\ conn' = [conn EXCEPT ![t] = [kind |-> "full", at |-> i, ttl |-> FALSE]]
      /\ asked' = [asked EXCEPT ![t] = "none"]
      /\ Goto(c, "account")
      /\ UNCHANGED <<db, down, admin, load, patch, stream, deletion, backups, blind, doubled,
                     crowded, skipped, again>>
  BY <1>1, <1>2 DEF AddConnectionString
<1>4. /\ creation' \in [Creations -> [pc : CreationSteps, tenant : Tenants \cup {None},
                                   at : Instances \cup {None}, seen : SUBSET Instances,
                                   least : Nat]]
      /\ creation'[c].pc = "account" /\ creation'[c].tenant = t
      /\ \A o \in Creations \ {c} : creation'[o] = creation[o]
  BY <1>1, <1>3, Went DEF IInv, CreationSteps
<1>5. conn' \in [Tenants -> Items] /\ asked' \in [Tenants -> {"none", "remove", "undo"}]
  BY <1>3 DEF IInv, TypeOK, Items
<1>6. conn'[t].kind = "full" /\ conn'[t].at = i /\ conn'[t].ttl = FALSE
      /\ \A u \in Tenants \ {t} : conn'[u] = conn[u] /\ asked'[u] = asked[u]
  BY <1>3 DEF IInv, TypeOK
<1>7. TypeOK'
  BY <1>3, <1>4, <1>5 DEF IInv, TypeOK
<1>8. NoNewDatabase /\ NoNewPassed /\ NoNewCounting
  BY <1>3, <1>4 DEF NoNewDatabase, NoNewPassed, NoNewCounting, Passed, Counting, Holders
<1>9. Checked' /\ Placement'
  BY <1>3, <1>8, CheckedKept, PlacementKept
<1>10. Locals'
  <2>1. \A o \in Creations \ {c} : CreationLocals(o)'
    BY <1>4, LocalsOfOthers
  <2>2. CreationLocals(c)'
    BY <1>4 DEF CreationLocals
  <2>3. \A u \in Tenants : conn'[u].kind = "full" => conn'[u].at \in Instances
    BY <1>6 DEF IInv, Locals
  <2> QED BY <1>3, <2>1, <2>2, <2>3 DEF IInv, Locals
<1>11. ASSUME NEW u \in Tenants \ {t}
       PROVE  Apart(u)
  <2>1. \A o \in Creations : Building(o)' /\ creation'[o].tenant = u =>
            Building(o) /\ creation'[o] = creation[o]
    BY <1>4 DEF Building
  <2> QED BY <1>3, <1>6, <2>1 DEF Apart, InDeletion, Waiting, AtMostOnce, Recorded
<1>12. ASSUME t \notin doubled'
       PROVE  One(t)'
  BY <1>3, <1>12 DEF IInv, One, InDeletion, Holders
<1>13. ASSUME t \notin doubled' \cup again'
       PROVE  Course(t)'
  <2>1. Course(t) /\ Building(c)
    BY <1>3, <1>13 DEF IInv, Building
  <2>2. db[i][t] = "ready" /\ ~ Pending(t)
        /\ \A o \in Creations : Building(o) /\ creation[o].tenant = t => o = c
    BY <1>1, <1>2, <1>3, <2>1 DEF Course, LevelAt
  <2>3. ~ Pending(t)'
    BY <1>3, <2>2 DEF Pending, InDeletion, Waiting, Recorded
  <2>4. \A o \in Creations : ~ (Building(o)' /\ creation'[o].tenant = t)
    BY <1>4, <2>2 DEF Building
  <2>5. AtMostOnce(t)'
    BY <1>3, <2>1 DEF Course, AtMostOnce, Recorded
  <2> QED BY <1>3, <1>6, <2>2, <2>3, <2>4, <2>5 DEF Course, Pending
<1> QED BY <1>7, <1>9, <1>10, <1>11, <1>12, <1>13, AllKept

-----------------------------------------------------------------------------
(* Steps of an item *)

LEMMA UpdateConnectionStringKept ==
    ASSUME IInv, NEW p \in Patches, UpdateConnectionString(p)
    PROVE  IInv'
<1>1. PICK t \in Tenants : t = patch[p].tenant
  BY DEF UpdateConnectionString, IInv, Locals
<1>2. PICK op \in {"remove", "undo"} : op = patch[p].op
  BY DEF UpdateConnectionString, IInv, Locals
<1>3. /\ patch[p].pc # "idle"
      /\ PatchEnd(p)
      /\ UNCHANGED <<db, down, admin, load, creation, stream, deletion, backups, blind, doubled,
                     crowded, skipped, again>>
  BY DEF UpdateConnectionString
<1>4. \/ /\ conn[t].kind # "none"
         /\ conn' = [conn EXCEPT ![t] = Updated(@, op)]
         /\ asked' = IF conn[t].kind = "full" THEN [asked EXCEPT ![t] = op] ELSE asked
      \/ /\ conn[t].kind = "none"
         /\ \/ conn' = [conn EXCEPT ![t] = [kind |-> "stub", at |-> None, ttl |-> op = "remove"]]
            \/ conn' = conn
         /\ asked' = asked
  BY <1>1, <1>2 DEF UpdateConnectionString
<1>5. /\ conn' \in [Tenants -> Items]
      /\ asked' \in [Tenants -> {"none", "remove", "undo"}]
      /\ \A u \in Tenants \ {t} : conn'[u] = conn[u] /\ asked'[u] = asked[u]
      /\ conn'[t].kind = "full" =>
            /\ conn[t].kind = "full" /\ conn'[t].at = conn[t].at
            /\ conn'[t].ttl = (op = "remove") /\ asked'[t] = op
      /\ conn[t].kind # "full" => asked'[t] = asked[t]
  <2>1. conn[t] \in Items /\ conn \in [Tenants -> Items] /\ conn[t].ttl \in BOOLEAN
        /\ asked \in [Tenants -> {"none", "remove", "undo"}]
    BY DEF IInv, TypeOK, Items
  <2>2. CASE conn[t].kind # "none" /\ conn' = [conn EXCEPT ![t] = Updated(@, op)]
    <3>1. Updated(conn[t], op) \in Items
      BY <2>1 DEF Updated, Items
    <3>2. conn' = [conn EXCEPT ![t] = Updated(conn[t], op)]
      BY <2>2
    <3>3. /\ Updated(conn[t], op).kind = conn[t].kind /\ Updated(conn[t], op).at = conn[t].at
          /\ Updated(conn[t], op).ttl = (op = "remove")
      BY <2>1 DEF Updated, Items
    <3> QED BY <1>4, <2>1, <2>2, <3>1, <3>2, <3>3
  <2>3. CASE conn[t].kind = "none" /\ conn' = conn
    BY <1>4, <2>1, <2>3
  <2>4. CASE /\ conn[t].kind = "none"
             /\ conn' = [conn EXCEPT ![t] = [kind |-> "stub", at |-> None, ttl |-> op = "remove"]]
    <3>1. [kind |-> "stub", at |-> None, ttl |-> op = "remove"] \in Items
      BY DEF Items
    <3> QED BY <1>4, <2>1, <2>4, <3>1
  <2> QED BY <1>4, <2>2, <2>3, <2>4
<1>6. /\ patch' \in [Patches -> [pc : PatchSteps, tenant : Tenants \cup {None},
                              op : {"remove", "undo", "none"}]]
      /\ \A q \in Patches : patch'[q].pc # "idle" =>
                patch'[q].tenant \in Tenants /\ patch'[q].op \in {"remove", "undo"}
  BY <1>3, PatchMoved DEF IInv
<1>7. TypeOK'
  BY <1>3, <1>5, <1>6 DEF IInv, TypeOK
<1>8. Checked' /\ Placement' /\ \A c \in Creations : CreationLocals(c)'
  BY <1>3, CreationsStay DEF Holders
<1>9. Locals'
  <2>1. \A u \in Tenants : conn'[u].kind = "full" => conn'[u].at \in Instances
    BY <1>5 DEF IInv, Locals
  <2> QED BY <1>3, <1>6, <1>8, <2>1 DEF IInv, Locals
<1>10. ASSUME NEW u \in Tenants \ {t}
       PROVE  Apart(u)
  BY <1>3, <1>5 DEF Apart, InDeletion, Waiting, AtMostOnce, Recorded, Building
<1>11. ASSUME t \notin doubled'
       PROVE  One(t)'
  BY <1>3, <1>11 DEF IInv, One, InDeletion, Holders
<1>12. ASSUME t \notin doubled' \cup again'
       PROVE  Course(t)'
  <2>1. Course(t)
    BY <1>3, <1>12 DEF IInv
  <2>2. (Pending(t)' <=> Pending(t)) /\ (Waiting(t)' <=> Waiting(t)) /\ AtMostOnce(t)'
        /\ (InDeletion(t)' <=> InDeletion(t)) /\ Holders(t)' = Holders(t)
    BY <1>3, <2>1 DEF Course, Pending, InDeletion, Waiting, AtMostOnce, Recorded, Holders
  <2>3. Pending(t) => asked'[t] = "remove"
    BY <1>5, <2>1 DEF Course
  <2> QED BY <1>3, <1>5, <2>1, <2>2, <2>3 DEF Course, Building
<1> QED BY <1>7, <1>8, <1>9, <1>10, <1>11, <1>12, AllKept

\* The stream of records, as a sequence with a domain.
LEMMA StreamShape ==
    ASSUME TypeOK
    PROVE  /\ Len(stream) \in Nat /\ DOMAIN stream = 1 .. Len(stream)
           /\ \A k \in 1 .. Len(stream) : stream[k] \in [tenant : Tenants, full : BOOLEAN]
BY LenProperties, ElementOfSeq DEF TypeOK

LEMMA ExpireKept ==
    ASSUME IInv, NEW t \in Tenants, Expire(t)
    PROVE  IInv'
<1> DEFINE rec == [tenant |-> t, full |-> conn[t].kind = "full"]
           n == Len(stream)
<1>1. /\ conn[t].ttl
      /\ conn' = [conn EXCEPT ![t] = NoItem]
      /\ stream' = Append(stream, rec)
      /\ UNCHANGED <<db, down, admin, load, creation, patch, deletion, history>>
  BY DEF Expire
<1>2. rec \in [tenant : Tenants, full : BOOLEAN]
  BY DEF IInv, TypeOK, Items
<1>3. /\ n \in Nat /\ DOMAIN stream = 1 .. n
      /\ stream' \in Seq([tenant : Tenants, full : BOOLEAN])
      /\ DOMAIN stream' = 1 .. (n + 1)
      /\ \A k \in 1 .. n : stream'[k] = stream[k]
      /\ stream'[n + 1] = rec
  <2>1. stream \in Seq([tenant : Tenants, full : BOOLEAN])
    BY DEF IInv, TypeOK
  <2> HIDE DEF rec
  <2> QED BY <1>1, <1>2, <2>1, AppendProperties, LenProperties
<1>4. conn' \in [Tenants -> Items]
      /\ conn'[t].kind = "none" /\ \A u \in Tenants \ {t} : conn'[u] = conn[u]
  BY <1>1 DEF IInv, TypeOK, Items, NoItem
<1>5. TypeOK'
  BY <1>1, <1>3, <1>4 DEF IInv, TypeOK, history
<1>6. Checked' /\ Placement' /\ \A c \in Creations : CreationLocals(c)'
  BY <1>1, CreationsStay DEF Holders, history
<1>7. Locals'
  BY <1>1, <1>4, <1>6 DEF IInv, Locals
<1>8. rec.tenant = t /\ rec.full = (conn[t].kind = "full")
  OBVIOUS
<1> HIDE DEF rec, n
<1>9. \A k \in DOMAIN stream' :
        \/ k \in DOMAIN stream /\ \A u \in Tenants : Recorded(k, u)' <=> Recorded(k, u)
        \/ k = n + 1 /\ \A u \in Tenants : Recorded(k, u)' <=> u = t /\ conn[t].kind = "full"
  <2>1. ASSUME NEW k \in 1 .. (n + 1)
        PROVE  k \in 1 .. n \/ k = n + 1
    BY <1>3
  <2> QED BY <1>3, <1>8, <2>1 DEF Recorded
<1>10. ASSUME NEW u \in Tenants \ {t}
       PROVE  Apart(u)
  <2>1. \A k \in DOMAIN stream' : Recorded(k, u)' => k \in DOMAIN stream /\ Recorded(k, u)
    BY <1>9
  <2>2. (Waiting(u)' => Waiting(u)) /\ (AtMostOnce(u) => AtMostOnce(u)')
    BY <2>1 DEF Waiting, AtMostOnce
  <2> QED BY <1>1, <1>4, <2>2 DEF Apart, InDeletion, Building, history
<1>11. ASSUME t \notin doubled'
       PROVE  One(t)'
  BY <1>1, <1>11 DEF IInv, One, InDeletion, Holders, history
<1>12. ASSUME t \notin doubled' \cup again'
       PROVE  Course(t)'
  <2>1. Course(t)
    BY <1>1, <1>12 DEF IInv, history
  <2>2. CASE conn[t].kind # "full"
    <3>1. \A k \in DOMAIN stream' : Recorded(k, t)' => k \in DOMAIN stream /\ Recorded(k, t)
      BY <1>9, <2>2
    <3>2. (Waiting(t)' => Waiting(t)) /\ (AtMostOnce(t) => AtMostOnce(t)')
      BY <3>1 DEF Waiting, AtMostOnce
    <3>3. (Pending(t)' => Pending(t)) /\ (InDeletion(t)' <=> InDeletion(t)) /\ Holders(t)' = Holders(t)
      BY <1>1, <3>2 DEF Pending, InDeletion, Holders
    <3> QED BY <1>1, <1>4, <2>1, <3>2, <3>3 DEF Course, Building, history
  <2>3. CASE conn[t].kind = "full"
    <3>1. /\ db[conn[t].at][t] = "ready" /\ conn[t].at \in Instances /\ ~ Pending(t)
          /\ asked[t] = "remove"
      BY <1>1, <2>1, <2>3 DEF Course, IInv, Locals
    <3>2. \A c \in Creations : ~ (Building(c) /\ creation[c].tenant = t)
      BY <2>1, <2>3 DEF Course
    <3>3. Holders(t)' # {} /\ ~ InDeletion(t)'
      BY <1>1, <3>1 DEF Holders, Pending, InDeletion
    <3>4. \A k \in DOMAIN stream' : Recorded(k, t)' => k = n + 1
      BY <1>9, <3>1 DEF Pending, Waiting
    <3>5. AtMostOnce(t)'
      BY <3>4 DEF AtMostOnce
    <3>6. \A c \in Creations : ~ (Building(c)' /\ creation'[c].tenant = t)
      BY <1>1, <3>2 DEF Building
    <3>7. asked'[t] = "remove"
      BY <1>1, <3>1 DEF history
    <3> QED BY <1>4, <3>3, <3>5, <3>6, <3>7 DEF Course
  <2> QED BY <2>2, <2>3
<1> QED BY <1>5, <1>6, <1>7, <1>10, <1>11, <1>12, AllKept

LEMMA SubSeqShape ==
    ASSUME NEW S, NEW s \in Seq(S), NEW m \in Nat \ {0}, NEW n \in Nat, n <= Len(s)
    PROVE  /\ SubSeq(s, m, n) \in Seq(S)
           /\ Len(SubSeq(s, m, n)) = IF m <= n THEN n - m + 1 ELSE 0
           /\ \A k \in 1 .. n - m + 1 : SubSeq(s, m, n)[k] = s[m + k - 1]
<1>1. Len(s) \in Nat
  BY LenProperties
<1>2. \A i \in m .. n : i \in 1 .. Len(s)
  BY <1>1
<1>3. \A i \in m .. n : s[i] \in S
  BY <1>2, ElementOfSeq
<1> QED BY <1>3, SubSeqProperties

LEMMA DeliverKept ==
    ASSUME IInv, NEW n \in 1 .. MaxBatch, Deliver(n)
    PROVE  IInv'
<1>1. n \in Nat \ {0} /\ n <= Len(stream) /\ Len(stream) \in Nat /\ DOMAIN stream = 1 .. Len(stream)
      /\ stream \in Seq([tenant : Tenants, full : BOOLEAN])
  BY LimitsAssumption, StreamShape DEF Deliver, IInv, TypeOK
<1> DEFINE R == [tenant : Tenants, full : BOOLEAN]
           L == Len(stream)
           batch == SubSeq(stream, 1, n)
           first == stream[1]
<1>a. PICK t \in Tenants : t = first.tenant
  <2>1. 1 \in 1 .. Len(stream)
    BY <1>1
  <2> QED BY <2>1, StreamShape DEF IInv
<1>2. /\ batch \in Seq([tenant : Tenants, full : BOOLEAN]) /\ Len(batch) = n
      /\ \A k \in 1 .. n : batch[k] = stream[k]
  <2>1. batch \in Seq([tenant : Tenants, full : BOOLEAN])
        /\ Len(batch) = (IF 1 <= n THEN n - 1 + 1 ELSE 0)
        /\ \A k \in 1 .. n - 1 + 1 : batch[k] = stream[1 + k - 1]
    <3>1. stream \in Seq(R) /\ 1 \in Nat \ {0} /\ n \in Nat /\ n <= Len(stream)
      BY <1>1
    <3> HIDE DEF R
    <3>2. SubSeq(stream, 1, n) \in Seq(R)
          /\ Len(SubSeq(stream, 1, n)) = (IF 1 <= n THEN n - 1 + 1 ELSE 0)
          /\ \A k \in 1 .. n - 1 + 1 : SubSeq(stream, 1, n)[k] = stream[1 + k - 1]
      BY <3>1, SubSeqShape
    <3> QED BY <3>2 DEF R
  <2> HIDE DEF batch
  <2>2. n - 1 + 1 = n /\ 1 <= n /\ \A k \in 1 .. n : 1 + k - 1 = k
    BY <1>1
  <2> QED BY <2>1, <2>2
<1>3. /\ stream' \in Seq([tenant : Tenants, full : BOOLEAN])
      /\ DOMAIN stream' = 1 .. L - n
      /\ \A k \in 1 .. L - n : stream'[k] = stream[n + k]
  <2>1. n + 1 \in Nat \ {0} /\ L \in Nat /\ L <= L
    BY <1>1
  <2>2. stream' = SubSeq(stream, n + 1, L)
    BY DEF Deliver
  <2>3. /\ stream' \in Seq([tenant : Tenants, full : BOOLEAN])
        /\ Len(stream') = (IF n + 1 <= L THEN L - (n + 1) + 1 ELSE 0)
        /\ \A k \in 1 .. L - (n + 1) + 1 : stream'[k] = stream[n + 1 + k - 1]
    <3>1. stream \in Seq(R) /\ n + 1 \in Nat \ {0} /\ L \in Nat /\ L <= Len(stream)
      BY <1>1, <2>1
    <3> HIDE DEF R, L
    <3>2. SubSeq(stream, n + 1, L) \in Seq(R)
          /\ Len(SubSeq(stream, n + 1, L)) = (IF n + 1 <= L THEN L - (n + 1) + 1 ELSE 0)
          /\ \A k \in 1 .. L - (n + 1) + 1 : SubSeq(stream, n + 1, L)[k] = stream[n + 1 + k - 1]
      BY <3>1, SubSeqShape
    <3> QED BY <2>2, <3>2 DEF R
  <2> HIDE DEF L
  <2>a. n \in Nat \ {0} /\ L \in Nat /\ n <= L
    BY <1>1 DEF L
  <2>b. L - (n + 1) + 1 = L - n /\ (n + 1 > L => L - n = 0)
        /\ \A k \in 1 .. L - n : n + 1 + k - 1 = n + k
    BY <2>a
  <2>4. Len(stream') = L - n
    BY <2>3, <2>a, <2>b
  <2>5. \A k \in 1 .. L - n : stream'[k] = stream[n + k]
    BY <2>3, <2>b
  <2> QED BY <2>3, <2>4, <2>5, LenProperties
<1>4. first \in [tenant : Tenants, full : BOOLEAN] /\ t = first.tenant /\ batch[1] = first
      /\ 1 \in DOMAIN stream
  BY <1>1, <1>2, <1>a, StreamShape DEF IInv
<1>5. /\ deletion.pc = "idle"
      /\ skipped' = skipped \cup {batch[k].tenant : k \in 2 .. n}
      /\ deletion' = IF first.full THEN [pc |-> "backup", tenant |-> t, task |-> None]
                     ELSE NoDeletion
      /\ UNCHANGED <<stores, creation, patch, backups, asked, blind, doubled, crowded, again>>
  BY <1>4 DEF Deliver
<1>6. skipped' \subseteq Tenants
  <2>1. \A k \in 2 .. n : k \in 1 .. Len(stream)
    BY <1>1
  <2>2. \A k \in 2 .. n : batch[k].tenant \in Tenants
    BY <1>1, <1>2, <2>1, StreamShape DEF IInv
  <2> QED BY <1>5, <2>2 DEF IInv, TypeOK
<1> HIDE DEF L, batch, first
<1>7. TypeOK'
  BY <1>3, <1>4, <1>5, <1>6 DEF IInv, TypeOK, stores, NoDeletion, DeletionSteps
<1>8. Checked' /\ Placement' /\ \A c \in Creations : CreationLocals(c)'
  BY <1>5, CreationsStay DEF Holders, stores
<1>9. Locals'
  BY <1>4, <1>5, <1>8 DEF IInv, Locals, stores, NoDeletion
\* A record that stays was there, behind the first one.
<1>10. \A k \in DOMAIN stream' :
        /\ n + k \in DOMAIN stream /\ n + k # 1
        /\ \A u \in Tenants : Recorded(k, u)' <=> Recorded(n + k, u)
  <2>1. \A k \in 1 .. L - n : n + k \in 1 .. L /\ n + k # 1
    BY <1>1 DEF L
  <2> QED BY <1>1, <1>3, <2>1 DEF Recorded, L
<1>11. ASSUME NEW u \in Tenants
       PROVE  /\ Waiting(u)' => Waiting(u)
              /\ AtMostOnce(u) => AtMostOnce(u)'
  <2>1. Waiting(u)' => Waiting(u)
    BY <1>10 DEF Waiting
  <2>2. ASSUME AtMostOnce(u), NEW k \in DOMAIN stream', NEW l \in DOMAIN stream',
               Recorded(k, u)', Recorded(l, u)'
        PROVE  k = l
    <3>1. n + k = n + l
      BY <1>10, <2>2 DEF AtMostOnce
    <3>2. k \in Int /\ l \in Int
      BY <1>3
    <3> QED BY <1>1, <3>1, <3>2
  <2> QED BY <2>1, <2>2 DEF AtMostOnce
<1>12. \A u \in Tenants : InDeletion(u)' => u = t /\ first.full
  BY <1>5 DEF InDeletion, NoDeletion
<1>13. \A u \in Tenants : (u # t \/ ~ first.full) => Apart(u)
  BY <1>5, <1>11, <1>12 DEF Apart, Building, stores
<1>14. ASSUME t \notin doubled'
       PROVE  One(t)'
  BY <1>4, <1>5, <1>14 DEF IInv, One, InDeletion, Holders, stores, NoDeletion
<1>15. CASE first.full
  <2>1. ASSUME t \notin doubled' \cup again'
        PROVE  Course(t)'
    <3>1. Course(t)
      BY <1>4, <1>5, <2>1 DEF IInv
    <3>2. Recorded(1, t) /\ Waiting(t) /\ Pending(t)
      BY <1>4, <1>15 DEF Recorded, Waiting, Pending, first
    <3>3. /\ conn[t].kind # "full" /\ Holders(t) # {} /\ asked[t] = "remove"
          /\ \A c \in Creations : ~ (Building(c) /\ creation[c].tenant = t)
      BY <3>1, <3>2 DEF Course
    <3>4. ~ Waiting(t)'
      <4>1. \A k \in DOMAIN stream : Recorded(k, t) => k = 1
        BY <1>4, <3>1, <3>2 DEF Course, AtMostOnce
      <4> QED BY <1>4, <1>10, <4>1 DEF Waiting
    <3>5. AtMostOnce(t)'
      BY <1>4, <1>11, <3>1 DEF Course
    <3>6. /\ conn'[t].kind # "full" /\ Holders(t)' # {} /\ asked'[t] = "remove"
          /\ \A c \in Creations : ~ (Building(c)' /\ creation'[c].tenant = t)
      BY <1>5, <3>3 DEF stores, Holders, Building
    <3> QED BY <3>4, <3>5, <3>6 DEF Course
  <2> QED BY <1>4, <1>7, <1>8, <1>9, <1>13, <1>14, <2>1, AllKept
<1>16. CASE ~ first.full
  BY <1>7, <1>8, <1>9, <1>13, <1>16, NobodyActs
<1> QED BY <1>15, <1>16

-----------------------------------------------------------------------------
(* Steps of a deletion *)

\* The function that deletes goes on, or ends; no database is touched.
LEMMA DeletionMoved ==
    ASSUME IInv, NEW t \in Tenants, t = deletion.tenant, deletion.pc # "idle",
           UNCHANGED <<stores, creation, patch, stream, asked, blind, doubled, crowded,
                       skipped>>,
           backups \subseteq backups', backups' \subseteq Tenants \X Instances,
           again \subseteq again', again' \subseteq Tenants,
           deletion' \in [pc : DeletionSteps, tenant : Tenants \cup {None},
                          task : Instances \cup {None}],
           deletion'.pc # "idle" => deletion'.tenant = t,
           deletion'.pc \in {"poll", "drop"} => deletion'.task \in Instances,
           deletion'.pc = "drop" =>
                deletion'.task \in Holders(t) /\ <<t, deletion'.task>> \in backups'
    PROVE  IInv'
<1>1. TypeOK'
  BY DEF IInv, TypeOK, stores
<1>2. Checked' /\ Placement' /\ \A c \in Creations : CreationLocals(c)'
  BY CreationsStay DEF Holders, stores
<1>3. Locals'
  BY <1>2 DEF IInv, Locals, stores
<1>4. \A u \in Tenants : (Waiting(u)' <=> Waiting(u)) /\ (AtMostOnce(u)' <=> AtMostOnce(u))
  BY DEF Waiting, AtMostOnce, Recorded
<1>5. \A u \in Tenants : InDeletion(u)' => u = t
  BY DEF InDeletion
<1>6. \A u \in Tenants \ {t} : Apart(u)
  BY <1>4, <1>5 DEF Apart, Building, stores
<1>7. Holders(t)' = Holders(t)
  BY DEF Holders, stores
<1>8. ASSUME t \notin doubled'
      PROVE  One(t)'
  <2>1. One(t)
    BY <1>8 DEF IInv
  <2>2. \A i, j \in Holders(t)' : i = j
    BY <1>7, <2>1 DEF One
  <2>3. deletion'.pc = "drop" =>
            deletion'.task \in Holders(t)' /\ <<t, deletion'.task>> \in backups'
    BY <1>7
  <2> QED BY <2>2, <2>3 DEF One
<1>9. ASSUME t \notin doubled' \cup again'
      PROVE  Course(t)'
  <2>1. Course(t) /\ InDeletion(t) /\ Pending(t)
    BY <1>9 DEF IInv, InDeletion, Pending
  <2>2. /\ conn'[t].kind # "full" /\ Holders(t)' # {} /\ asked'[t] = "remove"
        /\ ~ Waiting(t)' /\ AtMostOnce(t)'
        /\ \A c \in Creations : ~ (Building(c)' /\ creation'[c].tenant = t)
    BY <1>4, <1>7, <2>1 DEF Course, stores, Building
  <2> QED BY <2>2 DEF Course
<1> QED BY <1>1, <1>2, <1>3, <1>6, <1>8, <1>9, AllKept

LEMMA DeletionEnds ==
    ASSUME IInv, deletion.pc # "idle", deletion' = NoDeletion,
           UNCHANGED <<stores, creation, patch, stream, history>>
    PROVE  IInv'
<1>1. PICK t \in Tenants : t = deletion.tenant
  BY DEF IInv, Locals
<1>2. /\ deletion' \in [pc : DeletionSteps, tenant : Tenants \cup {None},
                        task : Instances \cup {None}]
      /\ deletion'.pc = "idle"
  BY DEF NoDeletion, DeletionSteps
<1>3. backups' \subseteq Tenants \X Instances /\ again' \subseteq Tenants
  BY DEF IInv, TypeOK, history
<1> QED BY <1>1, <1>2, <1>3, DeletionMoved DEF history

LEMMA DeletionAt ==
    ASSUME IInv, NEW pc \in DeletionSteps, NEW task \in Instances \cup {None},
           deletion' = [deletion EXCEPT !.pc = pc, !.task = task]
    PROVE  /\ deletion' \in [pc : DeletionSteps, tenant : Tenants \cup {None},
                             task : Instances \cup {None}]
           /\ deletion'.pc = pc /\ deletion'.task = task /\ deletion'.tenant = deletion.tenant
BY DEF IInv, TypeOK

\* An instance where the database of t is reached.
LEMMA ReachedPlaced ==
    ASSUME IInv, NEW t \in Tenants, NEW answer \in Answers(t), Reached(t, answer)
    PROVE  answer.at \in Holders(t)
<1>1. answer.at \in Instances \cup {None}
  BY AnswersFound DEF IInv
<1> QED BY <1>1 DEF Reached, Holders

LEMMA StartBackupKept ==
    ASSUME IInv, StartBackup
    PROVE  IInv'
<1>1. PICK t \in Tenants : t = deletion.tenant
  BY DEF StartBackup, IInv, Locals
<1>2. PICK answer \in Answers(t) :
        deletion' = IF Reached(t, answer)
                       THEN [deletion EXCEPT !.pc = "poll", !.task = answer.at]
                       ELSE NoDeletion
  BY <1>1 DEF StartBackup
<1>3. deletion.pc = "backup" /\ UNCHANGED <<stores, creation, patch, stream, history>>
  BY DEF StartBackup
<1>4. backups' \subseteq Tenants \X Instances /\ again' \subseteq Tenants
  BY <1>3 DEF IInv, TypeOK, history
<1>5. CASE Reached(t, answer)
  <2>1. answer.at \in Instances
    BY <1>5, ReachedPlaced, HoldersPlaced
  <2>2. /\ deletion' \in [pc : DeletionSteps, tenant : Tenants \cup {None},
                          task : Instances \cup {None}]
        /\ deletion'.pc = "poll" /\ deletion'.task = answer.at
        /\ deletion'.tenant = deletion.tenant
    BY <1>2, <1>5, <2>1, DeletionAt DEF DeletionSteps
  <2> QED BY <1>1, <1>3, <1>4, <2>1, <2>2, DeletionMoved DEF history
<1>6. CASE ~ Reached(t, answer)
  BY <1>2, <1>3, <1>6, DeletionEnds
<1> QED BY <1>5, <1>6

LEMMA PollBackupKept ==
    ASSUME IInv, PollBackup
    PROVE  IInv'
<1>1. PICK t \in Tenants : t = deletion.tenant
  BY DEF PollBackup, IInv, Locals
<1>2. PICK answer \in Answers(t) :
        IF Reached(t, answer) /\ answer.at = deletion.task
           THEN /\ deletion' = [deletion EXCEPT !.pc = "drop"]
                /\ backups' = backups \cup {<<t, deletion.task>>}
           ELSE deletion' = NoDeletion /\ UNCHANGED backups
  BY <1>1 DEF PollBackup
<1>3. deletion.pc = "poll" /\ UNCHANGED <<stores, creation, patch, stream, asked, blind, doubled,
                                          crowded, skipped, again>>
  BY DEF PollBackup
<1>4. again' \subseteq Tenants /\ backups \subseteq Tenants \X Instances
  BY <1>3 DEF IInv, TypeOK
<1>5. CASE Reached(t, answer) /\ answer.at = deletion.task
  <2>1. deletion.task \in Holders(t) /\ deletion.task \in Instances
    BY <1>5, ReachedPlaced, HoldersPlaced
  <2>2. /\ deletion' \in [pc : DeletionSteps, tenant : Tenants \cup {None},
                          task : Instances \cup {None}]
        /\ deletion'.pc = "drop" /\ deletion'.task = deletion.task
        /\ deletion'.tenant = deletion.tenant
    BY <1>2, <1>5 DEF IInv, TypeOK, DeletionSteps
  <2>3. backups' = backups \cup {<<t, deletion.task>>}
    BY <1>2, <1>5
  <2>4. backups' \subseteq Tenants \X Instances /\ <<t, deletion'.task>> \in backups'
    BY <1>4, <2>1, <2>2, <2>3
  <2> QED BY <1>1, <1>3, <1>4, <2>1, <2>2, <2>3, <2>4, DeletionMoved
<1>6. CASE ~ (Reached(t, answer) /\ answer.at = deletion.task)
  <2>1. deletion' = NoDeletion /\ UNCHANGED backups
    BY <1>2, <1>6
  <2> QED BY <1>3, <2>1, DeletionEnds DEF history
<1> QED BY <1>5, <1>6

LEMMA BackupFailsKept ==
    ASSUME IInv, BackupFails
    PROVE  IInv'
BY DeletionEnds DEF BackupFails

\* A database of the tenant may be dropped while its deletion is under way, or ends.
LEMMA DroppedKept ==
    ASSUME IInv, NEW t \in Tenants, t = deletion.tenant, deletion.pc # "idle",
           UNCHANGED <<conn, down, admin, load, creation, patch, stream, backups, asked, blind,
                       doubled, crowded, skipped>>,
           again \subseteq again', again' \subseteq Tenants,
           db' = db \/ \E i \in Instances : db' = [db EXCEPT ![i][t] = "none"],
           deletion' \in [pc : DeletionSteps, tenant : Tenants \cup {None},
                          task : Instances \cup {None}],
           deletion'.pc \in {"idle", "backup"},
           deletion'.pc # "idle" => deletion'.tenant = t /\ t \in again'
    PROVE  IInv'
<1>1. /\ db' \in [Instances -> [Tenants -> Levels]]
      /\ \A i \in Instances, u \in Tenants :
            db'[i][u] = db[i][u] \/ (u = t /\ db'[i][u] = "none")
  <2>1. db \in [Instances -> [Tenants -> Levels]]
    BY DEF IInv, TypeOK
  <2>2. ASSUME NEW i \in Instances, db' = [db EXCEPT ![i][t] = "none"]
        PROVE  /\ db' \in [Instances -> [Tenants -> Levels]]
               /\ \A j \in Instances, u \in Tenants :
                    db'[j][u] = db[j][u] \/ (u = t /\ db'[j][u] = "none")
    BY <2>1, <2>2 DEF Levels
  <2> QED BY <2>1, <2>2
<1>2. TypeOK'
  BY <1>1 DEF IInv, TypeOK
<1>3. \A u \in Tenants : Holders(u)' \subseteq Holders(u)
  BY <1>1 DEF Holders
<1>4. Checked' /\ Placement' /\ \A c \in Creations : CreationLocals(c)'
  BY <1>3, CreationsStay
<1>5. Locals'
  BY <1>4 DEF IInv, Locals
<1>6. \A u \in Tenants : (Waiting(u)' <=> Waiting(u)) /\ (AtMostOnce(u)' <=> AtMostOnce(u))
  BY DEF Waiting, AtMostOnce, Recorded
<1>7. \A u \in Tenants : InDeletion(u)' => u = t
  BY DEF InDeletion
<1>8. \A u \in Tenants \ {t} : Apart(u)
  BY <1>1, <1>6, <1>7 DEF Apart, Building
<1>9. ASSUME t \notin doubled'
      PROVE  One(t)'
  <2>1. One(t)
    BY <1>9 DEF IInv
  <2> QED BY <1>3, <2>1 DEF One
<1>10. ASSUME t \notin doubled' \cup again'
       PROVE  Course(t)'
  <2>1. Course(t) /\ InDeletion(t) /\ Pending(t)
    BY <1>10 DEF IInv, InDeletion, Pending
  <2>2. /\ conn'[t].kind # "full" /\ ~ Waiting(t)' /\ ~ InDeletion(t)' /\ AtMostOnce(t)'
        /\ \A c \in Creations : ~ (Building(c)' /\ creation'[c].tenant = t)
    BY <1>6, <1>10, <2>1 DEF Course, Building, InDeletion
  <2> QED BY <2>2 DEF Course, Pending
<1> QED BY <1>2, <1>4, <1>5, <1>8, <1>9, <1>10, AllKept

LEMMA DropDatabaseKept ==
    ASSUME IInv, DropDatabase
    PROVE  IInv'
<1>1. PICK t \in Tenants : t = deletion.tenant
  BY DEF DropDatabase, IInv, Locals
<1>2. PICK answer \in Answers(t) :
        db' = IF Reached(t, answer) THEN [db EXCEPT ![answer.at][t] = "none"] ELSE db
  BY <1>1 DEF DropDatabase
<1>3. db' = db \/ \E i \in Instances : db' = [db EXCEPT ![i][t] = "none"]
  BY <1>2, ReachedPlaced, HoldersPlaced
<1>4. /\ deletion' \in [pc : DeletionSteps, tenant : Tenants \cup {None},
                        task : Instances \cup {None}]
      /\ deletion'.pc = "idle"
  BY DEF DropDatabase, NoDeletion, DeletionSteps
<1>5. /\ deletion.pc # "idle"
      /\ UNCHANGED <<conn, down, admin, load, creation, patch, stream, history>>
  BY DEF DropDatabase
<1>6. again' \subseteq Tenants
  BY <1>5 DEF IInv, TypeOK, history
<1> QED BY <1>1, <1>3, <1>4, <1>5, <1>6, DroppedKept DEF history

LEMMA LocatedPlaced ==
    ASSUME IInv, NEW t \in Tenants
    PROVE  Located(t) \in Instances \cup {None}
<1>1. [at |-> Located(t), failed |-> FALSE] \in Answers(t)
  BY DEF Answers
<1> QED BY <1>1, AnswersFound DEF IInv

LEMMA DeletionTimesOutKept ==
    ASSUME IInv, DeletionTimesOut
    PROVE  IInv'
<1>1. PICK t \in Tenants : t = deletion.tenant
  BY DEF DeletionTimesOut, IInv, Locals
<1>2. \/ db' = db
      \/ Located(t) # None /\ db' = [db EXCEPT ![Located(t)][t] = "none"]
  BY <1>1 DEF DeletionTimesOut
<1>3. db' = db \/ \E i \in Instances : db' = [db EXCEPT ![i][t] = "none"]
  BY <1>2, LocatedPlaced
<1>4. /\ deletion' \in [pc : DeletionSteps, tenant : Tenants \cup {None},
                        task : Instances \cup {None}]
      /\ deletion'.pc = "backup" /\ deletion'.tenant = t
  BY <1>1, DeletionAt DEF DeletionTimesOut, DeletionSteps
<1>5. /\ deletion.pc # "idle" /\ again' = again \cup {t}
      /\ UNCHANGED <<conn, down, admin, load, creation, patch, stream, backups, asked, blind,
                     doubled, crowded, skipped>>
  BY <1>1 DEF DeletionTimesOut
<1>6. again' \subseteq Tenants /\ t \in again' /\ again \subseteq again'
  BY <1>5 DEF IInv, TypeOK
<1> QED BY <1>1, <1>3, <1>4, <1>5, <1>6, DroppedKept

-----------------------------------------------------------------------------
(* The theorems *)

LEMMA StutterKept ==
    ASSUME IInv, UNCHANGED vars
    PROVE  IInv'
<1>1. TypeOK'
  BY DEF IInv, TypeOK, vars, stores, history
<1> QED BY <1>1, StillKept DEF IInv, Locals, vars, stores, history

LEMMA Inductive == IInv /\ [Next]_vars => IInv'
<1> SUFFICES ASSUME IInv, [Next]_vars PROVE IInv'
  OBVIOUS
<1>1. ASSUME NEW c \in Creations, CreationStep(c) PROVE IInv'
  BY <1>1, AddRdsDatabaseKept, AddAdminKept, TenantCheckerKept, DbPlacementDeterminantKept,
     CreateDatabaseKept, ApplySchemaKept, AuthSetupKept, AddConnectionStringKept,
     CreationFailsKept, AddHrGlobalAdminAccountKept DEF CreationStep
<1>2. ASSUME NEW p \in Patches, PatchStep(p) PROVE IInv'
  BY <1>2, ScheduleTenantDeletionKept, ReadTenantInfoKept, CheckUrlKept,
     UpdateConnectionStringKept, PatchFailsKept DEF PatchStep
<1>3. ASSUME NEW t \in Tenants, Expire(t) PROVE IInv'
  BY <1>3, ExpireKept
<1>4. ASSUME NEW n \in 1 .. MaxBatch, Deliver(n) PROVE IInv'
  BY <1>4, DeliverKept
<1>5. CASE Deleting \/ BackupFails \/ DeletionTimesOut
  BY <1>5, StartBackupKept, PollBackupKept, DropDatabaseKept, BackupFailsKept,
     DeletionTimesOutKept DEF Deleting
<1>6. ASSUME NEW i \in Instances, GoDown(i) \/ ComeUp(i) PROVE IInv'
  BY <1>6, MaintenanceKept
<1>7. CASE UNCHANGED vars
  BY <1>7, StutterKept
<1> QED BY <1>1, <1>2, <1>3, <1>4, <1>5, <1>6, <1>7 DEF Next

\* The inductive invariant holds in every reachable state (tenants.service.ts).
THEOREM Invariant == Spec => []IInv
BY InitInv, Inductive, PTL DEF Spec

\* Every reachable state of the databases, their items and the functions at work on them
\* is well typed (tenants.service.ts).
THEOREM TypeCorrect == Spec => []TypeOK
<1>1. IInv => TypeOK
  BY DEF IInv
<1> QED BY <1>1, Invariant, PTL

\* A connection string names a database that was created to its end, for any number of
\* creations, patches and deletions at once (tenants.service.ts:324, createRdsTenantDb).
THEOREM PublishedLast == Spec => []ServedIsComplete
<1>1. IInv => ServedIsComplete
  BY DEF IInv, Course, ServedIsComplete
<1> QED BY <1>1, Invariant, PTL

\* A tenant gets a second database only when the check for the first was blind to it
\* (handler.ts:122, checkTenantExistence).
THEOREM SecondNeedsBlindCheck == Spec => []DoubledOnlyIfBlind
<1>1. IInv => DoubledOnlyIfBlind
  BY DEF IInv, Checked, DoubledOnlyIfBlind
<1> QED BY <1>1, Invariant, PTL

\* Without two placements at once no instance gets more databases than it may hold
\* (tenants.service.ts:137, rdsDatabasePlacement).
THEOREM LimitKept == Spec => []WithinLimit
<1>1. IInv => WithinLimit
  BY DEF IInv, Placement, Count, WithinLimit
<1> QED BY <1>1, Invariant, PTL

\* Where one database is dropped, no other is.
LEMMA OneDropped ==
    ASSUME TypeOK, NEW at, NEW u, db' = [db EXCEPT ![at][u] = "none"],
           NEW i \in Instances, NEW t \in Tenants, Dropped(i, t)
    PROVE  i = at /\ t = u
<1>1. db'[i] = IF i = at THEN [db[at] EXCEPT ![u] = "none"] ELSE db[i]
  BY DEF TypeOK
<1>2. i = at
  BY <1>1 DEF Dropped
<1>3. db'[i][t] = IF t = u THEN "none" ELSE db[i][t]
  BY <1>1, <1>2 DEF TypeOK
<1> QED BY <1>2, <1>3 DEF Dropped

\* A step that drops a database is one of its deletion.
LEMMA OnlyDeletionDrops ==
    ASSUME IInv, [Next]_vars, NEW i \in Instances, NEW t \in Tenants, Dropped(i, t)
    PROVE  /\ deletion.pc = "drop" /\ deletion.tenant = t
<1> USE DEF Dropped
<1>1. ASSUME NEW c \in Creations, CreationStep(c) PROVE FALSE
  <2>1. CASE db' = db
    BY <2>1
  <2>2. CASE CreateDatabase(c)
    BY <2>2 DEF CreateDatabase, IInv, TypeOK
  <2>3. CASE ApplySchema(c)
    BY <2>3 DEF ApplySchema, ApplyScripts, IInv, TypeOK
  <2>4. CASE AuthSetup(c)
    BY <2>4 DEF AuthSetup, ApplyScripts, IInv, TypeOK
  <2> QED BY <1>1, <2>1, <2>2, <2>3, <2>4 DEF CreationStep, AddRdsDatabase, AddAdmin, TenantChecker,
             DbPlacementDeterminant, AddConnectionString, CreationFails,
             AddHrGlobalAdminAccount, stores
<1>2. ASSUME NEW p \in Patches, PatchStep(p) PROVE FALSE
  <2>1. db' = db
    BY <1>2 DEF PatchStep, ScheduleTenantDeletion, ReadTenantInfo, CheckUrl,
                UpdateConnectionString, PatchFails, stores
  <2> QED BY <2>1
<1>3. CASE \/ \E u \in Tenants : Expire(u)
           \/ \E n \in 1 .. MaxBatch : Deliver(n)
           \/ StartBackup \/ PollBackup \/ BackupFails
           \/ \E j \in Instances : GoDown(j) \/ ComeUp(j)
           \/ UNCHANGED vars
  <2>1. db' = db
    BY <1>3 DEF Expire, Deliver, StartBackup, PollBackup, BackupFails, GoDown, ComeUp, stores, vars
  <2> QED BY <2>1
<1>4. CASE DropDatabase
  <2>1. PICK at : db' = db \/ db' = [db EXCEPT ![at][deletion.tenant] = "none"]
    BY <1>4 DEF DropDatabase
  <2>2. deletion.pc = "drop"
    BY <1>4 DEF DropDatabase
  <2> QED BY <2>1, <2>2, OneDropped DEF IInv
<1>5. CASE DeletionTimesOut
  <2>1. \/ db' = db
        \/ /\ deletion.pc = "drop"
           /\ db' = [db EXCEPT ![Located(deletion.tenant)][deletion.tenant] = "none"]
    BY <1>5 DEF DeletionTimesOut
  <2> QED BY <2>1, OneDropped DEF IInv
<1> QED BY <1>1, <1>2, <1>3, <1>4, <1>5 DEF Next, Deleting

\* A database is dropped only after a backup of it, and only if the last patch that found
\* its item asked for that, unless the tenant had two databases or its deletion was
\* delivered twice (tenants.service.ts:703, deleteTenantDatabase).
THEOREM NothingElseIsDropped == Spec => DropIsDue
<1>1. ASSUME IInv, [Next]_vars
      PROVE  [\A i \in Instances, t \in Tenants \ doubled :
                Dropped(i, t) => <<t, i>> \in backups /\ (t \in again \/ asked[t] = "remove")]_vars
  <2> SUFFICES ASSUME NEW i \in Instances, NEW t \in Tenants \ doubled, Dropped(i, t)
               PROVE  <<t, i>> \in backups /\ (t \in again \/ asked[t] = "remove")
    OBVIOUS
  <2>1. deletion.pc = "drop" /\ deletion.tenant = t
    BY <1>1, OnlyDeletionDrops
  <2>2. InDeletion(t) /\ Pending(t) /\ i \in Holders(t)
    BY <2>1 DEF InDeletion, Pending, Holders, Dropped
  <2>3. One(t)
    BY <1>1 DEF IInv
  <2>4. <<t, i>> \in backups
    BY <2>1, <2>2, <2>3 DEF One
  <2>5. t \notin again => asked[t] = "remove"
    BY <1>1, <2>2 DEF IInv, Course
  <2> QED BY <2>4, <2>5
<1> QED BY <1>1, Invariant, PTL DEF Spec, DropIsDue

-----------------------------------------------------------------------------
(* Walks through paged listings.  A row has a rank among the rows of a sorted   *)
(* listing, which grows only when a row comes and shrinks only when one leaves; *)
(* a page has the rows of the ranks between two offsets.                        *)

UniqueKey == SortKey["unique"]

\* The rows before a row, and how many they are.
Before(S, r) == {s \in S : UniqueKey[s] < UniqueKey[r]}

Rank(S, r) == Cardinality(Before(S, r))

LEMMA SubsetsAreCounted ==
    ASSUME NEW S \in SUBSET Rows, NEW T \in SUBSET S
    PROVE  /\ IsFiniteSet(S)
           /\ Cardinality(S) \in Nat
           /\ Cardinality(T) \in Nat
           /\ Cardinality(T) <= Cardinality(S)
           /\ Cardinality(T) = Cardinality(S) => T = S
<1>1. IsFiniteSet(S)
  BY RowsFinite, FS_Subset
<1>2. IsFiniteSet(T)
  BY <1>1, FS_Subset
<1>3. QED
  BY <1>1, <1>2, FS_Subset, FS_CardinalityType

LEMMA RanksGrow ==
    ASSUME NEW T \in SUBSET Rows, NEW S \in SUBSET T, NEW r \in Rows
    PROVE  /\ Rank(S, r) \in Nat
           /\ Rank(S, r) <= Rank(T, r)
           /\ r \in T => Rank(T, r) < Cardinality(T)
<1>1. Before(S, r) \subseteq Before(T, r) /\ Before(T, r) \subseteq T
  BY DEF Before
<1>2. Rank(S, r) \in Nat /\ Rank(S, r) <= Rank(T, r)
  BY <1>1, SubsetsAreCounted, Before(T, r) \in SUBSET Rows DEF Rank
<1>3. ASSUME r \in T
      PROVE  Rank(T, r) < Cardinality(T)
  <2>1. r \notin Before(T, r)
    BY KeysSort DEF Before, UniqueKey
  <2>2. /\ Rank(T, r) \in Nat
        /\ Cardinality(T) \in Nat
        /\ Rank(T, r) <= Cardinality(T)
        /\ Rank(T, r) = Cardinality(T) => Before(T, r) = T
    BY <1>1, SubsetsAreCounted DEF Rank
  <2>3. QED
    BY <1>3, <2>1, <2>2
<1>4. QED
  BY <1>2, <1>3

\* The first rows are those of the lowest ranks.
LEMMA FirstRowsByRank ==
    ASSUME NEW S \in SUBSET Rows, NEW n \in Nat,
           NEW B \in FirstRows(S, UniqueKey, n), NEW r \in S
    PROVE  r \in B <=> Rank(S, r) < n
<1>1. /\ B \in SUBSET S
      /\ \A b \in B, s \in S \ B : UniqueKey[b] <= UniqueKey[s]
      /\ Cardinality(B) = (IF n <= Cardinality(S) THEN n ELSE Cardinality(S))
  BY DEF FirstRows
<1>2. /\ \A s \in S : UniqueKey[s] \in Nat
      /\ \A s, t \in S : UniqueKey[s] = UniqueKey[t] => s = t
  BY KeysSort DEF UniqueKey
<1>3. /\ Cardinality(B) \in Nat
      /\ Cardinality(S) \in Nat
      /\ Cardinality(B) = Cardinality(S) => B = S
  BY <1>1, SubsetsAreCounted
<1>4. Rank(S, r) \in Nat
  BY RanksGrow
<1>5. ASSUME r \in B
      PROVE  Rank(S, r) < n
  <2>1. Before(S, r) \subseteq B
    BY <1>1, <1>2, <1>5 DEF Before
  <2>2. Before(S, r) # B
    BY <1>2, <1>5 DEF Before
  <2>3. Rank(S, r) < Cardinality(B)
    BY <2>1, <2>2, <1>1, <1>3, SubsetsAreCounted DEF Rank
  <2>4. QED
    BY <2>3, <1>1, <1>3, <1>4
<1>6. ASSUME r \notin B
      PROVE  ~(Rank(S, r) < n)
  <2>1. B \subseteq Before(S, r) /\ Before(S, r) \in SUBSET Rows
    BY <1>1, <1>2, <1>6 DEF Before
  <2>2. Cardinality(B) <= Rank(S, r)
    BY <2>1, SubsetsAreCounted DEF Rank
  <2>3. QED
    BY <2>2, <1>1, <1>3, <1>4, <1>6
<1>7. QED
  BY <1>5, <1>6

\* A page has no more rows than its limit, and none only if there are none left.
LEMMA PagesAreFull ==
    ASSUME NEW S \in SUBSET Rows, NEW key, NEW n \in Nat \ {0}, NEW p \in Nat \ {0},
           NEW W \in PageRows(S, key, n, p)
    PROVE  /\ W \in SUBSET S
           /\ Cardinality(W) <= n
           /\ W = {} => Cardinality(S) <= (p - 1) * n
<1> DEFINE a == (p - 1) * n
           b == p * n
<1>1. a \in Nat /\ b \in Nat /\ b = a + n
  <2>1. b = a + n /\ p - 1 \in Nat
    OBVIOUS
  <2>2. \A i, j \in Nat : i * j \in Nat
    OBVIOUS
  <2>3. QED
    BY <2>1, <2>2
<1>2. PageOffset(p, n) = a /\ PageOffset(p + 1, n) = b
  BY DEF PageOffset
<1>3. PICK B \in FirstRows(S, key, a) : B \cap W = {} /\ B \cup W \in FirstRows(S, key, b)
  BY <1>2 DEF PageRows
<1>4. W \in SUBSET S /\ B \in SUBSET S /\ B \cup W \in SUBSET S
  BY <1>3 DEF PageRows, FirstRows
<1>5. /\ Cardinality(B) = (IF a <= Cardinality(S) THEN a ELSE Cardinality(S))
      /\ Cardinality(B \cup W) = (IF b <= Cardinality(S) THEN b ELSE Cardinality(S))
  BY <1>3 DEF FirstRows
<1>6. Cardinality(S) \in Nat /\ IsFiniteSet(B) /\ IsFiniteSet(W) /\ Cardinality(W) \in Nat
  BY <1>4, SubsetsAreCounted, FS_Subset
<1>7. Cardinality(B \cup W) = Cardinality(B) + Cardinality(W)
  <2>1. Cardinality(B \cap W) = 0
    BY <1>3, FS_EmptySet
  <2>2. Cardinality(B \cup W) = Cardinality(B) + Cardinality(W) - Cardinality(B \cap W)
    BY <1>6, FS_Union
  <2>3. Cardinality(B) \in Nat
    BY <1>6, FS_CardinalityType
  <2>4. QED
    BY <2>1, <2>2, <2>3, <1>6
<1>8. Cardinality(W) <= n
  BY <1>1, <1>5, <1>6, <1>7
<1>9. ASSUME W = {}
      PROVE  Cardinality(S) <= a
  <2>1. Cardinality(B \cup W) = Cardinality(B)
    BY <1>9
  <2>2. QED
    BY <2>1, <1>1, <1>5, <1>6
<1>10. QED
  BY <1>4, <1>8, <1>9

\* A page of a sorted listing has the rows of its ranks.
LEMMA PageRowsByRank ==
    ASSUME NEW S \in SUBSET Rows, NEW n \in Nat \ {0}, NEW p \in Nat \ {0},
           NEW W \in PageRows(S, UniqueKey, n, p), NEW r \in S
    PROVE  r \in W <=> (p - 1) * n <= Rank(S, r) /\ Rank(S, r) < p * n
<1> DEFINE a == (p - 1) * n
           b == p * n
<1>1. a \in Nat /\ b \in Nat /\ a <= b
  <2>1. b = a + n /\ p - 1 \in Nat
    OBVIOUS
  <2>2. \A i, j \in Nat : i * j \in Nat
    OBVIOUS
  <2>3. QED
    BY <2>1, <2>2
<1>2. PageOffset(p, n) = a /\ PageOffset(p + 1, n) = b
  BY DEF PageOffset
<1>3. PICK B \in FirstRows(S, UniqueKey, a) :
          B \cap W = {} /\ B \cup W \in FirstRows(S, UniqueKey, b)
  BY <1>2 DEF PageRows
<1>4. (r \in B <=> Rank(S, r) < a) /\ (r \in B \cup W <=> Rank(S, r) < b)
  BY <1>1, <1>3, FirstRowsByRank
<1>5. Rank(S, r) \in Nat
  BY RanksGrow
<1>6. QED
  BY <1>1, <1>3, <1>4, <1>5

\* The pages that a total makes.
LEMMA PagesOfTotal ==
    ASSUME NEW t \in Nat, NEW n \in Nat \ {0}, NEW p \in Nat \ {0}
    PROVE  /\ Ceil(t, n) = p => t <= p * n
           /\ t > (p - 1) * n /\ Ceil(t, n) # p => t > p * n
<1> DEFINE q == (t + n - 1) \div n
<1>1. q \in Int /\ n * q <= t + n - 1 /\ t + n - 1 < n * q + n
  OBVIOUS
<1>2. q = p => t <= p * n
  BY <1>1
<1>3. ASSUME t > (p - 1) * n, q # p
      PROVE  t > p * n
  <2>1. ASSUME q < p
        PROVE  FALSE
    <3>1. n * q <= n * (p - 1)
      BY <2>1, <1>1
    <3>2. QED
      BY <3>1, <1>1, <1>3
  <2>2. q > p
    BY <2>1, <1>1, <1>3
  <2>3. n * q >= n * (p + 1)
    BY <2>2, <1>1
  <2>4. QED
    BY <2>3, <1>1
<1>4. QED
  BY <1>2, <1>3 DEF Ceil
-----------------------------------------------------------------------------
(* The invariant of a walk *)

\* A request that is not refused is answered as the first one was.
PageSize == IF walk.first.size = "own" THEN OwnLimit ELSE PageLimit

InPages == ~walk.strays /\ walk.first.size \in {"default", "own", "void"}

Offset(p) == (p - 1) * PageSize

\* The rows that the answers so far stand for.
Gone == Offset(IF stage \in {"link", "ended"} THEN page + 1 ELSE page)

Answerable ==
    /\ stage \in {"counted", "link", "ended"} => ~Plan.refused
    /\ stage = "idle" => page = 1
    /\ page = 1 /\ stage \in {"idle", "asked", "counted"} => read = {}
    /\ "twice" \in marks => page > 1 /\ ~walk.next.refused
    /\ walk.first.size = "void" => page = 1 /\ stage # "link"

\* What was counted, compared to the rows there are.
TotalKept ==
    /\ stage = "counted" =>
        /\ stayed \subseteq counted
        /\ walk.first.count = "rows" => total = Cardinality(counted)
        /\ walk.first.count # "fewer" => total >= Cardinality(counted)
    /\ stage \in {"counted", "link"} /\ ~walk.strays /\ "left" \notin marks => counted \subseteq table
    /\ stage = "counted" /\ ~walk.strays /\ "entered" \notin marks => table \subseteq counted

\* As long as no row comes, those that were read are before the next page.
ReadBefore ==
    InPages /\ walk.first.order = "unique" /\ "entered" \notin marks =>
        /\ "twice" \notin marks
        /\ \A r \in read : Rank(table, r) < Gone
        /\ stage = "counted" => \A r \in read : Rank(counted, r) < Gone

\* As long as none leaves, those that were not read are not before it.
UnreadBehind ==
    InPages /\ walk.first.order = "unique" /\ "left" \notin marks =>
        \A r \in stayed \ read :
            /\ Rank(table, r) >= Gone
            /\ stage = "counted" => Rank(counted, r) >= Gone

EndedWhole ==
    /\ stage = "ended"
    /\ ~walk.strays
    /\ walk.first.order = "unique"
    /\ walk.first.count # "fewer"
    /\ walk.first.size # "void"
    /\ marks \cap {"left", "torn", "cut"} = {}
    => stayed \subseteq read

MoreBehind ==
    InPages /\ walk.first.count = "rows" /\ marks \cap {"left", "hollow"} = {} =>
        /\ stage = "asked" /\ page > 1 => Cardinality(table) > Offset(page)
        /\ stage = "counted" /\ page > 1 => Cardinality(counted) > Offset(page)
        /\ stage = "link" => Cardinality(counted) > Offset(page + 1)

WalkInv ==
    /\ ListingTypeOK
    /\ Answerable
    /\ TotalKept
    /\ ReadBefore
    /\ UnreadBehind
    /\ EndedWhole
    /\ MoreBehind

LEMMA PlanIsFirst ==
    ASSUME ListingTypeOK, ~Plan.refused
    PROVE  /\ Plan = walk.first
           /\ SetLimit = PageSize
           /\ Paged <=> walk.first.size \in {"default", "own", "void"}
<1>1. walk \in Walks
  BY DEF ListingTypeOK
<1>2. walk.next.refused \/ walk.next = walk.first
  BY <1>1, WalksAsk
<1>3. Plan = walk.first
  BY <1>2 DEF Plan
<1>4. QED
  BY <1>3 DEF SetLimit, PageSize, Paged

LEMMA OffsetsGrow ==
    ASSUME NEW p \in Nat \ {0}
    PROVE  /\ PageSize \in Nat \ {0}
           /\ Offset(p) \in Nat
           /\ Offset(p + 1) = p * PageSize
           /\ Offset(p + 1) = Offset(p) + PageSize
           /\ p = 1 => Offset(p) = 0
<1>1. PageSize \in Nat \ {0}
  BY LimitsArePositive DEF PageSize
<1>2. \A i, j \in Nat : i * j \in Nat
  OBVIOUS
<1>3. (p + 1 - 1) * PageSize = p * PageSize /\ p * PageSize = (p - 1) * PageSize + PageSize
  BY <1>1
<1>4. p = 1 => (p - 1) * PageSize = 0
  BY <1>1
<1>5. (p - 1) \in Nat
  OBVIOUS
<1>6. (p - 1) * PageSize \in Nat
  BY <1>1, <1>2, <1>5
<1>7. QED
  BY <1>1, <1>3, <1>4, <1>6 DEF Offset

LEMMA WalkInit == ListingInit => WalkInv
<1> SUFFICES ASSUME ListingInit
             PROVE  WalkInv
  OBVIOUS
<1>1. ListingTypeOK
  BY DEF ListingInit, ListingTypeOK
<1>2. Answerable /\ TotalKept /\ EndedWhole /\ MoreBehind
  BY DEF ListingInit, Answerable, TotalKept, EndedWhole, MoreBehind
<1>3. ReadBefore
  BY DEF ListingInit, ReadBefore
<1>4. UnreadBehind
  <2>1. Gone = 0
    BY OffsetsGrow DEF ListingInit, Gone
  <2>2. \A r \in stayed : Rank(table, r) \in Nat
    BY RanksGrow DEF ListingInit
  <2>3. QED
    BY <2>1, <2>2 DEF UnreadBehind, ListingInit
<1>5. QED
  BY <1>1, <1>2, <1>3, <1>4 DEF WalkInv

LEMMA AskKeeps == WalkInv /\ Ask => WalkInv'
<1> SUFFICES ASSUME WalkInv, Ask
             PROVE  WalkInv'
  OBVIOUS
<1>1. ListingTypeOK'
  BY DEF WalkInv, ListingTypeOK, Ask
<1>2. Answerable' /\ TotalKept' /\ EndedWhole' /\ MoreBehind'
  BY DEF Ask, Answerable, TotalKept, EndedWhole, MoreBehind
<1>3. ReadBefore'
  BY DEF Ask, ReadBefore
<1>4. UnreadBehind'
  <2>1. PageSize' = PageSize
    BY DEF Ask, PageSize
  <2>2. Gone' = 0
    BY <2>1, OffsetsGrow DEF Ask, Gone, Offset
  <2>3. \A r \in stayed' : Rank(table', r) \in Nat
    BY RanksGrow DEF Ask, WalkInv, ListingTypeOK
  <2>4. QED
    BY <2>2, <2>3 DEF UnreadBehind, Ask
<1>5. QED
  BY <1>1, <1>2, <1>3, <1>4 DEF WalkInv

LEMMA FollowKeeps == WalkInv /\ Follow => WalkInv'
<1> SUFFICES ASSUME WalkInv, Follow
             PROVE  WalkInv'
  OBVIOUS
<1>1. ListingTypeOK'
  BY DEF WalkInv, ListingTypeOK, Follow
<1>2. /\ page \in Nat \ {0} /\ page' = page + 1 /\ stage = "link" /\ stage' = "asked"
      /\ UNCHANGED <<table, walk, counted, total, read, stayed, marks>>
  BY DEF WalkInv, ListingTypeOK, Follow
<1>3. PageSize' = PageSize /\ Gone' = Gone
  BY <1>2 DEF PageSize, Gone, Offset
<1>4. Answerable'
  BY <1>2 DEF WalkInv, Answerable
<1>5. TotalKept' /\ EndedWhole'
  BY <1>2 DEF TotalKept, EndedWhole
<1>6. ReadBefore'
  BY <1>2, <1>3 DEF WalkInv, ReadBefore, InPages
<1>7. UnreadBehind'
  BY <1>2, <1>3 DEF WalkInv, UnreadBehind, InPages
<1>8. MoreBehind'
  <2>1. SUFFICES ASSUME InPages, walk.first.count = "rows", marks \cap {"left", "hollow"} = {}
                 PROVE  Cardinality(table) > Offset(page + 1)
    BY <1>2, <1>3 DEF MoreBehind, InPages, Offset
  <2>2. Cardinality(counted) > Offset(page + 1)
    BY <2>1, <1>2 DEF WalkInv, MoreBehind
  <2>3. counted \subseteq table
    BY <2>1, <1>2 DEF WalkInv, TotalKept, InPages
  <2>4. /\ Cardinality(counted) \in Nat /\ Cardinality(table) \in Nat
        /\ Cardinality(counted) <= Cardinality(table)
    BY <2>3, SubsetsAreCounted DEF WalkInv, ListingTypeOK
  <2>5. Offset(page + 1) \in Nat
    BY <1>2, OffsetsGrow
  <2>6. QED
    BY <2>2, <2>4, <2>5
<1>9. QED
  BY <1>1, <1>4, <1>5, <1>6, <1>7, <1>8 DEF WalkInv

LEMMA RefuseKeeps == WalkInv /\ Refuse => WalkInv'
<1> SUFFICES ASSUME WalkInv, Refuse
             PROVE  WalkInv'
  OBVIOUS
<1>1. /\ stage = "asked" /\ stage' = "refused"
      /\ UNCHANGED <<table, walk, page, counted, total, read, stayed, marks, changes>>
  BY DEF Refuse
<1>2. ListingTypeOK'
  BY <1>1 DEF WalkInv, ListingTypeOK
<1>3. PageSize' = PageSize /\ Gone' = Gone
  BY <1>1 DEF PageSize, Gone, Offset
<1>4. Answerable' /\ TotalKept' /\ EndedWhole' /\ MoreBehind'
  BY <1>1 DEF WalkInv, Answerable, TotalKept, EndedWhole, MoreBehind
<1>5. ReadBefore' /\ UnreadBehind'
  BY <1>1, <1>3 DEF WalkInv, ReadBefore, UnreadBehind, InPages
<1>6. QED
  BY <1>2, <1>4, <1>5 DEF WalkInv

LEMMA CountRowsKeeps == WalkInv /\ CountRows => WalkInv'
<1> SUFFICES ASSUME WalkInv, CountRows
             PROVE  WalkInv'
  OBVIOUS
<1> DEFINE first == walk.first
<1>1. /\ stage = "asked" /\ ~Plan.refused /\ stage' = "counted"
      /\ UNCHANGED <<table, walk, page, read, stayed, marks, changes>>
  BY DEF CountRows
<1>2. PICK S \in Matching : counted' = S /\ total' \in Counts(Cardinality(S))
  BY DEF CountRows
<1>3. ListingTypeOK
  BY DEF WalkInv
<1>4. S \in SUBSET Rows /\ table \subseteq S /\ (~walk.strays => S = table)
  BY <1>2 DEF Matching
<1>5. Cardinality(S) \in Nat
  BY <1>4, SubsetsAreCounted
<1>6. Plan = first
  BY <1>1, <1>3, PlanIsFirst
<1>7. /\ total' \in Nat
      /\ first.count = "rows" => total' = Cardinality(S)
      /\ first.count # "fewer" => total' >= Cardinality(S)
  <2>1. first.count \in {"rows", "more", "fewer"}
    BY <1>3, WalksAsk DEF ListingTypeOK, Plans
  <2>2. QED
    BY <2>1, <1>2, <1>5, <1>6, LimitsArePositive DEF Counts
<1>8. ListingTypeOK'
  BY <1>1, <1>2, <1>3, <1>4, <1>7 DEF ListingTypeOK
<1>9. PageSize' = PageSize /\ Gone' = Gone
  BY <1>1 DEF PageSize, Gone, Offset
<1>10. Answerable'
  BY <1>1 DEF WalkInv, Answerable, Plan
<1>11. TotalKept'
  BY <1>1, <1>2, <1>3, <1>4, <1>7 DEF TotalKept, ListingTypeOK
<1>12. ReadBefore'
  BY <1>1, <1>2, <1>4, <1>9 DEF WalkInv, ReadBefore, InPages
<1>13. UnreadBehind'
  BY <1>1, <1>2, <1>4, <1>9 DEF WalkInv, UnreadBehind, InPages
<1>14. EndedWhole'
  BY <1>1 DEF EndedWhole
<1>15. MoreBehind'
  BY <1>1, <1>2, <1>4, <1>9 DEF WalkInv, MoreBehind, InPages, Offset
<1>16. QED
  BY <1>8, <1>10, <1>11, <1>12, <1>13, <1>14, <1>15 DEF WalkInv

LEMMA QueryFailsKeeps == WalkInv /\ QueryFails => WalkInv'
<1> SUFFICES ASSUME WalkInv, QueryFails
             PROVE  WalkInv'
  OBVIOUS
<1>1. /\ stage = "counted" /\ stage' = "asked"
      /\ UNCHANGED <<table, walk, page, counted, total, read, stayed, marks, changes>>
  BY DEF QueryFails
<1>2. ListingTypeOK'
  BY <1>1 DEF WalkInv, ListingTypeOK
<1>3. PageSize' = PageSize /\ Gone' = Gone
  BY <1>1 DEF PageSize, Gone, Offset
<1>4. Answerable' /\ TotalKept' /\ EndedWhole'
  BY <1>1 DEF WalkInv, Answerable, TotalKept, EndedWhole
<1>5. ReadBefore' /\ UnreadBehind'
  BY <1>1, <1>3 DEF WalkInv, ReadBefore, UnreadBehind, InPages
<1>6. MoreBehind'
  <2>1. SUFFICES ASSUME InPages, walk.first.count = "rows", marks \cap {"left", "hollow"} = {},
                        page > 1
                 PROVE  Cardinality(table) > Offset(page)
    BY <1>1, <1>3 DEF MoreBehind, InPages, Offset
  <2>2. Cardinality(counted) > Offset(page)
    BY <2>1, <1>1 DEF WalkInv, MoreBehind
  <2>3. counted \subseteq table
    BY <2>1, <1>1 DEF WalkInv, TotalKept, InPages
  <2>4. /\ Cardinality(counted) \in Nat /\ Cardinality(table) \in Nat
        /\ Cardinality(counted) <= Cardinality(table)
    BY <2>3, SubsetsAreCounted DEF WalkInv, ListingTypeOK
  <2>5. Offset(page) \in Nat
    BY OffsetsGrow DEF WalkInv, ListingTypeOK
  <2>6. QED
    BY <2>2, <2>4, <2>5
<1>7. QED
  BY <1>2, <1>4, <1>5, <1>6 DEF WalkInv

\* A row that comes moves others back, and one that leaves moves them forward.
LEMMA EnterKeeps == ASSUME NEW e \in Rows, WalkInv, Enter(e) PROVE WalkInv'
<1>1. /\ table' = table \cup {e} /\ marks' = marks \cup {"entered"} /\ changes' = changes + 1
      /\ UNCHANGED <<walk, stage, page, counted, total, read, stayed>>
  BY DEF Enter
<1>2. /\ table \in SUBSET Rows /\ table' \in SUBSET Rows /\ table \subseteq table'
      /\ stayed \in SUBSET Rows /\ page \in Nat \ {0}
  BY <1>1 DEF WalkInv, ListingTypeOK
<1>3. ListingTypeOK'
  BY <1>1 DEF WalkInv, ListingTypeOK, Marks
<1>4. PageSize' = PageSize /\ Gone' = Gone
  BY <1>1 DEF PageSize, Gone, Offset
<1>5. Answerable'
  BY <1>1 DEF WalkInv, Answerable, Plan
<1>6. TotalKept'
  BY <1>1, <1>2 DEF WalkInv, TotalKept
<1>7. ReadBefore'
  BY <1>1 DEF ReadBefore
<1>8. UnreadBehind'
  <2>1. SUFFICES ASSUME InPages, walk.first.order = "unique", "left" \notin marks,
                        NEW r \in stayed \ read
                 PROVE  /\ Rank(table', r) >= Gone
                        /\ stage = "counted" => Rank(counted, r) >= Gone
    BY <1>1, <1>4 DEF UnreadBehind, InPages
  <2>2. /\ Rank(table, r) >= Gone
        /\ stage = "counted" => Rank(counted, r) >= Gone
    BY <2>1 DEF WalkInv, UnreadBehind
  <2>3. /\ Rank(table, r) \in Nat /\ Rank(table', r) \in Nat
        /\ Rank(table, r) <= Rank(table', r)
    BY <1>2, RanksGrow
  <2>4. Gone \in Nat
    BY <1>2, OffsetsGrow DEF Gone
  <2>5. QED
    BY <2>2, <2>3, <2>4
<1>9. EndedWhole'
  BY <1>1 DEF WalkInv, EndedWhole
<1>10. MoreBehind'
  <2>1. /\ Cardinality(table) \in Nat /\ Cardinality(table') \in Nat
        /\ Cardinality(table) <= Cardinality(table')
    BY <1>2, SubsetsAreCounted
  <2>2. Offset(page) \in Nat
    BY <1>2, OffsetsGrow
  <2>3. Cardinality(table) > Offset(page) => Cardinality(table') > Offset(page)
    BY <2>1, <2>2
  <2>4. Offset(page)' = Offset(page) /\ Offset(page + 1)' = Offset(page + 1) /\ InPages' = InPages
    BY <1>1, <1>4 DEF Offset, InPages
  <2>5. marks' \cap {"left", "hollow"} = {} => marks \cap {"left", "hollow"} = {}
    BY <1>1
  <2>6. QED
    BY <1>1, <2>3, <2>4, <2>5 DEF WalkInv, MoreBehind
<1>11. QED
  BY <1>3, <1>5, <1>6, <1>7, <1>8, <1>9, <1>10 DEF WalkInv

LEMMA LeaveKeeps == ASSUME NEW e \in Rows, WalkInv, Leave(e) PROVE WalkInv'
<1>1. /\ table' = table \ {e} /\ stayed' = stayed \ {e} /\ marks' = marks \cup {"left"}
      /\ changes' = changes + 1
      /\ UNCHANGED <<walk, stage, page, counted, total, read>>
  BY DEF Leave
<1>2. /\ table \in SUBSET Rows /\ table' \in SUBSET Rows /\ table' \subseteq table
      /\ read \in SUBSET Rows /\ page \in Nat \ {0}
  BY <1>1 DEF WalkInv, ListingTypeOK
<1>3. ListingTypeOK'
  BY <1>1 DEF WalkInv, ListingTypeOK, Marks
<1>4. PageSize' = PageSize /\ Gone' = Gone
  BY <1>1 DEF PageSize, Gone, Offset
<1>5. Answerable'
  BY <1>1 DEF WalkInv, Answerable, Plan
<1>6. TotalKept'
  BY <1>1, <1>2 DEF WalkInv, TotalKept
<1>7. ReadBefore'
  <2>1. SUFFICES ASSUME InPages, walk.first.order = "unique", "entered" \notin marks
                 PROVE  /\ "twice" \notin marks'
                        /\ \A r \in read : Rank(table', r) < Gone
                        /\ stage = "counted" => \A r \in read : Rank(counted, r) < Gone
    BY <1>1, <1>4 DEF ReadBefore, InPages
  <2>2. /\ "twice" \notin marks
        /\ \A r \in read : Rank(table, r) < Gone
        /\ stage = "counted" => \A r \in read : Rank(counted, r) < Gone
    BY <2>1 DEF WalkInv, ReadBefore
  <2>3. Gone \in Nat
    BY <1>2, OffsetsGrow DEF Gone
  <2>4. ASSUME NEW r \in read
        PROVE  Rank(table', r) < Gone
    <3>1. /\ Rank(table, r) \in Nat /\ Rank(table', r) \in Nat
          /\ Rank(table', r) <= Rank(table, r)
      BY <1>2, RanksGrow
    <3>2. QED
      BY <3>1, <2>2, <2>3
  <2>5. QED
    BY <1>1, <2>2, <2>4
<1>8. UnreadBehind' /\ EndedWhole' /\ MoreBehind'
  BY <1>1 DEF UnreadBehind, EndedWhole, MoreBehind
<1>9. QED
  BY <1>3, <1>5, <1>6, <1>7, <1>8 DEF WalkInv

\* What an answer is made from, and what becomes of the walk.
LEMMA SelectPageKeeps == WalkInv /\ SelectPage => WalkInv'
<1> SUFFICES ASSUME WalkInv, SelectPage
             PROVE  WalkInv'
  OBVIOUS
<1> DEFINE first == walk.first
<1>1. /\ stage = "counted"
      /\ UNCHANGED <<table, walk, page, counted, total, stayed, changes>>
  BY DEF SelectPage
<1>2. PICK S \in Found : \E W \in PagesOf(S) :
        \E kept \in IF Plan.drops THEN SUBSET W ELSE {W} :
          /\ stage' = Answered(kept)
          /\ read' = read \cup W
          /\ marks' = marks \cup Mark("torn", S # counted)
                            \cup Mark("twice", W \cap read # {})
                            \cup Mark("hollow", total = 0)
                            \cup Mark("cut", kept = {} /\ W # {})
  BY DEF SelectPage
<1>3. PICK W \in PagesOf(S) :
        \E kept \in IF Plan.drops THEN SUBSET W ELSE {W} :
          /\ stage' = Answered(kept)
          /\ read' = read \cup W
          /\ marks' = marks \cup Mark("torn", S # counted)
                            \cup Mark("twice", W \cap read # {})
                            \cup Mark("hollow", total = 0)
                            \cup Mark("cut", kept = {} /\ W # {})
  BY <1>2
<1>4. PICK kept \in IF Plan.drops THEN SUBSET W ELSE {W} :
          /\ stage' = Answered(kept)
          /\ read' = read \cup W
          /\ marks' = marks \cup Mark("torn", S # counted)
                            \cup Mark("twice", W \cap read # {})
                            \cup Mark("hollow", total = 0)
                            \cup Mark("cut", kept = {} /\ W # {})
  BY <1>3
<1>5. ListingTypeOK
  BY DEF WalkInv
<1>6. ~Plan.refused
  BY <1>1 DEF WalkInv, Answerable
<1>7. /\ Plan = first /\ SetLimit = PageSize
      /\ Paged <=> first.size \in {"default", "own", "void"}
  BY <1>5, <1>6, PlanIsFirst
<1>8. /\ S \in SUBSET Rows /\ stayed \subseteq S
      /\ ~walk.strays => S \in {table, counted}
  BY <1>1, <1>5 DEF WalkInv, TotalKept, Found, Matching, ListingTypeOK
<1>9. W \subseteq S /\ kept \subseteq W
  BY <1>4 DEF PagesOf, PageRows
<1>10. stage' \in {"link", "ended"}
  BY <1>4 DEF Answered
<1>11. /\ marks' \subseteq Marks
       /\ \A m \in {"left", "entered"} : m \in marks' <=> m \in marks
       /\ "torn" \notin marks' => S = counted
       /\ "twice" \in marks' <=> "twice" \in marks \/ W \cap read # {}
       /\ "hollow" \notin marks' => total # 0
       /\ "cut" \notin marks' => kept # {} \/ W = {}
       /\ marks \subseteq marks'
  BY <1>4, <1>5 DEF ListingTypeOK, Marks, Mark
<1>12. /\ page \in Nat \ {0} /\ total \in Nat /\ counted \in SUBSET Rows /\ table \in SUBSET Rows
       /\ read \in SUBSET Rows /\ stayed \in SUBSET Rows
  BY <1>5 DEF ListingTypeOK
<1>13. ListingTypeOK'
  BY <1>1, <1>4, <1>5, <1>8, <1>9, <1>10, <1>11 DEF ListingTypeOK
<1>14. /\ PageSize' = PageSize /\ Gone = Offset(page) /\ Gone' = Offset(page + 1)
       /\ InPages' = InPages
  BY <1>1, <1>10 DEF PageSize, Gone, Offset, InPages
<1>15. /\ PageSize \in Nat \ {0} /\ Offset(page) \in Nat
       /\ Offset(page) = (page - 1) * PageSize
       /\ Offset(page + 1) = page * PageSize
       /\ Offset(page + 1) = Offset(page) + PageSize
       /\ page = 1 => Offset(page) = 0
  BY <1>12, OffsetsGrow DEF Offset
<1>16. /\ InPages => W \in PageRows(S, SortKey[first.order], PageSize, page)
       /\ InPages => Cardinality(W) <= PageSize
       /\ InPages /\ W = {} => Cardinality(S) <= Offset(page)
       /\ InPages /\ first.order = "unique" =>
            \A r \in S : r \in W <=> Offset(page) <= Rank(S, r) /\ Rank(S, r) < Offset(page + 1)
  <2>1. SUFFICES ASSUME InPages
                 PROVE  /\ W \in PageRows(S, SortKey[first.order], PageSize, page)
                        /\ Cardinality(W) <= PageSize
                        /\ W = {} => Cardinality(S) <= Offset(page)
                        /\ first.order = "unique" =>
                             \A r \in S : r \in W <=> /\ Offset(page) <= Rank(S, r)
                                                      /\ Rank(S, r) < Offset(page + 1)
    OBVIOUS
  <2>2. W \in PageRows(S, SortKey[first.order], PageSize, page)
    BY <2>1, <1>7 DEF PagesOf, InPages
  <2>3. Cardinality(W) <= PageSize /\ (W = {} => Cardinality(S) <= (page - 1) * PageSize)
    BY <2>2, <1>8, <1>12, <1>15, PagesAreFull
  <2>4. ASSUME first.order = "unique", NEW r \in S
        PROVE  r \in W <=> Offset(page) <= Rank(S, r) /\ Rank(S, r) < Offset(page + 1)
    <3>1. W \in PageRows(S, UniqueKey, PageSize, page)
      BY <2>2, <2>4 DEF UniqueKey
    <3>2. QED
      BY <3>1, <1>8, <1>12, <1>15, PageRowsByRank
  <2>5. QED
    BY <2>2, <2>3, <2>4, <1>15
<1>17. Answerable'
  <2>1. ~Plan'.refused
    BY <1>1, <1>6 DEF Plan
  <2>2. first.size = "void" => page' = 1 /\ stage' # "link"
    <3>1. SUFFICES ASSUME first.size = "void"
                   PROVE  page = 1 /\ stage' # "link"
      BY <1>1
    <3>2. page = 1 /\ Plan.size = "void"
      BY <3>1, <1>7 DEF WalkInv, Answerable
    <3>3. ~HasNext(page, Cardinality(kept), total, Limit)
      BY <3>2 DEF HasNext, TotalPages, Limit
    <3>4. QED
      BY <3>2, <3>3, <1>4 DEF Answered
  <2>3. "twice" \in marks' => page > 1 /\ ~walk.next.refused
    <3>1. page = 1 => read = {}
      BY <1>1 DEF WalkInv, Answerable
    <3>2. page > 1 => ~walk.next.refused
      BY <1>6, <1>12 DEF Plan
    <3>3. QED
      BY <3>1, <3>2, <1>11, <1>12 DEF WalkInv, Answerable
  <2>4. QED
    BY <2>1, <2>2, <2>3, <1>1, <1>10 DEF Answerable
<1>18. TotalKept'
  BY <1>1, <1>10, <1>11 DEF WalkInv, TotalKept
<1>19. ReadBefore'
  <2>1. SUFFICES ASSUME InPages, first.order = "unique", "entered" \notin marks
                 PROVE  /\ "twice" \notin marks'
                        /\ \A r \in read \cup W : Rank(table, r) < Offset(page + 1)
    BY <1>1, <1>4, <1>10, <1>11, <1>14 DEF ReadBefore
  <2>2. /\ "twice" \notin marks
        /\ \A r \in read : Rank(table, r) < Offset(page)
        /\ \A r \in read : Rank(counted, r) < Offset(page)
    BY <2>1, <1>1, <1>14 DEF WalkInv, ReadBefore
  <2>3. S \in {table, counted} /\ table \subseteq S
    BY <2>1, <1>1, <1>8 DEF WalkInv, TotalKept, InPages
  <2>4. \A r \in read : Rank(S, r) < Offset(page)
    BY <2>2, <2>3
  <2>5. W \cap read = {}
    <3>1. SUFFICES ASSUME NEW r \in W, r \in read
                   PROVE  FALSE
      OBVIOUS
    <3>2. r \in S /\ Offset(page) <= Rank(S, r) /\ Rank(S, r) < Offset(page)
      BY <3>1, <2>1, <2>4, <1>9, <1>16
    <3>3. Rank(S, r) \in Nat
      BY <3>2, <1>8, RanksGrow
    <3>4. QED
      BY <3>2, <3>3, <1>15
  <2>6. ASSUME NEW r \in read \cup W
        PROVE  Rank(table, r) < Offset(page + 1)
    <3>1. r \in Rows /\ Rank(table, r) \in Nat /\ Rank(S, r) \in Nat /\ Rank(table, r) <= Rank(S, r)
      BY <2>3, <1>8, <1>9, <1>12, RanksGrow
    <3>2. CASE r \in read
      BY <3>1, <3>2, <2>2, <1>15
    <3>3. CASE r \in W
      BY <3>1, <3>3, <2>1, <1>9, <1>15, <1>16
    <3>4. QED
      BY <3>2, <3>3
  <2>7. QED
    BY <2>2, <2>5, <2>6, <1>11
<1>20. UnreadBehind'
  <2>1. SUFFICES ASSUME InPages, first.order = "unique", "left" \notin marks,
                        NEW r \in stayed, r \notin read, r \notin W
                 PROVE  Rank(table, r) >= Offset(page + 1)
    BY <1>1, <1>4, <1>10, <1>11, <1>14 DEF UnreadBehind
  <2>2. Rank(table, r) >= Offset(page) /\ Rank(counted, r) >= Offset(page)
    BY <2>1, <1>1, <1>14 DEF WalkInv, UnreadBehind
  <2>3. S \in {table, counted} /\ S \subseteq table
    BY <2>1, <1>1, <1>8 DEF WalkInv, TotalKept, InPages
  <2>4. r \in S /\ r \in Rows
    BY <2>1, <1>8
  <2>5. Rank(table, r) \in Nat /\ Rank(S, r) \in Nat /\ Rank(S, r) <= Rank(table, r)
    BY <2>3, <2>4, <1>12, RanksGrow
  <2>6. Rank(S, r) >= Offset(page)
    BY <2>2, <2>3
  <2>7. Rank(S, r) >= Offset(page + 1)
    BY <2>1, <2>4, <2>5, <2>6, <1>15, <1>16
  <2>8. QED
    BY <2>5, <2>7, <1>15
<1>21. EndedWhole'
  <2>1. SUFFICES ASSUME stage' = "ended", ~walk.strays, first.order = "unique",
                        first.count # "fewer", first.size # "void", "left" \notin marks,
                        "torn" \notin marks', "cut" \notin marks',
                        NEW r \in stayed, r \notin read
                 PROVE  r \in W
    BY <1>1, <1>4, <1>11 DEF EndedWhole
  <2>2. S = counted /\ r \in S /\ r \in Rows
    BY <2>1, <1>8, <1>11
  <2>3. CASE first.size \notin {"default", "own", "void"}
    BY <2>2, <2>3, <1>7 DEF PagesOf
  <2>4. CASE first.size \in {"default", "own"}
    <3>1. InPages
      BY <2>1, <2>4 DEF InPages
    <3>2. /\ Cardinality(S) \in Nat /\ Rank(S, r) \in Nat /\ Rank(S, r) < Cardinality(S)
          /\ Cardinality(kept) \in Nat /\ Cardinality(kept) <= Cardinality(W)
          /\ Cardinality(W) \in Nat
      BY <2>2, <1>8, <1>9, SubsetsAreCounted, RanksGrow
    <3>3. Rank(S, r) >= Offset(page)
      BY <2>1, <2>2, <3>1, <1>1, <1>14 DEF WalkInv, UnreadBehind
    <3>4. W # {} /\ kept # {}
      BY <2>1, <3>1, <3>2, <3>3, <1>11, <1>15, <1>16
    <3>5. ~HasNext(page, Cardinality(kept), total, PageSize)
      BY <2>1, <2>4, <3>4, <1>4, <1>7 DEF Answered, Limit
    <3>6. Cardinality(kept) <= PageSize
      BY <2>1, <3>1, <3>2, <1>15, <1>16
    <3>7. Ceil(total, PageSize) = page
      BY <3>5, <3>6, <1>15 DEF HasNext, TotalPages
    <3>8. total <= Offset(page + 1)
      BY <3>7, <1>12, <1>15, PagesOfTotal
    <3>9. total >= Cardinality(S)
      BY <2>1, <2>2, <1>1 DEF WalkInv, TotalKept
    <3>10. Rank(S, r) < Offset(page + 1)
      BY <3>2, <3>8, <3>9, <1>12, <1>15
    <3>11. QED
      BY <2>1, <2>2, <3>1, <3>3, <3>10, <1>16
  <2>5. QED
    BY <2>1, <2>3, <2>4
<1>22. MoreBehind'
  <2>1. SUFFICES ASSUME InPages, first.count = "rows", "left" \notin marks, "hollow" \notin marks',
                        stage' = "link"
                 PROVE  Cardinality(counted) > Offset(page + 1)
    BY <1>1, <1>10, <1>11, <1>14 DEF MoreBehind, Offset
  <2>2. total = Cardinality(counted) /\ total # 0
    BY <2>1, <1>1, <1>11 DEF WalkInv, TotalKept
  <2>3. total > Offset(page)
    <3>1. CASE page = 1
      BY <3>1, <2>2, <1>12, <1>15
    <3>2. CASE page > 1
      BY <3>2, <2>1, <2>2, <1>1, <1>11 DEF WalkInv, MoreBehind
    <3>3. QED
      BY <3>1, <3>2, <1>12
  <2>4. HasNext(page, Cardinality(kept), total, PageSize)
    <3>1. first.size # "void"
      BY <2>1, <1>17, <1>1 DEF Answerable
    <3>2. QED
      BY <2>1, <3>1, <1>4, <1>7 DEF Answered, Limit, InPages
  <2>5. Cardinality(kept) <= PageSize
    <3>1. /\ Cardinality(kept) \in Nat /\ Cardinality(kept) <= Cardinality(W)
          /\ Cardinality(W) \in Nat
      BY <1>8, <1>9, SubsetsAreCounted
    <3>2. QED
      BY <2>1, <3>1, <1>15, <1>16
  <2>6. Ceil(total, PageSize) # page
    BY <2>4, <2>5, <1>15 DEF HasNext, TotalPages
  <2>7. QED
    BY <2>2, <2>3, <2>6, <1>12, <1>15, PagesOfTotal
<1>23. QED
  BY <1>13, <1>17, <1>18, <1>19, <1>20, <1>21, <1>22 DEF WalkInv

LEMMA WalkStep == WalkInv /\ [ListingNext]_listingVars => WalkInv'
<1> SUFFICES ASSUME WalkInv, [ListingNext]_listingVars
             PROVE  WalkInv'
  OBVIOUS
<1>1. CASE UNCHANGED listingVars
  <2>1. ListingTypeOK' /\ Answerable' /\ TotalKept' /\ EndedWhole' /\ MoreBehind'
    BY <1>1 DEF WalkInv, listingVars, ListingTypeOK, Answerable, TotalKept, EndedWhole,
                MoreBehind, Plan, InPages, Offset, PageSize
  <2>2. ReadBefore' /\ UnreadBehind'
    BY <1>1 DEF WalkInv, listingVars, ReadBefore, UnreadBehind, InPages, Gone, Offset, PageSize
  <2>3. QED
    BY <2>1, <2>2 DEF WalkInv
<1>2. CASE Ask \/ Follow \/ Refuse \/ CountRows \/ QueryFails \/ SelectPage
  BY <1>2, AskKeeps, FollowKeeps, RefuseKeeps, CountRowsKeeps, QueryFailsKeeps, SelectPageKeeps
<1>3. CASE \E r \in Rows : Enter(r) \/ Leave(r)
  BY <1>3, EnterKeeps, LeaveKeeps
<1>4. QED
  BY <1>1, <1>2, <1>3 DEF ListingNext

LEMMA WalkInvIsExact == WalkInv => WalkExact
<1> SUFFICES ASSUME WalkInv
             PROVE  WalkExact
  OBVIOUS
<1>1. ListingTypeOK /\ page \in Nat \ {0}
  BY DEF WalkInv, ListingTypeOK
<1>2. NothingMissed
  <2>1. stage = "ended" => ~Plan.refused
    BY DEF WalkInv, Answerable
  <2>2. QED
    BY <2>1, <1>1, PlanIsFirst DEF WalkInv, EndedWhole, NothingMissed, Sequenced
<1>3. NothingRepeated
  <2>1. SUFFICES ASSUME Sequenced, Paged, "entered" \notin marks, "twice" \in marks
                 PROVE  FALSE
    BY DEF NothingRepeated
  <2>2. page > 1 /\ ~walk.next.refused
    BY <2>1 DEF WalkInv, Answerable
  <2>3. ~Plan.refused
    BY <2>2 DEF Plan
  <2>4. QED
    BY <2>1, <2>3, <1>1, PlanIsFirst DEF WalkInv, ReadBefore, InPages, Sequenced
<1>4. LinkLeadsOn
  <2>1. stage = "link" => ~Plan.refused
    BY DEF WalkInv, Answerable
  <2>2. QED
    BY <2>1, <1>1, PlanIsFirst, OffsetsGrow
       DEF WalkInv, MoreBehind, LinkLeadsOn, InPages
<1>5. QED
  BY <1>2, <1>3, <1>4 DEF WalkExact

\* Every reachable state of a walk is well typed (pagination.service.ts).
THEOREM WalksAreTyped == ListingSpec => []ListingTypeOK
<1>1. WalkInv => ListingTypeOK
  BY DEF WalkInv
<1>2. QED
  BY WalkInit, WalkStep, <1>1, PTL DEF ListingSpec

\* Whatever rows come and go, however many they are and however large a page is, a walk
\* through a sorted listing misses, repeats or promises rows only for the named reasons
\* (pagination.service.ts:13, createPaginatedResult; :89, appendPaginationFilter).
THEOREM WalksAreExact == ListingSpec => []WalkExact
<1>1. QED
  BY WalkInit, WalkStep, WalkInvIsExact, PTL DEF ListingSpec
=============================================================================
