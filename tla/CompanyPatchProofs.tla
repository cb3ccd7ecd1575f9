------------------------- MODULE CompanyPatchProofs -------------------------
(* What the three instructions of a company patch guarantee: the documents of  *)
(* a company (DocumentMove), the accounts of its users (SsoPatch) and its      *)
(* HelloSign application (HelloSignMove), each by itself and in the patch.     *)
EXTENDS CompanyUpdate, TLAPS

-----------------------------------------------------------------------------
(* DocumentMove: documents stay within reach and the instruction is atomic,    *)
(* for any number of files and of failing calls, until a caller is misled.     *)

DocumentTypes ==
    /\ keys \in Layouts
    /\ bucket \in [Keys -> Keys \cup {None}]
    /\ pointer \in [Files -> Keys]
    /\ step \in [Files -> Steps]
    /\ undo \in Seq(UndoAction)
    /\ phase \in Phases

Delete(f) == [kind |-> "delete", file |-> f]

Repoint(f) == [kind |-> "repoint", file |-> f]

\* Before the copy of f is deleted, its pointer goes back.
Ordered(f) ==
    \A i \in DOMAIN undo :
        undo[i] = Delete(f) => \E j \in DOMAIN undo : j > i /\ undo[j] = Repoint(f)

\* A file has its old pointer, or its new one and then the copy is there and
\* stays until the pointer has gone back.
InReach(f) ==
    \/ pointer[f] = OldKey[f]
    \/ /\ pointer[f] = NewKey[f]
       /\ bucket[NewKey[f]] = OldKey[f]
       /\ phase \in {"moving", "done", "undoing"} => Ordered(f)

FileInv(f) ==
    /\ bucket[OldKey[f]] = OldKey[f]
    /\ InReach(f)
    /\ phase = "moving" /\ step[f] # "moved" => pointer[f] = OldKey[f]
    /\ phase = "moving" /\ step[f] = "point" => bucket[NewKey[f]] = OldKey[f]
    /\ \A i \in DOMAIN undo : undo[i] = Delete(f) => ~OntoItself(f)

\* What other files are copied to concerns no file that is apart from them.
ReachInv ==
    /\ DocumentTypes
    /\ \A f \in Files : Apart(f) => FileInv(f)

\* The keys of the files, of which no step changes any.
SameKeys == UNCHANGED <<keys, OldKey, NewKey>>

LEMMA KeysStay == [DocumentNext]_documentVars => SameKeys
BY DEF DocumentNext, documentVars, documentStores, SameKeys, OldKey, NewKey

LEMMA KeysDiffer ==
    ASSUME keys \in Layouts, NEW f \in Files, NEW g \in Files
    PROVE  /\ OldKey[f] \in Keys /\ NewKey[f] \in Keys
           /\ f # g /\ Apart(f) => NewKey[g] # OldKey[f] /\ NewKey[g] # NewKey[f]
BY DocumentAssumption DEF OldKey, NewKey, Apart

LEMMA KeysTypes ==
    ASSUME keys \in Layouts
    PROVE  OldKey \in [Files -> Keys] /\ NewKey \in [Files -> Keys]
BY DocumentAssumption DEF OldKey, NewKey

-----------------------------------------------------------------------------
(* What is known of the calls that went wrong.                               *)

FailuresType == failures \in [FaultKinds -> Nat]

LEMMA FailuresInit == DocumentInit => FailuresType
BY DEF DocumentInit, DocumentStores, FailuresType

\* Every step leaves the counters alone or counts one call.
LEMMA Counting ==
    ASSUME [DocumentNext]_documentVars
    PROVE  UNCHANGED failures \/ \E fault \in Faults : GoesWrong(fault)
<1>1. ASSUME NEW f \in Files, Move(f)
      PROVE  UNCHANGED failures \/ \E fault \in Faults : GoesWrong(fault)
  BY <1>1 DEF Move, CopyObject, CopyFails, UpdatePointer, UpdatePointerFails,
              UpdatePointerMissed, GoesWrong, Failures
<1>2. CASE UndoDocuments
  BY <1>2 DEF UndoDocuments, UndoCopy, UndoPointer, UndoPointerFails, UndoPointerMissed,
              DocumentUndoEnds, UndoEnds, GoesWrong, Failures
<1> QED BY <1>1, <1>2 DEF DocumentNext, SettleFiles, DocumentLater, LaterInstructions, documentVars, documentStores

\* The counters never fall: a caller that was misled remains so.
LEMMA FailuresStep ==
    ASSUME FailuresType, [DocumentNext]_documentVars
    PROVE  FailuresType' /\ (~Misled' => ~Misled)
<1>1. CASE UNCHANGED failures
  BY <1>1 DEF FailuresType, Misled
<1>2. ASSUME NEW fault \in Faults, GoesWrong(fault)
      PROVE  FailuresType' /\ (~Misled' => ~Misled)
  BY <1>2, FaultsAssumption DEF FailuresType, Misled, GoesWrong, Failures, FaultKinds
<1> QED BY <1>1, <1>2, Counting

LEMMA OnlyRefused ==
    ASSUME FailuresType, ~Misled', NEW fault, GoesWrong(fault)
    PROVE  fault = "refused"
BY FaultsAssumption DEF FailuresType, Misled, GoesWrong, Failures, FaultKinds

-----------------------------------------------------------------------------
(* Reach.                                                                    *)

LEMMA ReachInit == DocumentInit => ReachInv
<1> SUFFICES ASSUME DocumentInit
             PROVE  ReachInv
  OBVIOUS
<1>1. PICK layout \in Layouts : DocumentStores(layout)
  BY DEF DocumentInit
<1>2. keys \in Layouts /\ OldKey \in [Files -> Keys]
  BY <1>1, KeysTypes DEF DocumentStores
<1>3. bucket \in [Keys -> Keys \cup {None}] /\ \A f \in Files : bucket[OldKey[f]] = OldKey[f]
  BY <1>1, <1>2 DEF DocumentStores
<1>4. undo = <<>> /\ undo \in Seq(UndoAction)
  BY DEF DocumentInit
<1>5. /\ pointer \in [Files -> Keys] /\ step \in [Files -> Steps] /\ phase \in Phases
      /\ \A f \in Files : pointer[f] = OldKey[f] /\ step[f] = "copy"
  BY <1>1, <1>2 DEF DocumentInit, DocumentStores, Steps, Phases
<1> QED BY <1>2, <1>3, <1>4, <1>5 DEF ReachInv, FileInv, DocumentTypes, InReach

\* What a push does to the stack.
LEMMA DocumentPushed ==
    ASSUME undo \in Seq(UndoAction), NEW f \in Files, NEW kind \in {"delete", "repoint"},
           Push(kind, f)
    PROVE  /\ undo' \in Seq(UndoAction)
           /\ Len(undo') = Len(undo) + 1
           /\ undo'[Len(undo) + 1] = [kind |-> kind, file |-> f]
           /\ \A i \in 1 .. Len(undo) : undo'[i] = undo[i]
<1>1. [kind |-> kind, file |-> f] \in UndoAction
  BY DEF UndoAction
<1> QED BY <1>1 DEF Push

\* What a pop does to it.
LEMMA PoppedStack ==
    ASSUME undo \in Seq(UndoAction), undo # <<>>
    PROVE  /\ Top \in UndoAction /\ Len(undo) \in Nat \ {0}
           /\ Popped \in Seq(UndoAction)
           /\ Len(Popped) = Len(undo) - 1
           /\ \A i \in 1 .. Len(undo) - 1 : Popped[i] = undo[i]
<1>1. Len(undo) \in Nat \ {0} /\ DOMAIN undo = 1 .. Len(undo)
  OBVIOUS
<1>2. Top \in UndoAction
  BY <1>1 DEF Top
<1>3. Popped = [i \in 1 .. Len(undo) - 1 |-> undo[i]]
  BY <1>1 DEF Popped
<1>4. Len(undo) - 1 \in Nat /\ \A i \in 1 .. Len(undo) - 1 : undo[i] \in UndoAction
  BY <1>1
<1> QED BY <1>1, <1>2, <1>3, <1>4

LEMMA PushKeepsOrder ==
    ASSUME undo \in Seq(UndoAction), NEW f \in Files, NEW g \in Files,
           NEW kind \in {"delete", "repoint"}, Push(kind, f), Ordered(g),
           kind = "delete" => f # g
    PROVE  Ordered(g)'
<1> SUFFICES ASSUME NEW i \in DOMAIN undo', undo'[i] = Delete(g)
             PROVE  \E j \in DOMAIN undo' : j > i /\ undo'[j] = Repoint(g)
  BY DEF Ordered
<1>1. /\ undo' \in Seq(UndoAction) /\ Len(undo') = Len(undo) + 1
      /\ undo'[Len(undo) + 1] = [kind |-> kind, file |-> f]
      /\ \A k \in 1 .. Len(undo) : undo'[k] = undo[k]
  BY DocumentPushed
<1>2. undo'[Len(undo) + 1] # Delete(g)
  BY <1>1 DEF Delete
<1>3. i \in 1 .. Len(undo)
  BY <1>1, <1>2
<1>4. PICK j \in DOMAIN undo : j > i /\ undo[j] = Repoint(g)
  BY <1>1, <1>3 DEF Ordered
<1> QED BY <1>1, <1>4

LEMMA PopKeepsOrder ==
    ASSUME undo \in Seq(UndoAction), undo # <<>>, undo' = Popped, NEW g \in Files,
           Ordered(g), Top # Repoint(g)
    PROVE  Ordered(g)'
<1> SUFFICES ASSUME NEW i \in DOMAIN undo', undo'[i] = Delete(g)
             PROVE  \E j \in DOMAIN undo' : j > i /\ undo'[j] = Repoint(g)
  BY DEF Ordered
<1>1. /\ Len(undo) \in Nat \ {0} /\ undo' \in Seq(UndoAction) /\ Len(undo') = Len(undo) - 1
      /\ \A k \in 1 .. Len(undo) - 1 : undo'[k] = undo[k]
  BY PoppedStack
<1>2. i \in 1 .. Len(undo) - 1 /\ undo[i] = Delete(g)
  BY <1>1
<1>3. PICK j \in DOMAIN undo : j > i /\ undo[j] = Repoint(g)
  BY <1>2 DEF Ordered
<1>4. j # Len(undo)
  BY <1>3 DEF Top
<1> QED BY <1>1, <1>3, <1>4

\* What a push and a pop do to the actions that delete the copy of g.
LEMMA DeletesStay ==
    ASSUME undo \in Seq(UndoAction), NEW g \in Files,
           \/ UNCHANGED undo
           \/ undo # <<>> /\ undo' = Popped
           \/ \E f \in Files : Push("repoint", f) \/ (Push("delete", f) /\ f # g),
           NEW i \in DOMAIN undo', undo'[i] = Delete(g)
    PROVE  \E j \in DOMAIN undo : undo[j] = Delete(g)
<1>1. CASE undo # <<>> /\ undo' = Popped
  BY <1>1, PoppedStack
<1>2. ASSUME NEW f \in Files, Push("repoint", f) \/ (Push("delete", f) /\ f # g)
      PROVE  \E j \in DOMAIN undo : undo[j] = Delete(g)
  <2>1. PICK kind \in {"delete", "repoint"} :
           Push(kind, f) /\ (kind = "delete" => f # g)
    BY <1>2
  <2>2. /\ undo' \in Seq(UndoAction) /\ Len(undo') = Len(undo) + 1
        /\ undo'[Len(undo) + 1] = [kind |-> kind, file |-> f]
        /\ \A k \in 1 .. Len(undo) : undo'[k] = undo[k]
    BY <2>1, DocumentPushed
  <2>3. undo'[Len(undo) + 1] # Delete(g)
    BY <2>1, <2>2 DEF Delete
  <2> QED BY <2>2, <2>3
<1> QED BY <1>1, <1>2

LEMMA CopyStep ==
    ASSUME ReachInv, SameKeys, NEW f \in Files, CopyObject(f)
    PROVE  ReachInv'
<1> USE DEF CopyObject, Moving, Advance, Copied, SameKeys
<1>1. DocumentTypes
  BY DEF ReachInv
<1>2. /\ bucket' \in [Keys -> Keys \cup {None}] /\ bucket'[NewKey[f]] = bucket[OldKey[f]]
      /\ \A k \in Keys : k # NewKey[f] => bucket'[k] = bucket[k]
  BY <1>1, KeysDiffer DEF DocumentTypes
<1>3. DocumentTypes'
  BY <1>1, <1>2, DocumentPushed DEF DocumentTypes, Steps
<1>4. ASSUME NEW g \in Files, Apart(g)
      PROVE  FileInv(g)'
  <2>1. FileInv(g)
    BY <1>4 DEF ReachInv
  <2>2. /\ bucket'[OldKey[g]] = OldKey[g]
        /\ g # f => bucket'[NewKey[g]] = bucket[NewKey[g]]
        /\ g = f => bucket'[NewKey[g]] = OldKey[g]
    BY <1>1, <1>2, <1>4, <2>1, KeysDiffer DEF FileInv, OntoItself, DocumentTypes
  <2>3. step'[g] = IF g = f THEN "point" ELSE step[g]
    BY <1>1, <1>4 DEF DocumentTypes
  <2>4. g = f => pointer[g] = OldKey[g]
    BY <2>1 DEF FileInv
  <2>5. InReach(g)'
    <3>1. CASE pointer[g] = OldKey[g]
      BY <3>1 DEF InReach
    <3>2. CASE pointer[g] # OldKey[g]
      <4>1. g # f /\ pointer[g] = NewKey[g] /\ bucket[NewKey[g]] = OldKey[g] /\ Ordered(g)
        BY <2>1, <2>4, <3>2 DEF FileInv, InReach
      <4>2. Ordered(g)'
        BY <1>1, <1>4, <4>1, PushKeepsOrder DEF DocumentTypes
      <4> QED BY <2>2, <4>1, <4>2 DEF InReach
    <3> QED BY <3>1, <3>2
  <2>6. ASSUME NEW i \in DOMAIN undo', undo'[i] = Delete(g)
        PROVE  ~OntoItself(g)
    <3>1. CASE g # f
      <4>1. \E j \in DOMAIN undo : undo[j] = Delete(g)
        BY <1>1, <2>6, <3>1, DeletesStay DEF DocumentTypes
      <4> QED BY <2>1, <4>1 DEF FileInv
    <3> QED BY <3>1
  <2>7. UNCHANGED OntoItself(g)
    BY DEF OntoItself
  <2> QED BY <2>1, <2>2, <2>3, <2>4, <2>5, <2>6, <2>7 DEF FileInv
<1>5. \A g \in Files : UNCHANGED Apart(g)
  BY DEF Apart
<1> QED BY <1>3, <1>4, <1>5 DEF ReachInv

LEMMA PointStep ==
    ASSUME ReachInv, SameKeys, NEW f \in Files, UpdatePointer(f)
    PROVE  ReachInv'
<1> USE DEF UpdatePointer, Moving, Advance, Pointed, SameKeys
<1>1. DocumentTypes
  BY DEF ReachInv
<1>2. DocumentTypes'
  BY <1>1, DocumentPushed, KeysDiffer DEF DocumentTypes, Steps
<1>3. ASSUME NEW g \in Files, Apart(g)
      PROVE  FileInv(g)'
  <2>1. FileInv(g)
    BY <1>3 DEF ReachInv
  <2>2. /\ pointer'[g] = IF g = f THEN NewKey[f] ELSE pointer[g]
        /\ step'[g] = IF g = f THEN "moved" ELSE step[g]
    BY <1>1, <1>3 DEF DocumentTypes
  <2>3. InReach(g)'
    <3>1. CASE g = f
      <4>1. bucket[NewKey[f]] = OldKey[f]
        BY <2>1, <3>1 DEF FileInv
      <4>2. Ordered(f)'
        <5>1. /\ undo' \in Seq(UndoAction) /\ Len(undo') = Len(undo) + 1
              /\ undo'[Len(undo) + 1] = Repoint(f)
          BY <1>1, DocumentPushed DEF DocumentTypes, Repoint
        <5>2. Len(undo) + 1 \in DOMAIN undo' /\ Repoint(f) # Delete(f)
          BY <1>1, <5>1 DEF DocumentTypes, Repoint, Delete
        <5> QED BY <1>1, <5>1, <5>2 DEF Ordered, DocumentTypes
      <4> QED BY <2>2, <3>1, <4>1, <4>2 DEF InReach
    <3>2. CASE g # f
      <4>1. Ordered(g) => Ordered(g)'
        BY <1>1, <1>3, PushKeepsOrder DEF DocumentTypes
      <4> QED BY <2>1, <2>2, <3>2, <4>1 DEF FileInv, InReach
    <3> QED BY <3>1, <3>2
  <2>4. (\A i \in DOMAIN undo' : undo'[i] = Delete(g) => ~OntoItself(g)) /\ UNCHANGED OntoItself(g)
    BY <1>1, <1>3, <2>1, DeletesStay DEF DocumentTypes, FileInv, OntoItself
  <2> QED BY <2>1, <2>2, <2>3, <2>4 DEF FileInv
<1>4. \A g \in Files : UNCHANGED Apart(g)
  BY DEF Apart
<1> QED BY <1>2, <1>3, <1>4 DEF ReachInv

LEMMA FailStep ==
    ASSUME FailuresType, ~Misled', ReachInv, SameKeys, NEW f \in Files,
           CopyFails(f) \/ UpdatePointerFails(f)
    PROVE  ReachInv'
<1>1. /\ UNCHANGED <<bucket, pointer, undo, phase, keys, OldKey, NewKey>>
      /\ step' = [step EXCEPT ![f] = "failed"]
  BY OnlyRefused DEF CopyFails, UpdatePointerFails, Advance, SameKeys
<1>2. DocumentTypes /\ DocumentTypes'
  BY <1>1 DEF ReachInv, DocumentTypes, Steps
<1>3. step[f] \in {"copy", "point"} /\ phase = "moving"
  BY DEF CopyFails, UpdatePointerFails, Moving
<1>4. ASSUME NEW g \in Files, Apart(g)
      PROVE  FileInv(g)'
  <2>1. FileInv(g)
    BY <1>4 DEF ReachInv
  <2>2. step'[g] = IF g = f THEN "failed" ELSE step[g]
    BY <1>1, <1>2, <1>4 DEF DocumentTypes
  <2>3. InReach(g)' /\ UNCHANGED OntoItself(g)
    BY <1>1, <2>1 DEF FileInv, InReach, Ordered, OntoItself
  <2> QED BY <1>1, <1>3, <2>1, <2>2, <2>3 DEF FileInv
<1>5. \A g \in Files : UNCHANGED Apart(g)
  BY <1>1 DEF Apart
<1> QED BY <1>2, <1>4, <1>5 DEF ReachInv

LEMMA PhaseStep ==
    ASSUME ReachInv, SameKeys, SettleFiles \/ DocumentLater \/ DocumentUndoEnds
    PROVE  ReachInv'
<1>1. /\ UNCHANGED <<bucket, pointer, step, undo, keys, OldKey, NewKey>>
      /\ phase \in {"moving", "done", "undoing"}
      /\ phase' \in Phases \ {"moving"}
  BY DEF SettleFiles, DocumentLater, LaterInstructions, DocumentUndoEnds, UndoEnds, Phases, SameKeys
<1>2. \A g \in Files : UNCHANGED <<Apart(g), OntoItself(g)>>
  BY <1>1 DEF Apart, OntoItself
<1>3. DocumentTypes'
  BY <1>1 DEF ReachInv, DocumentTypes
<1>4. ASSUME NEW g \in Files, FileInv(g)
      PROVE  FileInv(g)'
  BY <1>1, <1>2, <1>4 DEF FileInv, InReach, Ordered
<1> QED BY <1>2, <1>3, <1>4 DEF ReachInv

LEMMA UndoCopyStep ==
    ASSUME ReachInv, SameKeys, UndoCopy
    PROVE  ReachInv'
<1> DEFINE h == Top.file
<1>1. DocumentTypes /\ undo # <<>> /\ undo' = Popped /\ phase = "undoing"
  BY DEF ReachInv, UndoCopy, UndoingKind
<1>2. h \in Files /\ Top = Delete(h)
  BY <1>1, PoppedStack DEF DocumentTypes, UndoAction, Delete, UndoCopy, UndoingKind
<1>3. /\ bucket' \in [Keys -> Keys \cup {None}]
      /\ \A k \in Keys : k # NewKey[h] => bucket'[k] = bucket[k]
  BY <1>1, <1>2, KeysDiffer DEF DocumentTypes, UndoCopy, SameKeys
<1>4. DocumentTypes'
  BY <1>1, <1>3, PoppedStack DEF DocumentTypes, UndoCopy, SameKeys
<1>5. ~Ordered(h)
  <2>1. Len(undo) \in DOMAIN undo /\ undo[Len(undo)] = Delete(h)
    BY <1>1, <1>2, PoppedStack DEF DocumentTypes, Top
  <2> QED BY <1>1, <2>1 DEF Ordered, DocumentTypes
<1>6. ASSUME NEW g \in Files, Apart(g)
      PROVE  FileInv(g)'
  <2>1. FileInv(g)
    BY <1>6 DEF ReachInv
  <2>0. \E i \in DOMAIN undo : undo[i] = Delete(h)
    BY <1>1, <1>2, PoppedStack DEF DocumentTypes, Top
  <2>2. /\ bucket'[OldKey[g]] = bucket[OldKey[g]]
        /\ g # h => bucket'[NewKey[g]] = bucket[NewKey[g]]
    BY <1>1, <1>2, <1>3, <1>6, <2>0, <2>1, KeysDiffer DEF DocumentTypes, FileInv, OntoItself
  <2>3. Ordered(g) => g # h /\ Ordered(g)'
    BY <1>1, <1>2, <1>5, <1>6, PopKeepsOrder DEF DocumentTypes, Delete, Repoint
  <2>4. UNCHANGED <<pointer, step, phase, OldKey, NewKey>>
    BY DEF UndoCopy, SameKeys
  <2>5. (\A i \in DOMAIN undo' : undo'[i] = Delete(g) => ~OntoItself(g)) /\ UNCHANGED OntoItself(g)
    BY <1>1, <1>6, <2>1, <2>4, DeletesStay DEF DocumentTypes, FileInv, OntoItself
  <2> QED BY <1>1, <2>1, <2>2, <2>3, <2>4, <2>5 DEF FileInv, InReach
<1>7. \A g \in Files : UNCHANGED Apart(g)
  BY DEF Apart, SameKeys
<1> QED BY <1>4, <1>6, <1>7 DEF ReachInv

LEMMA UndoPointerStep ==
    ASSUME ReachInv, SameKeys, UndoPointer
    PROVE  ReachInv'
<1> DEFINE h == Top.file
<1>1. DocumentTypes /\ undo # <<>> /\ undo' = Popped /\ phase = "undoing"
  BY DEF ReachInv, UndoPointer, UndoingKind
<1>2. h \in Files /\ Top = Repoint(h)
  BY <1>1, PoppedStack DEF DocumentTypes, UndoAction, Repoint, UndoPointer, UndoingKind
<1>3. UNCHANGED <<bucket, step, phase, keys, OldKey, NewKey>> /\ pointer' = [pointer EXCEPT ![h] = OldKey[h]]
  BY DEF UndoPointer, Pointed, SameKeys
<1>4. DocumentTypes'
  BY <1>1, <1>2, <1>3, PoppedStack, KeysDiffer DEF DocumentTypes
<1>5. ASSUME NEW g \in Files, Apart(g)
      PROVE  FileInv(g)'
  <2>1. FileInv(g)
    BY <1>5 DEF ReachInv
  <2>2. pointer'[g] = IF g = h THEN OldKey[g] ELSE pointer[g]
    BY <1>1, <1>3, <1>5 DEF DocumentTypes
  <2>3. g # h => (Ordered(g) => Ordered(g)')
    BY <1>1, <1>2, <1>5, PopKeepsOrder DEF DocumentTypes, Repoint
  <2>4. (\A i \in DOMAIN undo' : undo'[i] = Delete(g) => ~OntoItself(g)) /\ UNCHANGED OntoItself(g)
    BY <1>1, <1>3, <1>5, <2>1, DeletesStay DEF DocumentTypes, FileInv, OntoItself
  <2> QED BY <1>1, <1>3, <2>1, <2>2, <2>3, <2>4 DEF FileInv, InReach
<1>6. \A g \in Files : UNCHANGED Apart(g)
  BY <1>3 DEF Apart
<1> QED BY <1>4, <1>5, <1>6 DEF ReachInv

LEMMA AbandonStep ==
    ASSUME FailuresType, ~Misled', ReachInv, SameKeys, UndoPointerFails
    PROVE  ReachInv'
<1>1. /\ UNCHANGED <<bucket, pointer, step, keys, OldKey, NewKey>> /\ undo' = Popped /\ undo # <<>>
      /\ phase = "undoing" /\ phase' = "abandoned"
  BY OnlyRefused DEF UndoPointerFails, UndoingKind, SameKeys
<1>2. DocumentTypes /\ DocumentTypes'
  BY <1>1, PoppedStack DEF ReachInv, DocumentTypes, Phases
<1>3. ASSUME NEW g \in Files, FileInv(g)
      PROVE  FileInv(g)'
  <2>1. (\A i \in DOMAIN undo' : undo'[i] = Delete(g) => ~OntoItself(g)) /\ UNCHANGED OntoItself(g)
    BY <1>1, <1>2, <1>3, DeletesStay DEF DocumentTypes, FileInv, OntoItself
  <2> QED BY <1>1, <1>3, <2>1 DEF FileInv, InReach
<1>4. \A g \in Files : UNCHANGED Apart(g)
  BY <1>1 DEF Apart
<1> QED BY <1>2, <1>3, <1>4 DEF ReachInv

LEMMA ReachStep ==
    ASSUME FailuresType, ~Misled', ReachInv, [DocumentNext]_documentVars
    PROVE  ReachInv'
<1>0. SameKeys
  BY KeysStay
<1>1. ASSUME NEW f \in Files, Move(f)
      PROVE  ReachInv'
  BY <1>0, <1>1, OnlyRefused, CopyStep, PointStep, FailStep DEF Move, UpdatePointerMissed
<1>2. CASE SettleFiles \/ DocumentLater
  BY <1>0, <1>2, PhaseStep
<1>3. CASE UndoDocuments
  BY <1>0, <1>3, OnlyRefused, UndoCopyStep, UndoPointerStep, AbandonStep, PhaseStep
     DEF UndoDocuments, UndoPointerMissed
<1>4. CASE UNCHANGED documentVars
  BY <1>0, <1>4 DEF documentVars, documentStores, SameKeys, ReachInv, FileInv, DocumentTypes, InReach,
                    Ordered, Apart, OntoItself
<1> QED BY <1>1, <1>2, <1>3, <1>4 DEF DocumentNext

LEMMA FoundIfNotMisled == DocumentSpec => []FoundUnlessMisled
<1> DEFINE DocumentInv == FailuresType /\ (~Misled => ReachInv)
<1>1. DocumentInit => DocumentInv
  BY ReachInit, FailuresInit
<1>2. DocumentInv /\ [DocumentNext]_documentVars => DocumentInv'
  BY ReachStep, FailuresStep
<1>3. DocumentInv => FoundUnlessMisled
  BY DEF ReachInv, FileInv, InReach, DocumentsFound, FoundUnlessMisled
<1> QED BY <1>1, <1>2, <1>3, PTL DEF DocumentSpec

-----------------------------------------------------------------------------
(* Before a rollback, whatever goes wrong: a pointer moves only after its copy. *)

DocumentForward == phase \in {"moving", "done", "committed"}

CopiedFirst ==
    /\ DocumentTypes
    /\ DocumentForward => \A f \in Files : Apart(f) =>
          /\ bucket[OldKey[f]] = OldKey[f]
          /\ pointer[f] \in {OldKey[f], NewKey[f]}
          /\ pointer[f] = NewKey[f] => bucket[NewKey[f]] = OldKey[f]
          /\ phase = "moving" /\ step[f] = "point" => bucket[NewKey[f]] = OldKey[f]

LEMMA MoveCopiesFirst ==
    ASSUME CopiedFirst, SameKeys, NEW f \in Files, Move(f)
    PROVE  CopiedFirst'
<1>1. /\ phase = "moving" /\ phase' = phase /\ DocumentForward
      /\ bucket' = bucket \/ Copied(f)
      /\ pointer' = pointer \/ (Pointed(f, NewKey[f]) /\ step[f] = "point")
      /\ \/ step[f] = "copy" /\ Copied(f) /\ Advance(f, "point")
         \/ Advance(f, "failed") \/ Advance(f, "moved")
  BY DEF Move, CopyObject, CopyFails, UpdatePointer, UpdatePointerFails, UpdatePointerMissed,
         Moving, DocumentForward
<1>2. undo' \in Seq(UndoAction)
  BY DocumentPushed DEF Move, CopyObject, CopyFails, UpdatePointer, UpdatePointerFails,
                UpdatePointerMissed, CopiedFirst, DocumentTypes
<1>3. DocumentTypes'
  BY <1>1, <1>2, KeysDiffer DEF CopiedFirst, DocumentTypes, Copied, Pointed, Advance, Steps, SameKeys
<1>4. ASSUME NEW g \in Files, Apart(g)
      PROVE  /\ bucket'[OldKey[g]] = OldKey[g]
             /\ bucket[NewKey[g]] = OldKey[g] => bucket'[NewKey[g]] = OldKey[g]
             /\ g = f /\ Copied(f) => bucket'[NewKey[f]] = OldKey[f]
             /\ pointer'[g] = pointer[g] \/ (g = f /\ pointer'[g] = NewKey[f] /\ step[f] = "point")
             /\ step'[g] = "point" => step[g] = "point" \/ (g = f /\ Copied(f))
  BY <1>1, <1>4, KeysDiffer DEF CopiedFirst, DocumentTypes, Copied, Pointed, Advance
<1>5. ASSUME NEW g \in Files, Apart(g)
      PROVE  /\ bucket'[OldKey[g]] = OldKey[g]
             /\ pointer'[g] \in {OldKey[g], NewKey[g]}
             /\ pointer'[g] = NewKey[g] => bucket'[NewKey[g]] = OldKey[g]
             /\ step'[g] = "point" => bucket'[NewKey[g]] = OldKey[g]
  BY <1>1, <1>4, <1>5, KeysDiffer DEF CopiedFirst
<1>6. \A g \in Files : UNCHANGED Apart(g)
  BY DEF Apart, SameKeys
<1> QED BY <1>1, <1>3, <1>5, <1>6 DEF CopiedFirst, SameKeys

LEMMA CopiedFirstStep ==
    ASSUME CopiedFirst, [DocumentNext]_documentVars
    PROVE  CopiedFirst'
<1>0. SameKeys /\ \A g \in Files : UNCHANGED Apart(g)
  BY KeysStay DEF Apart, SameKeys
<1>1. CASE \E f \in Files : Move(f)
  BY <1>0, <1>1, MoveCopiesFirst
<1>2. CASE SettleFiles \/ DocumentLater
  BY <1>0, <1>2 DEF SameKeys, CopiedFirst, DocumentTypes, DocumentForward, SettleFiles, DocumentLater, LaterInstructions, Phases
<1>3. CASE UndoDocuments
  <2>1. phase' \in Phases /\ ~DocumentForward' /\ step' = step
    BY <1>3 DEF UndoDocuments, UndoCopy, UndoPointer, UndoPointerFails, UndoPointerMissed, DocumentUndoEnds, UndoEnds,
                UndoingKind, DocumentForward, Phases, CopiedFirst, DocumentTypes
  <2>2. undo # <<>> => Top.file \in Files
    BY PoppedStack DEF CopiedFirst, DocumentTypes, UndoAction
  <2>3. undo' \in Seq(UndoAction)
    BY <1>3, PoppedStack DEF UndoDocuments, UndoCopy, UndoPointer, UndoPointerFails,
       UndoPointerMissed, DocumentUndoEnds, UndoEnds, UndoingKind, CopiedFirst, DocumentTypes
  <2>4. bucket' \in [Keys -> Keys \cup {None}] /\ pointer' \in [Files -> Keys]
    BY <1>3, <2>2, KeysDiffer DEF UndoDocuments, UndoCopy, UndoPointer, UndoPointerFails,
       UndoPointerMissed, DocumentUndoEnds, UndoEnds, UndoingKind, Pointed, CopiedFirst, DocumentTypes
  <2> QED BY <1>0, <2>1, <2>3, <2>4 DEF CopiedFirst, DocumentTypes, SameKeys
<1>4. CASE UNCHANGED documentVars
  BY <1>0, <1>4 DEF SameKeys, documentVars, documentStores, CopiedFirst, DocumentTypes, DocumentForward
<1> QED BY <1>1, <1>2, <1>3, <1>4 DEF DocumentNext

\* Whatever keys the files have and get: as long as callers are not misled every
\* document with keys that the move of no other file writes to is at the key its metadata
\* names, at every moment of the instruction and of its rollback, a rollback
\* abandoned half way included; and before a rollback, whatever goes wrong.
THEOREM DocumentsInReach == DocumentSpec => []FoundThroughout
<1>1. DocumentInit => CopiedFirst
  <2> SUFFICES ASSUME DocumentInit
               PROVE  CopiedFirst
    OBVIOUS
  <2>1. ReachInv /\ \A f \in Files : pointer[f] = OldKey[f] /\ step[f] = "copy"
    BY ReachInit DEF ReachInv, DocumentTypes, DocumentInit, DocumentStores
  <2> QED BY <2>1 DEF ReachInv, FileInv, CopiedFirst
<1>2. CopiedFirst /\ [DocumentNext]_documentVars => CopiedFirst'
  BY CopiedFirstStep
<1>3. CopiedFirst => FoundUntilUndone
  BY DEF CopiedFirst, DocumentForward, FoundUntilUndone, DocumentsFound
<1>4. FoundUnlessMisled /\ FoundUntilUndone => FoundThroughout
  BY DEF FoundThroughout
<1> QED BY <1>1, <1>2, <1>3, <1>4, FoundIfNotMisled, PTL DEF DocumentSpec

-----------------------------------------------------------------------------
(* Atomicity.                                                                *)

\* A pointer that was changed can still be put back.
Revocable(f) == pointer[f] # OldKey[f] => \E j \in DOMAIN undo : undo[j] = Repoint(f)

UndoInv ==
    /\ phase \in {"moving", "done", "undoing"} => \A f \in Files : Revocable(f)
    /\ phase = "undone" => pointer = OldKey
    /\ phase = "moving" => \A f \in Files : step[f] = "moved" => pointer[f] = NewKey[f]
    /\ phase \in {"done", "committed"} => \A f \in Files : pointer[f] = NewKey[f]

LEMMA UndoInit == DocumentInit => UndoInv
BY KeysTypes DEF DocumentInit, DocumentStores, UndoInv, Revocable

LEMMA ForwardKeepsUndo ==
    ASSUME FailuresType, ~Misled', ReachInv, UndoInv, SameKeys, NEW f \in Files, Move(f)
    PROVE  UndoInv'
<1>1. DocumentTypes /\ phase = "moving" /\ phase' = "moving"
  BY DEF ReachInv, Move, CopyObject, CopyFails, UpdatePointer, UpdatePointerFails,
         UpdatePointerMissed, Moving
<1>2. ASSUME NEW g \in Files
      PROVE  Revocable(g)'
  <2>1. Revocable(g)
    BY <1>1, <1>2 DEF UndoInv
  <2>2. CASE CopyObject(f)
    <3>1. /\ undo' \in Seq(UndoAction) /\ Len(undo') = Len(undo) + 1
          /\ \A i \in 1 .. Len(undo) : undo'[i] = undo[i]
      BY <1>1, <2>2, DocumentPushed DEF CopyObject, DocumentTypes
    <3>2. pointer' = pointer /\ DOMAIN undo \subseteq DOMAIN undo'
      BY <1>1, <2>2, <3>1 DEF CopyObject, DocumentTypes
    <3> QED BY <1>1, <2>1, <3>1, <3>2 DEF Revocable, DocumentTypes, SameKeys
  <2>3. CASE UpdatePointer(f)
    <3>1. /\ undo' \in Seq(UndoAction) /\ Len(undo') = Len(undo) + 1
          /\ undo'[Len(undo) + 1] = Repoint(f)
          /\ \A i \in 1 .. Len(undo) : undo'[i] = undo[i]
      BY <1>1, <2>3, DocumentPushed DEF UpdatePointer, DocumentTypes, Repoint
    <3>2. g # f => pointer'[g] = pointer[g]
      BY <1>1, <1>2, <2>3 DEF UpdatePointer, Pointed, DocumentTypes
    <3>3. Len(undo) + 1 \in DOMAIN undo' /\ DOMAIN undo \subseteq DOMAIN undo'
      BY <1>1, <3>1 DEF DocumentTypes
    <3> QED BY <1>1, <2>1, <3>1, <3>2, <3>3 DEF Revocable, DocumentTypes, SameKeys
  <2>4. CASE CopyFails(f) \/ UpdatePointerFails(f)
    BY <2>1, <2>4, OnlyRefused DEF CopyFails, UpdatePointerFails, Revocable, SameKeys
  <2> QED BY <2>2, <2>3, <2>4, OnlyRefused DEF Move, UpdatePointerMissed
<1>3. ASSUME NEW g \in Files, step'[g] = "moved"
      PROVE  pointer'[g] = NewKey[g]
  <2>1. step[g] = "moved" => pointer[g] = NewKey[g]
    BY <1>1, <1>3 DEF UndoInv
  <2>2. CASE UpdatePointer(f)
    BY <1>1, <1>3, <2>1, <2>2 DEF UpdatePointer, Advance, Pointed, DocumentTypes, SameKeys
  <2>3. CASE CopyObject(f)
    BY <1>1, <1>3, <2>1, <2>3 DEF CopyObject, Advance, DocumentTypes, SameKeys
  <2>4. CASE CopyFails(f) \/ UpdatePointerFails(f)
    BY <1>1, <1>3, <2>1, <2>4, OnlyRefused DEF CopyFails, UpdatePointerFails, Advance, DocumentTypes, SameKeys
  <2> QED BY <2>2, <2>3, <2>4, OnlyRefused DEF Move, UpdatePointerMissed
<1> QED BY <1>1, <1>2, <1>3 DEF UndoInv, SameKeys

LEMMA RollbackKeepsUndo ==
    ASSUME ReachInv, UndoInv, SameKeys, UndoCopy \/ UndoPointer
    PROVE  UndoInv'
<1> DEFINE h == Top.file
<1>1. /\ DocumentTypes /\ undo # <<>> /\ undo' = Popped
      /\ phase = "undoing" /\ phase' = "undoing"
  BY DEF ReachInv, UndoCopy, UndoPointer, UndoingKind
<1>2. /\ Len(undo) \in Nat \ {0} /\ undo' \in Seq(UndoAction) /\ Len(undo') = Len(undo) - 1
      /\ \A i \in 1 .. Len(undo) - 1 : undo'[i] = undo[i]
      /\ Top \in UndoAction
  BY <1>1, PoppedStack DEF DocumentTypes
<1>3. ASSUME NEW g \in Files
      PROVE  Revocable(g)'
  <2>1. Revocable(g)
    BY <1>1, <1>3 DEF UndoInv
  <2>2. CASE Top = Repoint(g)
    <3>1. h = g /\ UndoPointer
      BY <2>2 DEF Repoint, UndoCopy, UndoPointer, UndoingKind
    <3> QED BY <1>1, <1>3, <3>1 DEF UndoPointer, Pointed, Revocable, DocumentTypes, SameKeys
  <2>3. CASE Top # Repoint(g)
    <3>1. pointer'[g] = pointer[g] \/ pointer'[g] = OldKey[g]
      BY <1>1, <1>3 DEF UndoCopy, UndoPointer, Pointed, DocumentTypes
    <3>2. CASE pointer[g] # OldKey[g]
      <4>1. PICK j \in DOMAIN undo : undo[j] = Repoint(g)
        BY <2>1, <3>2 DEF Revocable
      <4>2. j # Len(undo)
        BY <2>3, <4>1 DEF Top
      <4>3. j \in DOMAIN undo' /\ undo'[j] = Repoint(g)
        BY <1>1, <1>2, <4>1, <4>2 DEF DocumentTypes
      <4> QED BY <3>2, <4>3 DEF Revocable, SameKeys
    <3>3. CASE pointer[g] = OldKey[g]
      BY <3>1, <3>3 DEF Revocable, SameKeys
    <3> QED BY <3>2, <3>3
  <2> QED BY <2>2, <2>3
<1> QED BY <1>1, <1>3 DEF UndoInv, SameKeys

LEMMA UndoStep ==
    ASSUME FailuresType, ~Misled', ReachInv, UndoInv, [DocumentNext]_documentVars
    PROVE  UndoInv'
<1>0. SameKeys
  BY KeysStay
<1>1. CASE SettleFiles \/ DocumentLater
  <2>1. CASE SettleFiles
    BY <1>0, <2>1 DEF SettleFiles, UndoInv, Revocable, ReachInv, DocumentTypes, SameKeys
  <2>2. CASE DocumentLater
    BY <1>0, <2>2 DEF DocumentLater, LaterInstructions, UndoInv, Revocable, SameKeys
  <2> QED BY <1>1, <2>1, <2>2
<1>2. CASE UndoPointerFails
  BY <1>0, <1>2 DEF UndoPointerFails, UndoInv, SameKeys
<1>3. CASE DocumentUndoEnds
  <2>1. pointer \in [Files -> Keys] /\ \A f \in Files : pointer[f] = OldKey[f]
    BY <1>3 DEF DocumentUndoEnds, UndoEnds, UndoInv, Revocable, ReachInv, DocumentTypes
  <2>2. pointer = OldKey
    BY <1>3, <2>1, KeysTypes DEF ReachInv, DocumentTypes
  <2> QED BY <1>0, <1>3, <2>2 DEF DocumentUndoEnds, UndoEnds, UndoInv, SameKeys
<1>4. CASE UNCHANGED documentVars
  BY <1>0, <1>4 DEF documentVars, documentStores, UndoInv, Revocable, SameKeys
<1> QED BY <1>0, <1>1, <1>2, <1>3, <1>4, ForwardKeepsUndo, RollbackKeepsUndo, OnlyRefused
     DEF DocumentNext, UndoDocuments, UndoPointerMissed

\* Until a caller is misled the instruction is atomic: a patch that succeeded has
\* moved every document, a rollback that came to its end has restored every
\* pointer, however the moves of the files interleaved.
THEOREM MoveIsAtomic == DocumentSpec => []AtomicUnlessMisled
<1> DEFINE DocumentInv == FailuresType /\ (~Misled => ReachInv /\ UndoInv)
<1>1. DocumentInit => DocumentInv
  BY ReachInit, UndoInit, FailuresInit
<1>2. DocumentInv /\ [DocumentNext]_documentVars => DocumentInv'
  BY ReachStep, UndoStep, FailuresStep
<1>3. ASSUME ReachInv, UndoInv, phase = "committed"
      PROVE  pointer = NewKey
  <2>1. pointer \in [Files -> Keys] /\ \A f \in Files : pointer[f] = NewKey[f]
    BY <1>3 DEF ReachInv, DocumentTypes, UndoInv
  <2> QED BY <1>3, <2>1, KeysTypes DEF ReachInv, DocumentTypes
<1>4. DocumentInv => AtomicUnlessMisled
  BY <1>3 DEF UndoInv, AtomicUnlessMisled, Atomic
<1> QED BY <1>1, <1>2, <1>4, PTL DEF DocumentSpec

-----------------------------------------------------------------------------
(* SsoPatch: nobody is moved to an account that lacks a role of the donor's,   *)
(* and the answer of a patch tells what became of the accounts, for any users  *)
(* and roles and any number of patches and failures.                           *)

SsoTypes ==
    /\ created \in [Users -> Seq(Account)]
    /\ key \in [Users -> Nat]
    /\ stage \in [Users -> Stages]
    /\ todo \in [Users -> SUBSET Roles]
    /\ donor \in [Users -> Status]

RolesOf(u, n) == created[u][n].roles

\* What the function of u has done by the time it is at each of its steps: until
\* it is over, the user still has the donor's account.
Copying(u) ==
    /\ stage[u] \in {"create", "listRoles", "addRoles", "point"} => key[u] = 0
    /\ stage[u] \in {"listRoles", "addRoles", "point"} => created[u] # <<>>
    /\ stage[u] = "addRoles" => RolesOf(u, Len(created[u])) \cup todo[u] = DonorRoles[u]
    /\ stage[u] = "point" => RolesOf(u, Len(created[u])) = DonorRoles[u]

\* A user who was moved has an account, and it has the roles.
Moved(u) ==
    key[u] > 0 => key[u] \in 1 .. Len(created[u]) /\ RolesOf(u, key[u]) = DonorRoles[u]

\* listRoles follows the creation at once: the account has no role yet.
Fresh(u) == stage[u] = "listRoles" => RolesOf(u, Len(created[u])) = {}

UserInv(u) == Copying(u) /\ Moved(u) /\ Fresh(u)

SsoInv == SsoTypes /\ \A u \in Users : UserInv(u)

LEMMA InitInv == SsoInit => SsoInv
BY DEF SsoInit, SsoStores, SsoInv, SsoTypes, UserInv, Copying, Moved, Fresh, Stages, Status

\* The function of u takes a stage and the others see none of it.
Local(u) ==
    \A v \in Users \ {u} : UNCHANGED <<created[v], key[v], stage[v], todo[v]>>

LEMMA OthersKeep ==
    ASSUME SsoInv, NEW u \in Users, Local(u)
    PROVE  \A v \in Users \ {u} : UserInv(v)'
<1> SUFFICES ASSUME NEW v \in Users \ {u}
             PROVE  UserInv(v)'
  OBVIOUS
<1> QED BY DEF SsoInv, Local, UserInv, Copying, Moved, Fresh, RolesOf

\* A stage of u that leaves accounts and keys alone.
LEMMA StepOnly ==
    ASSUME SsoInv, NEW u \in Users, NEW label \in Stages,
           UNCHANGED <<created, key, todo>>, Goto(u, label),
           label \notin {"create", "listRoles", "addRoles", "point"}
    PROVE  \A v \in Users : UserInv(v)'
<1>1. Local(u) /\ stage'[u] = label
  BY DEF SsoInv, SsoTypes, Goto, Local
<1>2. UserInv(u)'
  BY <1>1 DEF SsoInv, UserInv, Copying, Moved, Fresh, RolesOf
<1> QED BY <1>1, <1>2, OthersKeep

LEMMA GetAccountStep ==
    ASSUME SsoInv, NEW u \in Users, GetAccount(u)
    PROVE  SsoInv'
<1>1. UNCHANGED <<donor, created, key, todo>>
  BY DEF GetAccount, stores
<1>2. (key[u] = 0 /\ Goto(u, "create")) \/ Goto(u, "failed")
  BY DEF GetAccount, Call
<1>3. SsoTypes'
  BY <1>1, <1>2 DEF SsoInv, SsoTypes, Goto, Stages
<1>4. CASE Goto(u, "failed")
  BY <1>1, <1>3, <1>4, StepOnly DEF SsoInv, Stages
<1>5. CASE key[u] = 0 /\ Goto(u, "create")
  <2>1. Local(u) /\ stage'[u] = "create"
    BY <1>1, <1>5 DEF SsoInv, SsoTypes, Goto, Local
  <2>2. UserInv(u)'
    BY <1>1, <1>5, <2>1 DEF UserInv, Copying, Moved, Fresh
  <2> QED BY <1>3, <2>1, <2>2, OthersKeep DEF SsoInv
<1> QED BY <1>2, <1>4, <1>5

\* An account that is added keeps the older ones as they are.
LEMMA Appended ==
    ASSUME SsoTypes, NEW u \in Users, NEW account \in Account,
           created' = [created EXCEPT ![u] = Append(@, account)]
    PROVE  /\ created' \in [Users -> Seq(Account)]
           /\ created'[u] # <<>> /\ Len(created'[u]) = Len(created[u]) + 1
           /\ created'[u][Len(created'[u])] = account
           /\ \A n \in 1 .. Len(created[u]) : created'[u][n] = created[u][n]
           /\ \A v \in Users \ {u} : created'[v] = created[v]
<1>1. created[u] \in Seq(Account) /\ created'[u] = Append(created[u], account)
  BY DEF SsoTypes
<1> QED BY <1>1 DEF SsoTypes

LEMMA CreateAccountStep ==
    ASSUME SsoInv, NEW u \in Users, CreateAccount(u)
    PROVE  SsoInv'
<1> DEFINE account == [status |-> donor[u], roles |-> {}]
<1>1. /\ UNCHANGED <<donor, key, todo>> /\ stage[u] = "create"
      /\ \/ created' = [created EXCEPT ![u] = Append(@, account)]
            /\ (Goto(u, "listRoles") \/ Goto(u, "failed"))
         \/ UNCHANGED created /\ Goto(u, "failed")
  BY DEF CreateAccount, Call, AtStage
<1>2. CASE UNCHANGED created /\ Goto(u, "failed")
  <2>1. SsoTypes'
    BY <1>1, <1>2 DEF SsoInv, SsoTypes, Goto, Stages
  <2> QED BY <1>1, <1>2, <2>1, StepOnly DEF SsoInv, Stages
<1>3. CASE /\ created' = [created EXCEPT ![u] = Append(@, account)]
           /\ Goto(u, "listRoles") \/ Goto(u, "failed")
  <2>1. account \in Account /\ SsoTypes
    BY DEF SsoInv, SsoTypes, Account
  <2>2. /\ created' \in [Users -> Seq(Account)]
        /\ created'[u] # <<>> /\ Len(created'[u]) = Len(created[u]) + 1
        /\ created'[u][Len(created'[u])] = account
        /\ \A n \in 1 .. Len(created[u]) : created'[u][n] = created[u][n]
        /\ \A v \in Users \ {u} : created'[v] = created[v]
    BY <1>3, <2>1, Appended
  <2>3. SsoTypes' /\ stage'[u] \in {"listRoles", "failed"}
    BY <1>1, <1>3, <2>1, <2>2 DEF SsoTypes, Goto, Stages
  <2>4. Local(u)
    BY <1>1, <1>3, <2>1, <2>2 DEF Local, Goto, SsoTypes
  <2>5. key'[u] = 0
    BY <1>1 DEF SsoInv, UserInv, Copying
  <2>6. UserInv(u)'
    BY <2>2, <2>3, <2>5 DEF UserInv, Copying, Moved, Fresh, RolesOf
  <2> QED BY <2>3, <2>4, <2>6, OthersKeep DEF SsoInv
<1> QED BY <1>1, <1>2, <1>3

LEMMA ListRolesStep ==
    ASSUME SsoInv, NEW u \in Users, ListRoles(u)
    PROVE  SsoInv'
<1>1. /\ UNCHANGED <<donor, created, key>> /\ stage[u] = "listRoles"
      /\ \/ todo' = [todo EXCEPT ![u] = DonorRoles[u]]
            /\ (Goto(u, "addRoles") \/ Goto(u, "failed"))
         \/ UNCHANGED todo /\ Goto(u, "failed")
  BY DEF ListRoles, Call, AtStage, stores
<1>2. SsoTypes' /\ Local(u)
  BY <1>1, SsoAssumption DEF SsoInv, SsoTypes, Goto, Stages, Local
<1>3. \/ stage'[u] = "failed"
      \/ stage'[u] = "addRoles" /\ todo'[u] = DonorRoles[u]
  BY <1>1 DEF SsoInv, SsoTypes, Goto
<1>4. UserInv(u)
  BY DEF SsoInv
<1>5. UserInv(u)'
  BY <1>1, <1>3, <1>4 DEF UserInv, Copying, Moved, Fresh, RolesOf
<1> QED BY <1>2, <1>5, OthersKeep DEF SsoInv

LEMMA AddRoleStep ==
    ASSUME SsoInv, NEW u \in Users, AddRole(u)
    PROVE  SsoInv'
<1> DEFINE last == Len(created[u])
<1>1. PICK r \in todo[u] :
          /\ todo' = [todo EXCEPT ![u] = @ \ {r}]
          /\ \/ Granted(u, r) /\ (Goto(u, "addRoles") \/ Goto(u, "failed"))
             \/ UNCHANGED created /\ Goto(u, "failed")
  BY DEF AddRole, Call
<1>2. UNCHANGED <<donor, key>> /\ stage[u] = "addRoles"
  BY DEF AddRole, AtStage
<1>3. UserInv(u) /\ SsoTypes
  BY DEF SsoInv
<1>4. /\ created[u] \in Seq(Account) /\ created[u] # <<>> /\ key[u] = 0
      /\ RolesOf(u, last) \cup todo[u] = DonorRoles[u]
  BY <1>2, <1>3 DEF UserInv, Copying, SsoTypes
<1>5. last \in Nat \ {0} /\ last \in DOMAIN created[u] /\ r \in Roles
  BY <1>1, <1>3, <1>4 DEF SsoTypes
<1>6. todo' \in [Users -> SUBSET Roles] /\ todo'[u] = todo[u] \ {r}
  BY <1>1, <1>3 DEF SsoTypes
<1>7. CASE UNCHANGED created /\ Goto(u, "failed")
  <2>1. SsoTypes' /\ Local(u) /\ stage'[u] = "failed"
    BY <1>1, <1>2, <1>3, <1>6, <1>7 DEF SsoTypes, Goto, Stages, Local
  <2>2. UserInv(u)'
    BY <1>2, <1>4, <2>1 DEF UserInv, Copying, Moved, Fresh
  <2> QED BY <2>1, <2>2, OthersKeep DEF SsoInv
<1>8. CASE Granted(u, r) /\ (Goto(u, "addRoles") \/ Goto(u, "failed"))
  <2> DEFINE account == [created[u][last] EXCEPT !.roles = created[u][last].roles \cup {r}]
  <2>1. created' = [created EXCEPT ![u] = [created[u] EXCEPT ![last] = account]]
    BY <1>8 DEF Granted, Latest
  <2>2. created[u][last] \in Account
    BY <1>4, <1>5
  <2>3. account \in Account /\ account.roles = created[u][last].roles \cup {r}
    BY <1>5, <2>2 DEF Account
  <2> HIDE DEF account
  <2>4. created'[u] = [created[u] EXCEPT ![last] = account]
    BY <1>3, <2>1 DEF SsoTypes
  <2>5. created'[u] \in Seq(Account) /\ Len(created'[u]) = last /\ created'[u][last] = account
    BY <1>4, <1>5, <2>3, <2>4
  <2>6. SsoTypes' /\ Local(u) /\ stage'[u] \in {"addRoles", "failed"}
    BY <1>1, <1>2, <1>3, <1>6, <1>8, <2>1, <2>5 DEF SsoTypes, Goto, Stages, Local
  <2>7. created'[u] # <<>> /\ key'[u] = 0
    BY <1>2, <1>4, <1>5, <2>5
  <2>8. (RolesOf(u, Len(created[u])) \cup todo[u])' = DonorRoles[u]
    BY <1>1, <1>4, <1>6, <2>3, <2>5 DEF RolesOf
  <2>9. UserInv(u)'
    BY <2>6, <2>7, <2>8 DEF UserInv, Copying, Moved, Fresh
  <2> QED BY <2>6, <2>9, OthersKeep DEF SsoInv
<1> QED BY <1>1, <1>7, <1>8

LEMMA RolesAddedStep ==
    ASSUME SsoInv, NEW u \in Users, RolesAdded(u)
    PROVE  SsoInv'
<1>1. /\ UNCHANGED <<donor, created, key, todo>> /\ stage[u] = "addRoles"
      /\ todo[u] = {} /\ stage' = [stage EXCEPT ![u] = "point"]
  BY DEF RolesAdded, AtStage, Goto, stores
<1>2. SsoTypes' /\ Local(u) /\ stage'[u] = "point"
  BY <1>1 DEF SsoInv, SsoTypes, Stages, Local
<1>3. UserInv(u)'
  BY <1>1, <1>2 DEF SsoInv, UserInv, Copying, Moved, Fresh, RolesOf
<1> QED BY <1>2, <1>3, OthersKeep DEF SsoInv

LEMMA PointUserStep ==
    ASSUME SsoInv, NEW u \in Users, PointUser(u)
    PROVE  SsoInv'
<1>1. /\ UNCHANGED <<donor, created, todo>> /\ stage[u] = "point"
      /\ key' = [key EXCEPT ![u] = Latest(u)] \/ UNCHANGED key
      /\ Goto(u, "updated") \/ Goto(u, "failed")
  BY DEF PointUser, Call, AtStage
<1>2. /\ created[u] \in Seq(Account) /\ created[u] # <<>> /\ key[u] = 0
      /\ RolesOf(u, Len(created[u])) = DonorRoles[u]
  BY <1>1 DEF SsoInv, SsoTypes, UserInv, Copying
<1>3. Len(created[u]) \in Nat \ {0}
  BY <1>2
<1>4. SsoTypes' /\ Local(u) /\ stage'[u] \in {"updated", "failed"}
  BY <1>1, <1>3 DEF SsoInv, SsoTypes, Goto, Stages, Local, Latest
<1>5. key'[u] = Len(created[u]) \/ key'[u] = 0
  BY <1>1, <1>2 DEF SsoInv, SsoTypes, Latest
<1>6. UserInv(u)'
  BY <1>1, <1>2, <1>3, <1>4, <1>5 DEF UserInv, Copying, Moved, Fresh, RolesOf
<1> QED BY <1>4, <1>6, OthersKeep DEF SsoInv

LEMMA ServeStep ==
    ASSUME SsoInv, NEW u \in Users, Serve(u)
    PROVE  SsoInv'
<1>1. CASE PointUserMissed(u) \/ Disable(u) \/ Look(u)
  <2>1. /\ UNCHANGED <<created, key, todo>>
        /\ donor' \in [Users -> Status]
        /\ Goto(u, "updated") \/ Goto(u, "failed") \/ Goto(u, "looked")
    BY <1>1 DEF PointUserMissed, Disable, Look, Call, SetStatus, stores, SsoInv, SsoTypes, Status
  <2>2. SsoTypes'
    BY <2>1 DEF SsoInv, SsoTypes, Goto, Stages
  <2>3. \A v \in Users : UserInv(v)'
    BY <2>1, StepOnly DEF Stages
  <2> QED BY <2>2, <2>3 DEF SsoInv
<1> QED BY <1>1, GetAccountStep, CreateAccountStep, ListRolesStep, AddRoleStep,
           RolesAddedStep, PointUserStep DEF Serve, Copy

LEMMA PatchStep ==
    ASSUME SsoInv, NEW o \in Operations, Patch(o)
    PROVE  SsoInv'
<1>1. FirstStep(o) \in {"get", "disable", "look"}
  BY SsoAssumption DEF FirstStep
<1>2. /\ UNCHANGED <<donor, created, key, todo>>
      /\ stage' = [u \in Users |-> FirstStep(o)]
  BY DEF Patch, stores
<1>3. SsoTypes'
  BY <1>1, <1>2 DEF SsoInv, SsoTypes, Stages
<1>4. ASSUME NEW u \in Users
      PROVE  UserInv(u)'
  BY <1>1, <1>2, <1>4 DEF SsoInv, UserInv, Copying, Moved, Fresh, RolesOf
<1> QED BY <1>3, <1>4 DEF SsoInv

LEMMA NextInv ==
    ASSUME SsoInv, [SsoNext]_ssoVars
    PROVE  SsoInv'
<1>1. CASE SettleUsers \/ SsoLater \/ Enable \/ SsoUndoEnds \/ UNCHANGED ssoVars
  <2>1. UNCHANGED <<created, key, stage, todo>>
    BY <1>1 DEF SettleUsers, SsoLater, LaterInstructions, Enable, SsoUndoEnds, UndoEnds, ssoVars, ssoStores, stores
  <2>2. donor' \in [Users -> Status]
    BY <1>1 DEF SettleUsers, SsoLater, LaterInstructions, Enable, SsoUndoEnds, UndoEnds, ssoVars, ssoStores, stores, SetStatus,
                SsoInv, SsoTypes, Status
  <2> QED BY <2>1, <2>2 DEF SsoInv, SsoTypes, UserInv, Copying, Moved, Fresh, RolesOf
<1> QED BY <1>1, ServeStep, PatchStep DEF SsoNext

\* Whatever goes wrong and however often the patch is sent, a user is pointed at
\* a new account only when it has every role of the donor's.
THEOREM RolesFollowUsers == SsoSpec => []MigratedWithRoles
<1>1. SsoInv => MigratedWithRoles
  BY DEF SsoInv, UserInv, Moved, RolesOf, MigratedWithRoles
<1> QED BY <1>1, InitInv, NextInv, PTL DEF SsoSpec

-----------------------------------------------------------------------------
(* What the answer tells: the answer follows from the users' functions and     *)
(* from the rollback, whose stack the calls fill and the answer depends on.    *)

StepsOf(o) ==
    IF o = "copy" THEN {"get", "create", "listRoles", "addRoles", "point", "updated", "failed"}
    ELSE IF o = "remove" THEN {"disable", "updated", "failed"} ELSE {"look", "looked", "failed"}

Remembered(u) == \E i \in DOMAIN undo : undo[i] = u

\* The calls that went wrong are within their bound.
Counted ==
    /\ failures \in [FaultKinds -> Nat]
    /\ Failures <= MaxFailures
    /\ patches \in 0 .. MaxPatches

\* The stack holds users that were updated, each of them once.
Stacked ==
    /\ undo \in Seq(Users)
    /\ \A i \in DOMAIN undo : stage[undo[i]] = "updated"
    /\ \A i, j \in DOMAIN undo : undo[i] = undo[j] => i = j

LocalTypes ==
    /\ op \in Operations /\ phase \in SsoPhases
    /\ before \in [Users -> Status]
    /\ \A u \in Users : stage[u] \in StepsOf(op)

\* Who counts as updated was served, and stays so unless the rollback begins.
Served ==
    /\ op = "copy" /\ failures["missed"] = 0
          => \A u \in Users : stage[u] = "updated" => key[u] > 0
    /\ op = "remove" /\ phase \in {"running", "done", "committed"}
          => \A u \in Users : stage[u] = "updated" => donor[u] = "disabled"
    /\ phase \in {"done", "committed"} => \A u \in Users : stage[u] = "updated"

\* As long as no answer was lost, an account that was enabled and is not any more
\* is on the stack, until the rollback has emptied it.
SsoRestorable ==
    /\ failures["lost"] = 0 /\ phase \in {"running", "done", "undoing", "failed"}
          => \A u \in Users : before[u] = "enabled" => donor[u] = "enabled" \/ Remembered(u)
    /\ phase = "failed" => undo = <<>>

AnswerInv == Counted /\ Stacked /\ LocalTypes /\ Served /\ SsoRestorable

LEMMA InitAnswer == SsoInit => AnswerInv
BY SsoAssumption, FaultsAssumption
   DEF SsoInit, SsoStores, AnswerInv, Counted, Stacked, LocalTypes, Served, SsoRestorable, StepsOf, Failures,
       FaultKinds, SsoPhases

\* Counting a call that goes wrong keeps to the bound.
LEMMA CountOne ==
    ASSUME Counted, UNCHANGED patches,
           UNCHANGED failures \/ \E fault \in FaultKinds : GoesWrong(fault)
    PROVE  Counted' /\ \A kind \in FaultKinds : failures[kind] <= failures'[kind]
<1>1. CASE UNCHANGED failures
  BY <1>1 DEF Counted, Failures, FaultKinds
<1>2. CASE \E fault \in FaultKinds : GoesWrong(fault)
  <2>1. PICK fault \in FaultKinds : GoesWrong(fault)
    BY <1>2
  <2>2. failures' = [failures EXCEPT ![fault] = failures[fault] + 1] /\ Failures < MaxFailures
    BY <2>1 DEF GoesWrong, Failures
  <2>3. failures' \in [FaultKinds -> Nat]
    BY <2>2 DEF Counted
  <2>4. \A kind \in FaultKinds : failures'[kind] = IF kind = fault THEN failures[kind] + 1
                                                   ELSE failures[kind]
    BY <2>2 DEF Counted
  <2>5. Failures' = Failures + 1
    BY <2>4 DEF Counted, FaultKinds, Failures
  <2>6. Failures' <= MaxFailures
    BY <2>2, <2>5, FaultsAssumption DEF Failures, Counted, FaultKinds
  <2> QED BY <2>3, <2>4, <2>6 DEF Counted
<1> QED BY <1>1, <1>2

\* A stage of the function of u that leaves the donor's accounts and the stack alone.
LEMMA OnlyGoes ==
    ASSUME SsoInv, AnswerInv, NEW u \in Users, NEW label \in StepsOf(op),
           phase = "running", stage[u] # "updated", Goto(u, label), Counted',
           \A kind \in FaultKinds : failures[kind] <= failures'[kind],
           UNCHANGED <<donor, undo, op, phase, before>>,
           key' \in [Users -> Nat], \A v \in Users : key[v] > 0 => key'[v] > 0,
           op = "copy" /\ label = "updated" => key'[u] > 0 \/ failures'["missed"] > 0,
           op # "copy" => label # "updated"
    PROVE  AnswerInv'
<1>1. stage' = [stage EXCEPT ![u] = label] /\ stage \in [Users -> Stages]
  BY DEF Goto, SsoInv, SsoTypes
<1>2. /\ failures["missed"] \in Nat /\ failures'["missed"] \in Nat
      /\ failures["missed"] <= failures'["missed"]
      /\ failures["lost"] \in Nat /\ failures'["lost"] \in Nat
      /\ failures["lost"] <= failures'["lost"]
  BY DEF AnswerInv, Counted, FaultKinds
<1>3. Stacked'
  <2>1. Stacked
    BY DEF AnswerInv
  <2>2. \A i \in DOMAIN undo : undo[i] \in Users /\ undo[i] # u
    BY <2>1 DEF Stacked
  <2> QED BY <1>1, <2>1, <2>2 DEF Stacked
<1>4. LocalTypes'
  BY <1>1 DEF AnswerInv, LocalTypes
<1>5. Served'
  <2>1. Served
    BY DEF AnswerInv
  <2>2. ASSUME op = "copy", failures'["missed"] = 0, NEW v \in Users, stage'[v] = "updated"
        PROVE  key'[v] > 0
    BY <1>1, <1>2, <2>1, <2>2 DEF Served
  <2>3. ASSUME op = "remove", NEW v \in Users, stage'[v] = "updated"
        PROVE  donor[v] = "disabled"
    BY <1>1, <2>1, <2>3 DEF Served
  <2> QED BY <2>2, <2>3 DEF Served
<1>6. SsoRestorable'
  BY <1>2 DEF AnswerInv, SsoRestorable, Remembered
<1> QED BY <1>3, <1>4, <1>5, <1>6 DEF AnswerInv

LEMMA CopyAnswer ==
    ASSUME SsoInv, AnswerInv, NEW u \in Users, Copy(u)
    PROVE  AnswerInv'
<1>1. /\ phase = "running" /\ UNCHANGED <<donor, undo, op, phase, before, patches>>
      /\ stage[u] \in {"get", "create", "listRoles", "addRoles", "point"}
  BY DEF Copy, GetAccount, CreateAccount, ListRoles, AddRole, RolesAdded, PointUser,
         PointUserMissed, Call, AtStage, stores
<1>2. op = "copy"
  BY <1>1, SsoAssumption DEF AnswerInv, LocalTypes, StepsOf
<1>3. UNCHANGED failures \/ \E fault \in FaultKinds : GoesWrong(fault)
  BY DEF Copy, GetAccount, CreateAccount, ListRoles, AddRole, RolesAdded, PointUser,
         PointUserMissed, Call, FaultKinds
<1>4. Counted' /\ \A kind \in FaultKinds : failures[kind] <= failures'[kind]
  BY <1>1, <1>3, CountOne DEF AnswerInv
<1>5. SsoInv'
  BY ServeStep DEF Serve
<1>6. key' \in [Users -> Nat]
  BY <1>5 DEF SsoInv, SsoTypes
<1>7. CASE PointUser(u)
  <2>1. created[u] # <<>> /\ created[u] \in Seq(Account) /\ key \in [Users -> Nat]
    BY <1>7 DEF PointUser, AtStage, SsoInv, SsoTypes, UserInv, Copying
  <2>2. Latest(u) \in Nat /\ Latest(u) > 0
    BY <2>1 DEF Latest
  <2>3. \/ key' = [key EXCEPT ![u] = Latest(u)] /\ (Goto(u, "updated") \/ Goto(u, "failed"))
        \/ UNCHANGED key /\ Goto(u, "failed")
    BY <1>7 DEF PointUser, Call
  <2>4. \A v \in Users : key[v] > 0 => key'[v] > 0
    BY <2>1, <2>2, <2>3
  <2>5. PICK label \in {"updated", "failed"} :
           Goto(u, label) /\ (label = "updated" => key'[u] > 0)
    BY <2>1, <2>2, <2>3
  <2> QED BY <1>1, <1>2, <1>4, <1>6, <2>4, <2>5, OnlyGoes DEF StepsOf
<1>8. CASE PointUserMissed(u)
  <2>1. failures'["missed"] > 0
    BY <1>8 DEF PointUserMissed, GoesWrong, Failures, AnswerInv, Counted, FaultKinds
  <2>2. UNCHANGED key /\ Goto(u, "updated")
    BY <1>8 DEF PointUserMissed, stores
  <2> QED BY <1>1, <1>2, <1>4, <1>6, <2>1, <2>2, OnlyGoes DEF StepsOf
<1>9. CASE GetAccount(u) \/ CreateAccount(u) \/ ListRoles(u) \/ AddRole(u) \/ RolesAdded(u)
  <2>1. UNCHANGED key
    BY <1>9 DEF GetAccount, CreateAccount, ListRoles, AddRole, RolesAdded, stores
  <2>2. PICK label \in {"create", "listRoles", "addRoles", "point", "failed"} : Goto(u, label)
    BY <1>9 DEF GetAccount, CreateAccount, ListRoles, AddRole, RolesAdded, Call
  <2> QED BY <1>1, <1>2, <1>4, <1>6, <2>1, <2>2, OnlyGoes DEF StepsOf
<1> QED BY <1>7, <1>8, <1>9 DEF Copy

LEMMA LookAnswer ==
    ASSUME SsoInv, AnswerInv, NEW u \in Users, Look(u)
    PROVE  AnswerInv'
<1>1. /\ phase = "running" /\ UNCHANGED <<donor, key, undo, op, phase, before, patches>>
      /\ stage[u] = "look"
  BY DEF Look, Call, AtStage, stores
<1>2. op = "test"
  BY <1>1, SsoAssumption DEF AnswerInv, LocalTypes, StepsOf
<1>3. UNCHANGED failures \/ \E fault \in FaultKinds : GoesWrong(fault)
  BY DEF Look, Call, FaultKinds
<1>4. Counted' /\ \A kind \in FaultKinds : failures[kind] <= failures'[kind]
  BY <1>1, <1>3, CountOne DEF AnswerInv
<1>5. PICK label \in {"looked", "failed"} : Goto(u, label)
  BY DEF Look, Call
<1>6. key' \in [Users -> Nat]
  BY <1>1 DEF SsoInv, SsoTypes
<1> QED BY <1>1, <1>2, <1>4, <1>5, <1>6, OnlyGoes DEF StepsOf

LEMMA DisableAnswer ==
    ASSUME SsoInv, AnswerInv, NEW u \in Users, Disable(u)
    PROVE  AnswerInv'
<1>1. /\ phase = "running" /\ UNCHANGED <<key, op, phase, before, patches>>
      /\ stage[u] = "disable"
      /\ undo' = IF stage'[u] = "updated" THEN Append(undo, u) ELSE undo
  BY DEF Disable, Call, AtStage
<1>2. op = "remove"
  BY <1>1, SsoAssumption DEF AnswerInv, LocalTypes, StepsOf
<1>3. UNCHANGED failures \/ \E fault \in FaultKinds : GoesWrong(fault)
  BY DEF Disable, Call, FaultKinds
<1>4. Counted' /\ \A kind \in FaultKinds : failures[kind] <= failures'[kind]
  BY <1>1, <1>3, CountOne DEF AnswerInv
<1>5. stage \in [Users -> Stages] /\ donor \in [Users -> Status] /\ key \in [Users -> Nat]
  BY DEF SsoInv, SsoTypes
<1>6. Stacked /\ LocalTypes /\ Served /\ SsoRestorable /\ Counted
  BY DEF AnswerInv
<1>7. CASE UNCHANGED donor /\ Goto(u, "failed")
  <2>1. stage'[u] # "updated"
    BY <1>5, <1>7 DEF Goto
  <2>2. UNCHANGED undo
    BY <1>1, <2>1
  <2> QED BY <1>1, <1>2, <1>4, <1>5, <1>7, <2>2, OnlyGoes DEF StepsOf
<1>8. CASE /\ SetStatus(u, "disabled")
           /\ Goto(u, "updated") \/ (Goto(u, "failed") /\ GoesWrong("lost"))
  <2>1. /\ donor' = [donor EXCEPT ![u] = "disabled"]
        /\ stage' = [stage EXCEPT ![u] = "updated"] \/ stage' = [stage EXCEPT ![u] = "failed"]
    BY <1>8 DEF SetStatus, Goto
  <2>2. \A i \in DOMAIN undo : undo[i] \in Users /\ undo[i] # u
    BY <1>1, <1>6 DEF Stacked
  <2>3. DOMAIN undo = 1 .. Len(undo) /\ Len(undo) \in Nat /\ undo \in Seq(Users)
    BY <1>6 DEF Stacked
  <2>4. Stacked'
    <3>1. CASE stage' = [stage EXCEPT ![u] = "updated"]
      <4>1. undo' = Append(undo, u)
        BY <1>1, <1>5, <3>1
      <4>2. /\ undo' \in Seq(Users) /\ DOMAIN undo' = 1 .. Len(undo) + 1
            /\ undo'[Len(undo) + 1] = u
            /\ \A i \in DOMAIN undo : undo'[i] = undo[i]
        BY <2>3, <4>1
      <4>3. \A i \in DOMAIN undo' : i \in DOMAIN undo \/ i = Len(undo) + 1
        BY <2>3, <4>2
      <4>4. \A i \in DOMAIN undo' : stage'[undo'[i]] = "updated"
        BY <1>5, <1>6, <2>2, <3>1, <4>2, <4>3 DEF Stacked
      <4>5. \A i, j \in DOMAIN undo' : undo'[i] = undo'[j] => i = j
        BY <1>6, <2>2, <4>2, <4>3 DEF Stacked
      <4> QED BY <4>2, <4>4, <4>5 DEF Stacked
    <3>2. CASE stage' = [stage EXCEPT ![u] = "failed"]
      <4>1. undo' = undo
        BY <1>1, <1>5, <3>2
      <4> QED BY <1>5, <1>6, <2>2, <3>2, <4>1 DEF Stacked
    <3> QED BY <2>1, <3>1, <3>2
  <2>5. LocalTypes'
    BY <1>1, <1>2, <1>5, <1>6, <2>1 DEF LocalTypes, StepsOf
  <2>6. Served'
    BY <1>1, <1>2, <1>5, <1>6, <2>1 DEF Served
  <2>7. SsoRestorable'
    <3>1. CASE stage' = [stage EXCEPT ![u] = "updated"]
      <4>1. undo' = Append(undo, u)
        BY <1>1, <1>5, <3>1
      <4>2. /\ DOMAIN undo' = 1 .. Len(undo) + 1 /\ undo'[Len(undo) + 1] = u
            /\ \A i \in DOMAIN undo : i \in DOMAIN undo' /\ undo'[i] = undo[i]
        BY <2>3, <4>1
      <4>3. Remembered(u)' /\ \A v \in Users : Remembered(v) => Remembered(v)'
        BY <2>3, <4>2 DEF Remembered
      <4>4. failures'["lost"] = 0 => failures["lost"] = 0
        BY <1>4, <1>6 DEF Counted, FaultKinds
      <4> QED BY <1>1, <1>5, <1>6, <2>1, <4>3, <4>4 DEF SsoRestorable
    <3>2. CASE Goto(u, "failed") /\ GoesWrong("lost")
      <4>1. failures'["lost"] > 0
        BY <1>6, <3>2 DEF GoesWrong, Failures, Counted, FaultKinds
      <4> QED BY <1>1, <4>1 DEF SsoRestorable
    <3> QED BY <1>8, <3>1, <3>2 DEF Goto
  <2> QED BY <1>4, <2>4, <2>5, <2>6, <2>7 DEF AnswerInv
<1> QED BY <1>7, <1>8 DEF Disable, Call

LEMMA PatchAnswer ==
    ASSUME SsoInv, AnswerInv, NEW o \in Operations, Patch(o)
    PROVE  AnswerInv'
<1>1. /\ op' = o /\ phase' = "running" /\ undo' = <<>> /\ before' = donor
      /\ failures' = [kind \in FaultKinds |-> 0] /\ patches' = patches + 1
      /\ patches < MaxPatches
      /\ stage' = [u \in Users |-> FirstStep(o)] /\ UNCHANGED donor
  BY DEF Patch, stores
<1>2. FirstStep(o) \in StepsOf(o) /\ FirstStep(o) # "updated"
  BY SsoAssumption DEF FirstStep, StepsOf
<1>3. Counted'
  BY <1>1, SsoAssumption, FaultsAssumption DEF AnswerInv, Counted, Failures, FaultKinds
<1>4. donor \in [Users -> Status]
  BY DEF SsoInv, SsoTypes
<1>5. \A u \in Users : stage'[u] \in StepsOf(o) /\ stage'[u] # "updated"
  BY <1>1, <1>2
<1>6. Stacked'
  BY <1>1 DEF Stacked
<1>7. LocalTypes'
  BY <1>1, <1>4, <1>5 DEF LocalTypes, SsoPhases
<1>8. Served' /\ SsoRestorable'
  BY <1>1, <1>5 DEF Served, SsoRestorable
<1> QED BY <1>3, <1>6, <1>7, <1>8 DEF AnswerInv

LEMMA EnableAnswer ==
    ASSUME SsoInv, AnswerInv, Enable
    PROVE  AnswerInv'
<1>1. /\ phase = "undoing" /\ undo # <<>> /\ undo' = Tail(undo)
      /\ phase' \in {"undoing", "abandoned"}
      /\ UNCHANGED <<key, op, stage, patches, before>>
      /\ UNCHANGED failures \/ \E fault \in FaultKinds : GoesWrong(fault)
      /\ \/ SetStatus(Head(undo), "enabled")
         \/ UNCHANGED donor /\ phase' = "abandoned"
  BY DEF Enable, FaultKinds
<1>2. Counted' /\ \A kind \in FaultKinds : failures[kind] <= failures'[kind]
  BY <1>1, CountOne DEF AnswerInv
<1>3. Stacked /\ LocalTypes /\ Served /\ SsoRestorable /\ Counted
  BY DEF AnswerInv
<1>4. /\ undo \in Seq(Users) /\ Len(undo) \in Nat \ {0} /\ DOMAIN undo = 1 .. Len(undo)
      /\ Head(undo) = undo[1] /\ undo[1] \in Users
      /\ undo' \in Seq(Users) /\ DOMAIN undo' = 1 .. Len(undo) - 1
      /\ \A i \in 1 .. Len(undo) - 1 : undo'[i] = undo[i + 1]
  BY <1>1, <1>3 DEF Stacked
<1>5. Stacked'
  <2>1. \A i \in DOMAIN undo' : i + 1 \in DOMAIN undo /\ undo'[i] = undo[i + 1]
    BY <1>4
  <2>2. \A i, j \in DOMAIN undo' : i + 1 = j + 1 => i = j
    BY <1>4
  <2> QED BY <1>1, <1>3, <1>4, <2>1, <2>2 DEF Stacked
<1>6. LocalTypes' /\ Served'
  BY <1>1, <1>2, <1>3 DEF LocalTypes, Served, SsoPhases, Counted, FaultKinds
<1>7. SsoRestorable'
  <2>1. ASSUME phase' = "undoing", failures'["lost"] = 0, NEW u \in Users,
               before[u] = "enabled", donor'[u] # "enabled"
        PROVE  Remembered(u)'
    <3>1. donor' = [donor EXCEPT ![undo[1]] = "enabled"] /\ donor \in [Users -> Status]
      BY <1>1, <1>4, <2>1 DEF SetStatus, SsoInv, SsoTypes
    <3>2. u # undo[1] /\ donor[u] # "enabled"
      BY <1>4, <2>1, <3>1
    <3>3. failures["lost"] = 0
      BY <1>2, <1>3, <2>1 DEF Counted, FaultKinds
    <3>4. PICK i \in DOMAIN undo : undo[i] = u
      BY <1>1, <1>3, <2>1, <3>2, <3>3 DEF SsoRestorable, Remembered
    <3>5. i # 1
      BY <3>2, <3>4
    <3>6. i - 1 \in DOMAIN undo' /\ undo'[i - 1] = u
      BY <1>4, <3>4, <3>5
    <3> QED BY <3>6 DEF Remembered
  <2> QED BY <1>1, <2>1 DEF SsoRestorable
<1> QED BY <1>2, <1>5, <1>6, <1>7 DEF AnswerInv

\* The patch goes on and no account changes.
LEMMA RestAnswer ==
    ASSUME SsoInv, AnswerInv, SettleUsers \/ SsoLater \/ SsoUndoEnds \/ UNCHANGED ssoVars
    PROVE  AnswerInv'
<1>1. UNCHANGED <<donor, key, op, stage, undo, failures, patches, before>>
  BY DEF SettleUsers, SsoLater, LaterInstructions, SsoUndoEnds, UndoEnds, ssoVars, ssoStores, stores
<1>2. Counted' /\ Stacked'
  BY <1>1 DEF AnswerInv, Counted, Stacked, Failures
<1>3. \/ phase = "running" /\ phase' = "done" /\ \A u \in Users : stage[u] = "updated"
      \/ phase = "running" /\ phase' = "undoing"
      \/ phase = "done" /\ phase' \in {"committed", "undoing", "abandoned"}
      \/ phase = "undoing" /\ undo = <<>> /\ phase' = "failed"
      \/ phase' = phase
  BY DEF SettleUsers, Settled, Updated, SsoLater, LaterInstructions, SsoUndoEnds, UndoEnds, ssoVars, ssoStores
<1>4. LocalTypes' /\ Served'
  BY <1>1, <1>3 DEF AnswerInv, LocalTypes, Served, SsoPhases
<1>5. SsoRestorable'
  BY <1>1, <1>3 DEF AnswerInv, SsoRestorable, Remembered
<1> QED BY <1>2, <1>4, <1>5 DEF AnswerInv

LEMMA NextAnswer ==
    ASSUME SsoInv, AnswerInv, [SsoNext]_ssoVars
    PROVE  AnswerInv'
BY CopyAnswer, LookAnswer, DisableAnswer, PatchAnswer, EnableAnswer, RestAnswer
   DEF SsoNext, Serve

LEMMA AnswerInvariant == SsoSpec => [](SsoInv /\ AnswerInv)
BY InitInv, NextInv, InitAnswer, NextAnswer, PTL DEF SsoSpec

\* Every store and every local keeps to its type: a key names an account that was
\* created, no user stands twice on the stack, and the bounds are kept.
THEOREM SsoTypeCorrect == SsoSpec => []SsoTypeOK
<1>1. ASSUME SsoInv, AnswerInv
      PROVE  SsoTypeOK
  <2>1. \A u \in Users : key[u] \in 0 .. Len(created[u])
    <3>1. ASSUME NEW u \in Users
          PROVE  key[u] \in 0 .. Len(created[u])
      BY <1>1, <3>1 DEF SsoInv, SsoTypes, UserInv, Moved
    <3> QED BY <3>1
  <2>2. failures \in [FaultKinds -> 0 .. MaxFailures]
    BY <1>1, FaultsAssumption DEF AnswerInv, Counted, Failures, FaultKinds
  <2> QED BY <1>1, <2>1, <2>2 DEF SsoInv, SsoTypes, AnswerInv, Counted, Stacked, LocalTypes, SsoTypeOK
<1> QED BY <1>1, AnswerInvariant, PTL

\* The answer of a patch is true: after a success every user was served, unless an
\* update missed its database; after a failure that was undone the accounts are
\* enabled that were, unless an answer was lost.
THEOREM AnswerTrue == SsoSpec => []AnswerIsTrue
<1>1. ASSUME SsoInv, AnswerInv
      PROVE  AnswerIsTrue
  BY <1>1 DEF AnswerInv, Served, SsoRestorable, Remembered, AnswerIsTrue,
              CommittedMeansServed, FailedKeepsEnabled
<1> QED BY <1>1, AnswerInvariant, PTL

-----------------------------------------------------------------------------
(* HelloSignMove: the first patch is safe, for any number of calls that are    *)
(* refused or lose their answer: the application that carries the donor's      *)
(* signature requests is kept, and a rollback that ends restores both          *)
(* companies.  A company that was moved stays moved.                           *)

AnyName == [base : {"donor", "recipient", "created"}, suffixes : Nat]

AnyApp == [name : AnyName, domain : Companies, live : BOOLEAN]

UndoActions == Calls \cup {"pointNew"}

\* While the patch is sent the first time, the donor's application is 1 and the
\* recipient's 2, and so has the instruction read it.
HelloSignTypes ==
    /\ apps \in Seq(AnyApp) /\ Len(apps) >= 2
    /\ apps[1].live /\ apps[2].domain = "recipient"
    /\ config \in [Companies -> Nat]
    /\ call \in Calls
    /\ local \in [app : [Companies -> Nat], hs : [Companies -> AnyApp]]
    /\ local.app = [donor |-> 1, recipient |-> 2]
    /\ \A c \in Companies : local.hs[c].domain = c
    /\ undo \in Seq(UndoActions)
    /\ phase \in Phases

Queued(action) == \E i \in DOMAIN undo : undo[i] = action

\* What the calls before this one have done, as long as nothing has gone wrong.
HelloSignForward ==
    /\ Len(apps) = 2
    /\ ~ Queued("pointNew")
    /\ phase # "moving" => call = "returned"
    /\ call \in {"readConfigs", "pointRecipient"}
           => undo = <<>> /\ config = [donor |-> 1, recipient |-> 2]
    /\ call \notin {"readConfigs", "pointRecipient"} => config["recipient"] = 1
    /\ call \in {"readConfigs", "pointRecipient", "readApps"} => apps[1].domain = "donor"
    /\ call \in {"deleteApp", "deleteConfig", "returned"}
           => apps[1].domain = "recipient" /\ apps[1].name = local.hs["recipient"].name
    /\ apps[2].live <=> call \notin {"deleteConfig", "returned"}
    /\ call = "returned" => config["donor"] = NoApp

\* An application of the recipient's own.
Own(id) == id \in DOMAIN apps /\ id # 1 /\ apps[id].live /\ apps[id].domain = "recipient"

\* What is not queued to be undone is as it was before the patch; a new application
\* may take the place of the one that was deleted.
HelloSignRestorable ==
    /\ Queued("renameDonor") \/ apps[1].domain = "donor"
    /\ Queued("deleteConfig") \/ config["donor"] = 1
    /\ ~ Queued("deleteApp") /\ ~ Queued("pointNew")
           => /\ Queued("pointRecipient") => Own(2)
              /\ ~ Queued("pointRecipient") => Own(config["recipient"])
    /\ Queued("pointNew") => Own(Len(apps))
    /\ \A i \in DOMAIN undo : undo[i] = "pointRecipient" => i = 1

FirstInv ==
    /\ HelloSignTypes
    /\ phase \in {"moving", "done", "committed"} => HelloSignForward
    /\ ~ Misled /\ phase # "abandoned" => HelloSignRestorable
    /\ phase = "undone" => undo = <<>>

Counters == attempts \in Nat \ {0} /\ failures \in [FaultKinds -> Nat]

HelloSignInv == Counters /\ (attempts = 1 => FirstInv)

-----------------------------------------------------------------------------
(* The counters.                                                             *)

LEMMA CountersStep ==
    ASSUME Counters, [HelloSignNext]_helloSignVars
    PROVE  /\ Counters'
           /\ ~ Misled' => ~ Misled
           /\ attempts' = 1 => attempts = 1
<1> DEFINE Counts == UNCHANGED failures \/ \E fault \in Faults : GoesWrong(fault)
<1>1. Counts /\ (UNCHANGED attempts \/ attempts' = attempts + 1)
  <2>1. CASE Instruction
    BY <2>1 DEF Instruction, ReadConfigs, PointRecipient, ReadApps, RenameRecipient,
                RenameDonor, DeleteApp, DeleteConfig, Return, CallHelloSign,
                CallIntegrations, Proceed, GoesWrong, Failures
  <2>2. CASE Rollback
    BY <2>2 DEF Rollback, UndoPointRecipient, UndoRenameRecipient, UndoRenameDonor,
                UndoDeleteApp, UndoDeleteAppPoint, UndoDeleteConfig, HelloSignUndoEnds, UndoEnds,
                UndoHelloSign, UndoIntegrations, GoesWrong, Failures
  <2>3. CASE HelloSignLater \/ Retry \/ UNCHANGED helloSignVars
    BY <2>3 DEF HelloSignLater, LaterInstructions, Retry, helloSignVars, helloSignStores
  <2> QED BY <2>1, <2>2, <2>3 DEF HelloSignNext
<1>2. failures' \in [FaultKinds -> Nat] /\ (~ Misled' => ~ Misled)
  <2>1. CASE UNCHANGED failures
    BY <2>1 DEF Counters, Misled
  <2>2. ASSUME NEW fault \in Faults, GoesWrong(fault)
        PROVE  failures' \in [FaultKinds -> Nat] /\ (~ Misled' => ~ Misled)
    BY <2>2, FaultsAssumption DEF Counters, Misled, GoesWrong, Failures, FaultKinds
  <2> QED BY <1>1, <2>1, <2>2
<1>3. attempts' \in Nat \ {0} /\ (attempts' = 1 => attempts = 1)
  BY <1>1 DEF Counters
<1> QED BY <1>2, <1>3 DEF Counters

\* A call that was lost misleads; then nothing is claimed any more.
LEMMA LostMisleads == Counters /\ GoesWrong("lost") => Misled'
BY DEF Counters, GoesWrong, Failures, Misled, FaultKinds

-----------------------------------------------------------------------------
(* The queue and the applications.                                           *)

LEMMA HelloSignPushed ==
    ASSUME undo \in Seq(UndoActions), NEW c \in UndoActions, undo' = Append(undo, c)
    PROVE  /\ undo' \in Seq(UndoActions)
           /\ \A x \in UndoActions : Queued(x)' <=> Queued(x) \/ x = c
           /\ \A i \in DOMAIN undo' : \/ (i \in DOMAIN undo /\ undo'[i] = undo[i])
                                      \/ (i = Len(undo) + 1 /\ undo'[i] = c)
<1>1. /\ undo' \in Seq(UndoActions) /\ Len(undo') = Len(undo) + 1
      /\ undo'[Len(undo) + 1] = c
      /\ \A i \in 1 .. Len(undo) : undo'[i] = undo[i]
      /\ DOMAIN undo = 1 .. Len(undo) /\ DOMAIN undo' = 1 .. Len(undo) + 1
      /\ Len(undo) \in Nat
  OBVIOUS
<1>2. \A i \in DOMAIN undo' : \/ (i \in DOMAIN undo /\ undo'[i] = undo[i])
                              \/ (i = Len(undo) + 1 /\ undo'[i] = c)
  <2>1. ASSUME NEW i \in 1 .. Len(undo) + 1
        PROVE  i \in 1 .. Len(undo) \/ i = Len(undo) + 1
    BY <1>1, <2>1
  <2> QED BY <1>1, <2>1
<1>3. ASSUME NEW x \in UndoActions
      PROVE  Queued(x)' <=> Queued(x) \/ x = c
  <2>1. (\E i \in DOMAIN undo' : undo'[i] = x) => (\E i \in DOMAIN undo : undo[i] = x) \/ x = c
    BY <1>2
  <2>2. ASSUME NEW i \in DOMAIN undo, undo[i] = x
        PROVE  \E j \in DOMAIN undo' : undo'[j] = x
    BY <1>1, <2>2
  <2>3. ASSUME x = c
        PROVE  \E j \in DOMAIN undo' : undo'[j] = x
    BY <1>1, <2>3
  <2> QED BY <2>1, <2>2, <2>3 DEF Queued
<1> QED BY <1>1, <1>2, <1>3

LEMMA Shifted ==
    ASSUME undo \in Seq(UndoActions), undo # <<>>, undo' = Tail(undo)
    PROVE  /\ undo' \in Seq(UndoActions)
           /\ \A x \in UndoActions : Queued(x)' => Queued(x)
           /\ \A x \in UndoActions : Queued(x) => Queued(x)' \/ x = Head(undo)
           /\ \A i \in DOMAIN undo' : i + 1 \in DOMAIN undo /\ i + 1 # 1 /\ undo'[i] = undo[i + 1]
<1>1. /\ undo' \in Seq(UndoActions) /\ Len(undo) \in Nat \ {0} /\ Len(undo') = Len(undo) - 1
      /\ \A i \in 1 .. Len(undo) - 1 : undo'[i] = undo[i + 1]
      /\ DOMAIN undo = 1 .. Len(undo) /\ DOMAIN undo' = 1 .. Len(undo) - 1
      /\ Head(undo) = undo[1]
  OBVIOUS
<1>2. ASSUME NEW i \in DOMAIN undo, i # 1
      PROVE  i - 1 \in DOMAIN undo' /\ undo'[i - 1] = undo[i]
  BY <1>1, <1>2
<1>3. \A i \in DOMAIN undo' : i + 1 \in DOMAIN undo /\ i + 1 # 1 /\ undo'[i] = undo[i + 1]
  BY <1>1
<1>4. ASSUME NEW x \in UndoActions
      PROVE  (Queued(x)' => Queued(x)) /\ (Queued(x) => Queued(x)' \/ x = Head(undo))
  <2>1. (\E i \in DOMAIN undo' : undo'[i] = x) => \E i \in DOMAIN undo : undo[i] = x
    BY <1>3
  <2>2. (\E i \in DOMAIN undo : undo[i] = x)
            => (\E i \in DOMAIN undo' : undo'[i] = x) \/ x = Head(undo)
    BY <1>1, <1>2
  <2> QED BY <2>1, <2>2 DEF Queued
<1> QED BY <1>1, <1>3, <1>4

LEMMA Replaced ==
    ASSUME undo \in Seq(UndoActions), undo # <<>>, undo' = <<"pointNew">> \o Tail(undo)
    PROVE  /\ undo' \in Seq(UndoActions)
           /\ \A x \in UndoActions : Queued(x)' => Queued(x) \/ x = "pointNew"
           /\ \A x \in UndoActions : Queued(x) => Queued(x)' \/ x = Head(undo)
           /\ Queued("pointNew")'
           /\ \A i \in DOMAIN undo' : \/ (i = 1 /\ undo'[i] = "pointNew")
                                      \/ (i \in DOMAIN undo /\ i # 1 /\ undo'[i] = undo[i])
<1>1. /\ "pointNew" \in UndoActions /\ Tail(undo) \in Seq(UndoActions)
      /\ Len(undo) \in Nat \ {0} /\ Len(Tail(undo)) = Len(undo) - 1
      /\ \A i \in 1 .. Len(undo) - 1 : Tail(undo)[i] = undo[i + 1]
      /\ DOMAIN undo = 1 .. Len(undo)
      /\ Head(undo) = undo[1]
  BY DEF UndoActions
<1>2. /\ undo' \in Seq(UndoActions) /\ Len(undo') = Len(undo)
      /\ undo'[1] = "pointNew"
      /\ \A i \in 2 .. Len(undo) : undo'[i] = Tail(undo)[i - 1]
      /\ DOMAIN undo' = 1 .. Len(undo)
  BY <1>1
<1>3. \A i \in 2 .. Len(undo) : undo'[i] = undo[i]
  BY <1>1, <1>2
<1>4. \A i \in DOMAIN undo' : \/ (i = 1 /\ undo'[i] = "pointNew")
                              \/ (i \in DOMAIN undo /\ i # 1 /\ undo'[i] = undo[i])
  <2>1. ASSUME NEW i \in 1 .. Len(undo)
        PROVE  i = 1 \/ (i \in 2 .. Len(undo) /\ i # 1)
    BY <1>1, <2>1
  <2> QED BY <1>1, <1>2, <1>3, <2>1
<1>5. ASSUME NEW x \in UndoActions
      PROVE  (Queued(x)' => Queued(x) \/ x = "pointNew") /\ (Queued(x) => Queued(x)' \/ x = Head(undo))
  <2>1. (\E i \in DOMAIN undo' : undo'[i] = x)
            => (\E i \in DOMAIN undo : undo[i] = x) \/ x = "pointNew"
    BY <1>4
  <2>2. (\E i \in DOMAIN undo : undo[i] = x)
            => (\E i \in DOMAIN undo' : undo'[i] = x) \/ x = Head(undo)
    <3>1. ASSUME NEW i \in 1 .. Len(undo)
          PROVE  i = 1 \/ i \in 2 .. Len(undo)
      BY <1>1, <3>1
    <3> QED BY <1>1, <1>2, <1>3, <3>1
  <2> QED BY <2>1, <2>2 DEF Queued
<1>6. Queued("pointNew")'
  BY <1>1, <1>2 DEF Queued
<1> QED BY <1>2, <1>4, <1>5, <1>6

LEMMA RenamedApps ==
    ASSUME apps \in Seq(AnyApp), NEW id \in DOMAIN apps,
           NEW name \in AnyName, NEW domain \in Companies
    PROVE  /\ Renamed(id, name, domain) \in Seq(AnyApp)
           /\ Len(Renamed(id, name, domain)) = Len(apps)
           /\ \A i \in DOMAIN apps \ {id} : Renamed(id, name, domain)[i] = apps[i]
           /\ Renamed(id, name, domain)[id].live = apps[id].live
           /\ Renamed(id, name, domain)[id].name = name
           /\ Renamed(id, name, domain)[id].domain = domain
<1> DEFINE once == [apps[id] EXCEPT !.name = name]
           twice == [once EXCEPT !.domain = domain]
<1>1. apps[id] \in AnyApp
  OBVIOUS
<1>2. /\ twice \in AnyApp
      /\ twice.live = apps[id].live /\ twice.name = name /\ twice.domain = domain
  BY <1>1 DEF AnyApp
<1>3. Renamed(id, name, domain) = [apps EXCEPT ![id] = twice]
  <2>1. [apps EXCEPT ![id].name = name] = [apps EXCEPT ![id] = once]
    OBVIOUS
  <2>2. [apps EXCEPT ![id] = once][id] = once
    OBVIOUS
  <2>3. [[apps EXCEPT ![id] = once] EXCEPT ![id].domain = domain]
            = [[apps EXCEPT ![id] = once] EXCEPT ![id] = twice]
    BY <2>2
  <2>4. [[apps EXCEPT ![id] = once] EXCEPT ![id] = twice] = [apps EXCEPT ![id] = twice]
    OBVIOUS
  <2> QED BY <2>1, <2>3, <2>4 DEF Renamed
<1> HIDE DEF once, twice
<1>4. [apps EXCEPT ![id] = twice] \in Seq(AnyApp) /\ Len([apps EXCEPT ![id] = twice]) = Len(apps)
  BY <1>2
<1>5. /\ [apps EXCEPT ![id] = twice][id] = twice
      /\ \A i \in DOMAIN apps \ {id} : [apps EXCEPT ![id] = twice][i] = apps[i]
  OBVIOUS
<1> QED BY <1>2, <1>3, <1>4, <1>5

LEMMA DeletedApps ==
    ASSUME apps \in Seq(AnyApp), NEW id \in DOMAIN apps
    PROVE  /\ Deleted(id) \in Seq(AnyApp) /\ Len(Deleted(id)) = Len(apps)
           /\ \A i \in DOMAIN apps \ {id} : Deleted(id)[i] = apps[i]
           /\ ~ Deleted(id)[id].live /\ Deleted(id)[id].domain = apps[id].domain
<1>1. apps[id] \in AnyApp
  OBVIOUS
<1>2. [apps[id] EXCEPT !.live = FALSE] \in AnyApp
  BY <1>1 DEF AnyApp
<1>3. Deleted(id) = [apps EXCEPT ![id] = [apps[id] EXCEPT !.live = FALSE]]
  BY DEF Deleted
<1> QED BY <1>1, <1>2, <1>3 DEF AnyApp

LEMMA CreatedApps ==
    ASSUME apps \in Seq(AnyApp), NEW domain \in Companies
    PROVE  LET new == Created(Plain("created"), domain)
           IN  /\ new \in Seq(AnyApp) /\ Len(new) = Len(apps) + 1
               /\ \A i \in DOMAIN apps : i \in DOMAIN new /\ new[i] = apps[i]
               /\ new[Len(new)].live /\ new[Len(new)].domain = domain
<1> DEFINE app == [name |-> Plain("created"), domain |-> domain, live |-> TRUE]
<1>1. app \in AnyApp
  BY DEF AnyApp, AnyName, Plain
<1> QED BY <1>1 DEF Created

-----------------------------------------------------------------------------
(* The instruction.                                                          *)

LEMMA FirstInit == HelloSignInit => HelloSignInv
<1> SUFFICES ASSUME HelloSignInit
             PROVE  HelloSignInv
  OBVIOUS
<1>1. Counters
  BY DEF HelloSignInit, HelloSignStores, Counters
<1>2. PICK base \in {"recipient", "created"} :
          apps = << [name |-> Plain("donor"), domain |-> "donor", live |-> TRUE],
                    [name |-> Plain(base), domain |-> "recipient", live |-> TRUE] >>
  BY DEF HelloSignInit, HelloSignStores
<1>3. /\ [name |-> Plain("donor"), domain |-> "donor", live |-> TRUE] \in AnyApp
      /\ [name |-> Plain(base), domain |-> "recipient", live |-> TRUE] \in AnyApp
  BY DEF AnyApp, AnyName, Plain, Companies
<1>4. /\ apps \in Seq(AnyApp) /\ Len(apps) = 2
      /\ apps[1] \in AnyApp /\ apps[1].live /\ apps[1].domain = "donor"
      /\ apps[2] \in AnyApp /\ apps[2].live /\ apps[2].domain = "recipient"
  BY <1>2, <1>3
<1>5. /\ config = [donor |-> 1, recipient |-> 2] /\ config \in [Companies -> Nat]
      /\ call = "readConfigs" /\ undo = <<>> /\ phase = "moving"
      /\ local = [app |-> config, hs |-> [donor |-> apps[1], recipient |-> apps[2]]]
  BY DEF HelloSignInit, HelloSignStores, Companies
<1>6. /\ local \in [app : [Companies -> Nat], hs : [Companies -> AnyApp]]
      /\ local.app = [donor |-> 1, recipient |-> 2]
      /\ \A c \in Companies : local.hs[c].domain = c
  BY <1>4, <1>5 DEF Companies
<1>7. HelloSignTypes
  BY <1>4, <1>5, <1>6 DEF HelloSignTypes, Calls, Phases
<1>8. HelloSignForward
  BY <1>4, <1>5 DEF HelloSignForward, Queued
<1>9. HelloSignRestorable
  BY <1>4, <1>5 DEF HelloSignRestorable, Queued, Own
<1> QED BY <1>1, <1>5, <1>7, <1>8, <1>9 DEF HelloSignInv, FirstInv

\* A call that fails ends the instruction; what is known stays, unless it was lost.
LEMMA Broken ==
    ASSUME Counters, FirstInv, [HelloSignNext]_helloSignVars, phase = "moving", Break,
           HelloSignTypes', Misled' \/ UNCHANGED <<apps, config>>
    PROVE  FirstInv'
<1>1. phase' = "undoing" /\ UNCHANGED undo
  BY DEF Break
<1>2. ~ Misled' => HelloSignRestorable'
  <2>1. ~ Misled' => HelloSignRestorable /\ UNCHANGED <<apps, config, undo>>
    BY <1>1, CountersStep DEF FirstInv
  <2> QED BY <2>1 DEF HelloSignRestorable, Queued, Own
<1> QED BY <1>1, <1>2 DEF FirstInv

LEMMA BrokenUnchanged ==
    ASSUME Counters, FirstInv, [HelloSignNext]_helloSignVars, phase = "moving", Break,
           UNCHANGED <<apps, config, local>>
    PROVE  FirstInv'
<1>1. HelloSignTypes'
  BY DEF FirstInv, HelloSignTypes, Break, Phases
<1> QED BY <1>1, Broken

\* A call that reads, and a step that only goes on.
LEMMA Onward ==
    ASSUME Counters, FirstInv, [HelloSignNext]_helloSignVars, HelloSignTypes', phase \in {"moving", "done"},
           phase' \in {"moving", "done", "committed"} => HelloSignForward',
           phase' # "undone", UNCHANGED <<apps, config, undo>>
    PROVE  FirstInv'
<1>1. ~ Misled' => HelloSignRestorable'
  <2>1. ~ Misled' => HelloSignRestorable
    BY CountersStep DEF FirstInv
  <2> QED BY <2>1 DEF HelloSignRestorable, Queued, Own
<1> QED BY <1>1 DEF FirstInv

LEMMA ReadConfigsStep ==
    ASSUME Counters, FirstInv, [HelloSignNext]_helloSignVars, ReadConfigs
    PROVE  FirstInv'
<1>1. phase = "moving" /\ call = "readConfigs" /\ HelloSignTypes /\ HelloSignForward
  BY DEF ReadConfigs, At, FirstInv
<1>2. CASE local' = [local EXCEPT !.app = config] /\ call' = "pointRecipient"
           /\ UNCHANGED <<undo, phase, apps, config>>
  <2>1. config = [donor |-> 1, recipient |-> 2]
    BY <1>1 DEF HelloSignForward
  <2>2. HelloSignTypes'
    BY <1>1, <1>2, <2>1 DEF HelloSignTypes, Calls
  <2>3. HelloSignForward'
    BY <1>1, <1>2 DEF HelloSignForward, Queued
  <2> QED BY <1>1, <1>2, <2>2, <2>3, Onward
<1>3. CASE Break /\ UNCHANGED <<apps, config, local>>
  BY <1>1, <1>3, BrokenUnchanged
<1> QED BY <1>2, <1>3 DEF ReadConfigs

LEMMA ReadAppsStep ==
    ASSUME Counters, FirstInv, [HelloSignNext]_helloSignVars, ReadApps
    PROVE  FirstInv'
<1>1. phase = "moving" /\ call = "readApps" /\ HelloSignTypes /\ HelloSignForward
  BY DEF ReadApps, At, FirstInv
<1>2. CASE local' = [local EXCEPT !.hs = [c \in Companies |-> apps[local.app[c]]]]
           /\ call' = "renameRecipient" /\ UNCHANGED <<undo, phase, apps, config>>
  <2>1. /\ local.app["donor"] = 1 /\ local.app["recipient"] = 2
        /\ apps[1] \in AnyApp /\ apps[1].domain = "donor"
        /\ apps[2] \in AnyApp /\ apps[2].domain = "recipient"
    <3>1. apps \in Seq(AnyApp) /\ Len(apps) = 2 /\ DOMAIN apps = 1 .. Len(apps)
      BY <1>1 DEF HelloSignTypes, HelloSignForward
    <3>2. apps[1] \in AnyApp /\ apps[2] \in AnyApp
      <4>1. 1 \in DOMAIN apps /\ 2 \in DOMAIN apps
        BY <3>1
      <4>2. \A i \in DOMAIN apps : apps[i] \in AnyApp
        BY <3>1
      <4> QED BY <4>1, <4>2
    <3>3. apps[1].domain = "donor" /\ apps[2].domain = "recipient"
      BY <1>1 DEF HelloSignTypes, HelloSignForward
    <3>4. local.app["donor"] = 1 /\ local.app["recipient"] = 2
      BY <1>1 DEF HelloSignTypes
    <3> QED BY <3>2, <3>3, <3>4
  <2> DEFINE hs == [c \in Companies |-> apps[local.app[c]]]
  <2>2. hs \in [Companies -> AnyApp] /\ \A c \in Companies : hs[c].domain = c
    BY <2>1 DEF Companies
  <2>3. local' = [app |-> local.app, hs |-> hs]
    BY <1>1, <1>2 DEF HelloSignTypes
  <2> HIDE DEF hs
  <2>4. /\ local' \in [app : [Companies -> Nat], hs : [Companies -> AnyApp]]
        /\ local'.app = local.app /\ local'.hs = hs
    BY <1>1, <2>2, <2>3 DEF HelloSignTypes
  <2>5. HelloSignTypes'
    BY <1>1, <1>2, <2>2, <2>4 DEF HelloSignTypes, Calls
  <2>6. HelloSignForward'
    BY <1>1, <1>2 DEF HelloSignForward, Queued
  <2> QED BY <1>1, <1>2, <2>5, <2>6, Onward
<1>3. CASE Break /\ UNCHANGED <<apps, config, local>>
  BY <1>1, <1>3, BrokenUnchanged
<1> QED BY <1>2, <1>3 DEF ReadApps

\* What a configuration that was written says.
LEMMA Written ==
    ASSUME config \in [Companies -> Nat], NEW company \in Companies, NEW id \in Nat,
           config' = Configured(company, id)
    PROVE  /\ config' \in [Companies -> Nat]
           /\ config'[company] = id
           /\ \A c \in Companies \ {company} : config'[c] = config[c]
BY DEF Configured

LEMMA PointRecipientStep ==
    ASSUME Counters, FirstInv, [HelloSignNext]_helloSignVars, PointRecipient
    PROVE  FirstInv'
<1>1. phase = "moving" /\ call = "pointRecipient" /\ HelloSignTypes /\ HelloSignForward
      /\ UNCHANGED <<apps, local>>
  BY DEF PointRecipient, At, CallIntegrations, FirstInv
<1>2. ASSUME config' = Configured("recipient", local.app.donor)
      PROVE  /\ config' \in [Companies -> Nat]
             /\ config'["recipient"] = 1 /\ config'["donor"] = config["donor"]
  <2>1. local.app.donor = 1
    BY <1>1 DEF HelloSignTypes
  <2> QED BY <1>1, <1>2, <2>1, Written DEF HelloSignTypes, Companies
<1>3. CASE config' = Configured("recipient", local.app.donor) /\ Proceed("readApps")
  <2>1. call' = "readApps" /\ UNCHANGED phase /\ undo' = Append(undo, "pointRecipient")
    BY <1>1, <1>3 DEF Proceed
  <2>2. /\ undo = <<>> /\ undo' \in Seq(UndoActions)
        /\ \A x \in UndoActions : Queued(x)' <=> x = "pointRecipient"
        /\ \A i \in DOMAIN undo' : i = 1
    <3>1. undo = <<>> /\ "pointRecipient" \in UndoActions
      BY <1>1 DEF HelloSignForward, UndoActions, Calls
    <3>2. \A x \in UndoActions : ~ Queued(x)
      BY <3>1 DEF Queued
    <3>3. undo \in Seq(UndoActions)
      BY <1>1 DEF HelloSignTypes
    <3> QED BY <2>1, <3>1, <3>2, <3>3, HelloSignPushed
  <2>3. HelloSignTypes'
    BY <1>1, <1>2, <1>3, <2>1, <2>2 DEF HelloSignTypes, Calls
  <2>4. HelloSignForward'
    <3>1. "pointNew" \in UndoActions
      BY DEF UndoActions
    <3> QED BY <1>1, <1>2, <1>3, <2>1, <2>2, <3>1 DEF HelloSignForward
  <2>5. ~ Misled' => HelloSignRestorable'
    <3>1. ~ Misled' => HelloSignRestorable
      BY <1>1, CountersStep DEF FirstInv
    <3>2. ~ Queued("deleteConfig") /\ apps[1].domain = "donor" /\ apps[2].live
      BY <1>1, <2>2 DEF HelloSignForward, Queued
    <3>3. Own(2)'
      BY <1>1, <3>2 DEF Own, HelloSignTypes
    <3>4. {"renameDonor", "deleteConfig", "deleteApp", "pointNew", "pointRecipient"} \subseteq UndoActions
      BY DEF UndoActions, Calls
    <3> QED BY <1>1, <1>2, <1>3, <2>2, <3>1, <3>2, <3>3, <3>4 DEF HelloSignRestorable
  <2> QED BY <1>1, <2>1, <2>3, <2>4, <2>5 DEF FirstInv
<1>4. CASE GoesWrong("refused") /\ Break /\ UNCHANGED config
  BY <1>1, <1>4, BrokenUnchanged
<1>5. CASE GoesWrong("lost") /\ config' = Configured("recipient", local.app.donor) /\ Break
  <2>1. HelloSignTypes'
    BY <1>1, <1>2, <1>5 DEF HelloSignTypes, Break, Phases
  <2> QED BY <1>1, <1>5, <2>1, LostMisleads, Broken
<1> QED BY <1>3, <1>4, <1>5 DEF PointRecipient, CallIntegrations

\* An action is queued: the call it undoes may have changed what it restores.
LEMMA PushKeeps ==
    ASSUME HelloSignRestorable, HelloSignTypes, ~ Queued("pointNew"),
           NEW c \in UndoActions \ {"pointRecipient", "pointNew"}, undo' = Append(undo, c),
           c = "renameDonor" \/ apps'[1].domain = apps[1].domain,
           c = "deleteConfig" \/ config'["donor"] = config["donor"],
           c = "deleteApp" \/ \A id \in Nat : Own(id) => Own(id)',
           config' \in [Companies -> Nat], config'["recipient"] = config["recipient"]
    PROVE  HelloSignRestorable'
<1>1. undo \in Seq(UndoActions) /\ config \in [Companies -> Nat]
  BY DEF HelloSignTypes
<1>2. {"renameDonor", "deleteConfig", "deleteApp", "pointNew", "pointRecipient"} \subseteq UndoActions
  BY DEF UndoActions, Calls
<1>3. /\ \A x \in UndoActions : Queued(x)' <=> Queued(x) \/ x = c
      /\ \A i \in DOMAIN undo' : undo'[i] = "pointRecipient"
                                     => i \in DOMAIN undo /\ undo[i] = "pointRecipient"
  BY <1>1, HelloSignPushed
<1>4. /\ Queued("renameDonor")' \/ apps'[1].domain = "donor"
      /\ Queued("deleteConfig")' \/ config'["donor"] = 1
      /\ ~ Queued("pointNew")'
      /\ \A i \in DOMAIN undo' : undo'[i] = "pointRecipient" => i = 1
  BY <1>2, <1>3 DEF HelloSignRestorable
<1>5. config["recipient"] \in Nat
  BY <1>1 DEF Companies
<1>6. ~ Queued("deleteApp")'
          => /\ Queued("pointRecipient")' => Own(2)'
             /\ ~ Queued("pointRecipient")' => Own(config["recipient"])'
  <2>1. ~ Queued("deleteApp")' => ~ Queued("deleteApp") /\ c # "deleteApp"
    BY <1>2, <1>3
  <2>2. Queued("pointRecipient")' <=> Queued("pointRecipient")
    BY <1>2, <1>3
  <2>3. ASSUME ~ Queued("deleteApp")'
        PROVE  /\ Queued("pointRecipient") => Own(2)'
               /\ ~ Queued("pointRecipient") => Own(config["recipient"])'
    <3>1. /\ Queued("pointRecipient") => Own(2)
          /\ ~ Queued("pointRecipient") => Own(config["recipient"])
      BY <2>1, <2>3 DEF HelloSignRestorable
    <3>2. \A id \in Nat : Own(id) => Own(id)'
      BY <2>1, <2>3
    <3>3. Own(config["recipient"]) => Own(config["recipient"])'
      BY <3>2, <1>5 DEF Own
    <3> QED BY <3>1, <3>2, <3>3
  <2> QED BY <2>2, <2>3
<1> QED BY <1>4, <1>6 DEF HelloSignRestorable

\* Application 1 or 2 is renamed: it stays, and so do the others.
LEMMA RenamedKeeps ==
    ASSUME HelloSignTypes, NEW id \in {1, 2}, NEW name \in AnyName, NEW domain \in Companies,
           id = 2 => domain = "recipient", apps' = Renamed(id, name, domain)
    PROVE  /\ apps' \in Seq(AnyApp) /\ Len(apps') = Len(apps)
           /\ apps'[1].live /\ apps'[2].domain = "recipient"
           /\ apps'[2].live = apps[2].live
           /\ apps'[id].name = name /\ apps'[id].domain = domain
           /\ id = 2 => apps'[1] = apps[1]
           /\ \A i \in Nat : Own(i) => Own(i)'
<1>1. /\ apps \in Seq(AnyApp) /\ DOMAIN apps = 1 .. Len(apps) /\ Len(apps) \in Nat
      /\ {1, 2} \subseteq DOMAIN apps
  BY DEF HelloSignTypes
<1>2. /\ apps' \in Seq(AnyApp) /\ Len(apps') = Len(apps)
      /\ \A i \in DOMAIN apps \ {id} : apps'[i] = apps[i]
      /\ apps'[id].live = apps[id].live
      /\ apps'[id].name = name /\ apps'[id].domain = domain
  <2>1. id \in DOMAIN apps
    BY <1>1
  <2> QED BY <1>1, <2>1, RenamedApps
<1>3. DOMAIN apps' = DOMAIN apps
  BY <1>1, <1>2
<1>4. /\ apps'[1].live /\ apps'[2].domain = "recipient" /\ apps'[2].live = apps[2].live
      /\ id = 2 => apps'[1] = apps[1]
  <2>1. apps[1].live /\ apps[2].domain = "recipient"
    BY DEF HelloSignTypes
  <2>2. CASE id = 1
    <3>1. apps'[2] = apps[2] /\ apps'[1].live = apps[1].live
      BY <1>1, <1>2, <2>2
    <3> QED BY <2>1, <2>2, <3>1
  <2>3. CASE id = 2
    <3>1. apps'[1] = apps[1] /\ apps'[2].live = apps[2].live /\ apps'[2].domain = domain
      BY <1>1, <1>2, <2>3
    <3> QED BY <2>1, <2>3, <3>1
  <2> QED BY <2>2, <2>3
<1>5. ASSUME NEW i \in Nat, Own(i)
      PROVE  Own(i)'
  <2>1. CASE i = id
    BY <1>2, <1>3, <1>5, <2>1 DEF Own
  <2>2. CASE i # id
    BY <1>2, <1>3, <1>5, <2>2 DEF Own
  <2> QED BY <2>1, <2>2
<1> QED BY <1>2, <1>4, <1>5

LEMMA NamesOf ==
    ASSUME HelloSignTypes
    PROVE  /\ local.app.donor = 1 /\ local.app.recipient = 2
           /\ local.hs.recipient.name \in AnyName /\ local.hs.donor.name \in AnyName
           /\ local.hs.recipient.domain = "recipient" /\ local.hs.donor.domain = "donor"
           /\ TemporaryName \in AnyName
<1>1. local.app.donor = 1 /\ local.app.recipient = 2
  BY DEF HelloSignTypes
<1>2. /\ local.hs["recipient"] \in AnyApp /\ local.hs["recipient"].domain = "recipient"
      /\ local.hs["donor"] \in AnyApp /\ local.hs["donor"].domain = "donor"
  BY DEF HelloSignTypes, Companies
<1>3. local.hs["recipient"].name \in AnyName /\ local.hs["donor"].name \in AnyName
  BY <1>2 DEF AnyApp
<1>4. TemporaryName \in AnyName
  <2> DEFINE n == local.hs["recipient"].name
  <2>1. n.suffixes + 1 \in Nat /\ n \in AnyName
    BY <1>3 DEF AnyName
  <2>2. [n EXCEPT !.suffixes = n.suffixes + 1] \in AnyName
    BY <2>1 DEF AnyName
  <2> QED BY <2>2 DEF TemporaryName
<1> QED BY <1>1, <1>2, <1>3, <1>4

LEMMA RenameRecipientStep ==
    ASSUME Counters, FirstInv, [HelloSignNext]_helloSignVars, RenameRecipient
    PROVE  FirstInv'
<1> DEFINE new == Renamed(2, TemporaryName, apps[2].domain)
           ok == MayRename(2, TemporaryName)
<1>1. /\ phase = "moving" /\ call = "renameRecipient" /\ HelloSignTypes /\ HelloSignForward
      /\ UNCHANGED <<config, local>>
  BY DEF RenameRecipient, At, CallHelloSign, FirstInv
<1>2. \/ apps' = new /\ Proceed("renameDonor")
      \/ Break /\ UNCHANGED apps
      \/ GoesWrong("lost") /\ apps' = new /\ Break
  BY <1>1, NamesOf DEF RenameRecipient, CallHelloSign
<1>3. ASSUME apps' = new
      PROVE  /\ apps' \in Seq(AnyApp) /\ Len(apps') = Len(apps)
             /\ apps'[1] = apps[1] /\ apps'[1].live
             /\ apps'[2].domain = "recipient" /\ apps'[2].live = apps[2].live
             /\ \A i \in Nat : Own(i) => Own(i)'
  <2>1. apps[2].domain = "recipient" /\ "recipient" \in Companies
    BY <1>1 DEF HelloSignTypes, Companies
  <2> QED BY <1>1, <1>3, <2>1, NamesOf, RenamedKeeps
<1>4. CASE apps' = new /\ Proceed("renameDonor")
  <2>1. /\ call' = "renameDonor" /\ UNCHANGED phase /\ undo' = Append(undo, "renameRecipient")
        /\ "renameRecipient" \in UndoActions \ {"pointRecipient", "pointNew"}
    BY <1>1, <1>4 DEF Proceed, UndoActions, Calls
  <2>2. undo' \in Seq(UndoActions) /\ ~ Queued("pointNew")'
    <3>1. undo \in Seq(UndoActions) /\ ~ Queued("pointNew") /\ "pointNew" \in UndoActions
      BY <1>1 DEF HelloSignTypes, HelloSignForward, UndoActions
    <3> QED BY <2>1, <3>1, HelloSignPushed
  <2>3. HelloSignTypes'
    BY <1>1, <1>3, <1>4, <2>1, <2>2 DEF HelloSignTypes, Calls
  <2>4. HelloSignForward'
    BY <1>1, <1>3, <1>4, <2>1, <2>2 DEF HelloSignForward
  <2>5. ~ Misled' => HelloSignRestorable'
    <3>1. ~ Misled' => HelloSignRestorable
      BY <1>1, CountersStep DEF FirstInv
    <3>2. ~ Queued("pointNew") /\ config' \in [Companies -> Nat]
      BY <1>1 DEF HelloSignForward, HelloSignTypes
    <3> QED BY <1>1, <1>3, <1>4, <2>1, <3>1, <3>2, PushKeeps
  <2> QED BY <1>1, <2>1, <2>3, <2>4, <2>5 DEF FirstInv
<1>5. CASE Break /\ UNCHANGED apps
  BY <1>1, <1>5, BrokenUnchanged
<1>6. CASE GoesWrong("lost") /\ apps' = new /\ Break
  <2>1. HelloSignTypes'
    BY <1>1, <1>3, <1>6 DEF HelloSignTypes, Break, Phases
  <2> QED BY <1>1, <1>6, <2>1, LostMisleads, Broken
<1> QED BY <1>2, <1>4, <1>5, <1>6

LEMMA RenameDonorStep ==
    ASSUME Counters, FirstInv, [HelloSignNext]_helloSignVars, RenameDonor
    PROVE  FirstInv'
<1> DEFINE to == local.hs.recipient
           new == Renamed(1, to.name, to.domain)
<1>1. /\ phase = "moving" /\ call = "renameDonor" /\ HelloSignTypes /\ HelloSignForward
      /\ UNCHANGED <<config, local>>
  BY DEF RenameDonor, At, CallHelloSign, FirstInv
<1>2. \/ apps' = new /\ Proceed("deleteApp")
      \/ Break /\ UNCHANGED apps
      \/ GoesWrong("lost") /\ apps' = new /\ Break
  BY <1>1, NamesOf DEF RenameDonor, CallHelloSign
<1>3. ASSUME apps' = new
      PROVE  /\ apps' \in Seq(AnyApp) /\ Len(apps') = Len(apps)
             /\ apps'[1].live /\ apps'[1].domain = "recipient" /\ apps'[1].name = to.name
             /\ apps'[2].domain = "recipient" /\ apps'[2].live = apps[2].live
             /\ \A i \in Nat : Own(i) => Own(i)'
  <2>1. "recipient" \in Companies
    BY DEF Companies
  <2> QED BY <1>1, <1>3, <2>1, NamesOf, RenamedKeeps
<1>4. CASE apps' = new /\ Proceed("deleteApp")
  <2>1. /\ call' = "deleteApp" /\ UNCHANGED phase /\ undo' = Append(undo, "renameDonor")
        /\ "renameDonor" \in UndoActions \ {"pointRecipient", "pointNew"}
    BY <1>1, <1>4 DEF Proceed, UndoActions, Calls
  <2>2. undo' \in Seq(UndoActions) /\ ~ Queued("pointNew")'
    <3>1. undo \in Seq(UndoActions) /\ ~ Queued("pointNew") /\ "pointNew" \in UndoActions
      BY <1>1 DEF HelloSignTypes, HelloSignForward, UndoActions
    <3> QED BY <2>1, <3>1, HelloSignPushed
  <2>3. HelloSignTypes'
    BY <1>1, <1>3, <1>4, <2>1, <2>2 DEF HelloSignTypes, Calls
  <2>4. HelloSignForward'
    BY <1>1, <1>3, <1>4, <2>1, <2>2 DEF HelloSignForward
  <2>5. ~ Misled' => HelloSignRestorable'
    <3>1. ~ Misled' => HelloSignRestorable
      BY <1>1, CountersStep DEF FirstInv
    <3>2. ~ Queued("pointNew") /\ config' \in [Companies -> Nat]
      BY <1>1 DEF HelloSignForward, HelloSignTypes
    <3> QED BY <1>1, <1>3, <1>4, <2>1, <3>1, <3>2, PushKeeps
  <2> QED BY <1>1, <2>1, <2>3, <2>4, <2>5 DEF FirstInv
<1>5. CASE Break /\ UNCHANGED apps
  BY <1>1, <1>5, BrokenUnchanged
<1>6. CASE GoesWrong("lost") /\ apps' = new /\ Break
  <2>1. HelloSignTypes'
    BY <1>1, <1>3, <1>6 DEF HelloSignTypes, Break, Phases
  <2> QED BY <1>1, <1>6, <2>1, LostMisleads, Broken
<1> QED BY <1>2, <1>4, <1>5, <1>6

LEMMA DeleteAppStep ==
    ASSUME Counters, FirstInv, [HelloSignNext]_helloSignVars, DeleteApp
    PROVE  FirstInv'
<1>1. /\ phase = "moving" /\ call = "deleteApp" /\ HelloSignTypes /\ HelloSignForward
      /\ UNCHANGED <<config, local>>
  BY DEF DeleteApp, At, CallHelloSign, FirstInv
<1>2. \/ apps' = Deleted(2) /\ Proceed("deleteConfig")
      \/ Break /\ UNCHANGED apps
      \/ GoesWrong("lost") /\ apps' = Deleted(2) /\ Break
  BY <1>1, NamesOf DEF DeleteApp, CallHelloSign
<1>3. ASSUME apps' = Deleted(2)
      PROVE  /\ apps' \in Seq(AnyApp) /\ Len(apps') = Len(apps)
             /\ apps'[1] = apps[1] /\ apps'[1].live
             /\ apps'[2].domain = "recipient" /\ ~ apps'[2].live
  <2>1. apps \in Seq(AnyApp) /\ {1, 2} \subseteq DOMAIN apps
    BY <1>1 DEF HelloSignTypes
  <2> QED BY <1>1, <1>3, <2>1, DeletedApps DEF HelloSignTypes
<1>4. CASE apps' = Deleted(2) /\ Proceed("deleteConfig")
  <2>1. /\ call' = "deleteConfig" /\ UNCHANGED phase /\ undo' = Append(undo, "deleteApp")
        /\ "deleteApp" \in UndoActions \ {"pointRecipient", "pointNew"}
    BY <1>1, <1>4 DEF Proceed, UndoActions, Calls
  <2>2. undo' \in Seq(UndoActions) /\ ~ Queued("pointNew")'
    <3>1. undo \in Seq(UndoActions) /\ ~ Queued("pointNew") /\ "pointNew" \in UndoActions
      BY <1>1 DEF HelloSignTypes, HelloSignForward, UndoActions
    <3> QED BY <2>1, <3>1, HelloSignPushed
  <2>3. HelloSignTypes'
    BY <1>1, <1>3, <1>4, <2>1, <2>2 DEF HelloSignTypes, Calls
  <2>4. HelloSignForward'
    BY <1>1, <1>3, <1>4, <2>1, <2>2 DEF HelloSignForward
  <2>5. ~ Misled' => HelloSignRestorable'
    <3>1. ~ Misled' => HelloSignRestorable
      BY <1>1, CountersStep DEF FirstInv
    <3>2. ~ Queued("pointNew") /\ config' \in [Companies -> Nat]
      BY <1>1 DEF HelloSignForward, HelloSignTypes
    <3> QED BY <1>1, <1>3, <1>4, <2>1, <3>1, <3>2, PushKeeps
  <2> QED BY <1>1, <2>1, <2>3, <2>4, <2>5 DEF FirstInv
<1>5. CASE Break /\ UNCHANGED apps
  BY <1>1, <1>5, BrokenUnchanged
<1>6. CASE GoesWrong("lost") /\ apps' = Deleted(2) /\ Break
  <2>1. HelloSignTypes'
    BY <1>1, <1>3, <1>6 DEF HelloSignTypes, Break, Phases
  <2> QED BY <1>1, <1>6, <2>1, LostMisleads, Broken
<1> QED BY <1>2, <1>4, <1>5, <1>6

LEMMA DeleteConfigStep ==
    ASSUME Counters, FirstInv, [HelloSignNext]_helloSignVars, DeleteConfig
    PROVE  FirstInv'
<1>1. /\ phase = "moving" /\ call = "deleteConfig" /\ HelloSignTypes /\ HelloSignForward
      /\ UNCHANGED <<apps, local>>
  BY DEF DeleteConfig, At, CallIntegrations, FirstInv
<1>2. ASSUME config' = Configured("donor", NoApp)
      PROVE  /\ config' \in [Companies -> Nat]
             /\ config'["donor"] = NoApp /\ config'["recipient"] = config["recipient"]
  BY <1>1, <1>2, Written DEF HelloSignTypes, Companies, NoApp
<1>3. CASE config' = Configured("donor", NoApp) /\ Proceed("returned")
  <2>1. /\ call' = "returned" /\ UNCHANGED phase /\ undo' = Append(undo, "deleteConfig")
        /\ "deleteConfig" \in UndoActions \ {"pointRecipient", "pointNew"}
    BY <1>1, <1>3 DEF Proceed, UndoActions, Calls
  <2>2. undo' \in Seq(UndoActions) /\ ~ Queued("pointNew")'
    <3>1. undo \in Seq(UndoActions) /\ ~ Queued("pointNew") /\ "pointNew" \in UndoActions
      BY <1>1 DEF HelloSignTypes, HelloSignForward, UndoActions
    <3> QED BY <2>1, <3>1, HelloSignPushed
  <2>3. HelloSignTypes'
    BY <1>1, <1>2, <1>3, <2>1, <2>2 DEF HelloSignTypes, Calls
  <2>4. HelloSignForward'
    BY <1>1, <1>2, <1>3, <2>1, <2>2 DEF HelloSignForward
  <2>5. ~ Misled' => HelloSignRestorable'
    <3>1. ~ Misled' => HelloSignRestorable
      BY <1>1, CountersStep DEF FirstInv
    <3>2. ~ Queued("pointNew") /\ \A i \in Nat : Own(i) => Own(i)'
      BY <1>1 DEF HelloSignForward, Own
    <3> QED BY <1>1, <1>2, <1>3, <2>1, <3>1, <3>2, PushKeeps
  <2> QED BY <1>1, <2>1, <2>3, <2>4, <2>5 DEF FirstInv
<1>4. CASE GoesWrong("refused") /\ Break /\ UNCHANGED config
  BY <1>1, <1>4, BrokenUnchanged
<1>5. CASE GoesWrong("lost") /\ config' = Configured("donor", NoApp) /\ Break
  <2>1. HelloSignTypes'
    BY <1>1, <1>2, <1>5 DEF HelloSignTypes, Break, Phases
  <2> QED BY <1>1, <1>5, <2>1, LostMisleads, Broken
<1> QED BY <1>3, <1>4, <1>5 DEF DeleteConfig, CallIntegrations

\* The instruction returns; the rest of the patch succeeds or begins the rollback.
LEMMA AfterwardsStep ==
    ASSUME Counters, FirstInv, [HelloSignNext]_helloSignVars, Return \/ HelloSignLater
    PROVE  FirstInv'
<1>1. /\ phase \in {"moving", "done"} /\ call = "returned" /\ HelloSignTypes /\ HelloSignForward
      /\ phase' \in {"done", "committed", "undoing", "abandoned"}
      /\ UNCHANGED <<apps, config, call, local, undo>>
  BY DEF Return, HelloSignLater, LaterInstructions, At, FirstInv, HelloSignForward
<1>2. HelloSignTypes'
  BY <1>1 DEF HelloSignTypes, Phases
<1>3. HelloSignForward'
  BY <1>1 DEF HelloSignForward, Queued
<1> QED BY <1>1, <1>2, <1>3, Onward

-----------------------------------------------------------------------------
(* The rollback.                                                             *)

\* The first action of the queue has restored what it stands for.
LEMMA ShiftKeeps ==
    ASSUME HelloSignRestorable, HelloSignTypes, undo # <<>>, undo' = Tail(undo), Head(undo) # "deleteApp",
           apps'[1].domain = IF Head(undo) = "renameDonor" THEN "donor" ELSE apps[1].domain,
           config'["donor"] = IF Head(undo) = "deleteConfig" THEN 1 ELSE config["donor"],
           Head(undo) = "pointRecipient" => config'["recipient"] = 2,
           Head(undo) = "pointNew" => config'["recipient"] = Len(apps),
           Head(undo) \notin {"pointRecipient", "pointNew"}
               => config'["recipient"] = config["recipient"],
           Len(apps') = Len(apps), \A id \in Nat : Own(id) => Own(id)'
    PROVE  HelloSignRestorable'
<1>1. undo \in Seq(UndoActions) /\ config["recipient"] \in Nat /\ Len(apps) \in Nat
  BY DEF HelloSignTypes, Companies
<1>2. {"renameDonor", "deleteConfig", "deleteApp", "pointNew", "pointRecipient"} \subseteq UndoActions
  BY DEF UndoActions, Calls
<1>3. /\ \A x \in UndoActions : Queued(x)' => Queued(x)
      /\ \A x \in UndoActions : Queued(x) => Queued(x)' \/ x = Head(undo)
      /\ \A i \in DOMAIN undo' : i + 1 \in DOMAIN undo /\ i + 1 # 1 /\ undo'[i] = undo[i + 1]
  BY <1>1, Shifted
<1>4. /\ Queued("renameDonor")' \/ apps'[1].domain = "donor"
      /\ Queued("deleteConfig")' \/ config'["donor"] = 1
  BY <1>2, <1>3 DEF HelloSignRestorable
<1>5. \A i \in DOMAIN undo' : undo'[i] # "pointRecipient"
  BY <1>3 DEF HelloSignRestorable
<1>6. ~ Queued("pointRecipient")'
  BY <1>5 DEF Queued
<1>7. Queued("pointNew")' => Own(Len(apps))'
  <2>1. Queued("pointNew")' => Own(Len(apps))
    BY <1>2, <1>3 DEF HelloSignRestorable
  <2>2. Own(Len(apps)) => Own(Len(apps))'
    <3> DEFINE n == Len(apps)
    <3>1. n \in Nat /\ n' = n
      BY <1>1
    <3> HIDE DEF n
    <3>2. Own(n) => Own(n)'
      BY <3>1 DEF Own
    <3> QED BY <3>1, <3>2 DEF n
  <2> QED BY <2>1, <2>2
<1>8. ASSUME ~ Queued("deleteApp")', ~ Queued("pointNew")'
      PROVE  Own(config["recipient"])'
  <2>1. ~ Queued("deleteApp")
    BY <1>2, <1>3, <1>8
  <2>2. CASE Head(undo) = "pointNew"
    <3>1. Head(undo) = undo[1] /\ 1 \in DOMAIN undo
      BY <1>1
    <3>2. Queued("pointNew")
      BY <2>2, <3>1 DEF Queued
    <3>3. Own(Len(apps)) /\ config'["recipient"] = Len(apps)
      BY <2>2, <3>2 DEF HelloSignRestorable
    <3> QED BY <1>1, <3>3 DEF Own
  <2>3. CASE Head(undo) = "pointRecipient"
    <3>1. Head(undo) = undo[1] /\ 1 \in DOMAIN undo
      BY <1>1
    <3>2. Queued("pointRecipient") /\ ~ Queued("pointNew")
      BY <1>2, <1>3, <1>8, <2>3, <3>1 DEF Queued
    <3>3. Own(2) /\ config'["recipient"] = 2
      BY <2>1, <2>3, <3>2 DEF HelloSignRestorable
    <3> QED BY <3>3 DEF Own
  <2>4. CASE Head(undo) \notin {"pointNew", "pointRecipient"}
    <3>1. ~ Queued("pointNew") /\ ~ Queued("pointRecipient")
      BY <1>2, <1>3, <1>6, <1>8, <2>4
    <3>2. Own(config["recipient"]) /\ config'["recipient"] = config["recipient"]
      BY <2>1, <2>4, <3>1 DEF HelloSignRestorable
    <3> QED BY <1>1, <3>2 DEF Own
  <2> QED BY <2>2, <2>3, <2>4
<1> QED BY <1>4, <1>5, <1>6, <1>7, <1>8 DEF HelloSignRestorable

LEMMA UndoPointRecipientStep ==
    ASSUME Counters, FirstInv, [HelloSignNext]_helloSignVars, UndoPointRecipient
    PROVE  FirstInv'
<1>1. /\ phase = "undoing" /\ undo # <<>> /\ Head(undo) = "pointRecipient" /\ HelloSignTypes
      /\ UNCHANGED <<apps, call, local>>
  BY DEF UndoPointRecipient, Undoing, NextUndo, UndoIntegrations, FirstInv
<1>2. ASSUME config' = Configured("recipient", local.app.recipient)
      PROVE  /\ config' \in [Companies -> Nat]
             /\ config'["recipient"] = 2 /\ config'["donor"] = config["donor"]
  BY <1>1, <1>2, NamesOf, Written DEF HelloSignTypes, Companies
<1>3. /\ undo' = Tail(undo) /\ phase' \in {"undoing", "abandoned"}
      /\ config' = Configured("recipient", local.app.recipient) \/ config' = config
      /\ phase' = "undoing" => config' = Configured("recipient", local.app.recipient)
  BY <1>1 DEF UndoPointRecipient, UndoIntegrations, Undone, Abandon
<1>4. HelloSignTypes'
  <2>1. undo' \in Seq(UndoActions)
    BY <1>1, <1>3, Shifted DEF HelloSignTypes
  <2>2. config' \in [Companies -> Nat]
    BY <1>1, <1>2, <1>3 DEF HelloSignTypes
  <2> QED BY <1>1, <1>3, <2>1, <2>2 DEF HelloSignTypes, Phases
<1>5. ~ Misled' /\ phase' = "undoing" => HelloSignRestorable'
  <2>1. ~ Misled' => HelloSignRestorable
    BY <1>1, CountersStep DEF FirstInv
  <2>2. \A i \in Nat : Own(i) => Own(i)'
    BY <1>1 DEF Own
  <2> QED BY <1>1, <1>2, <1>3, <2>1, <2>2, ShiftKeeps
<1> QED BY <1>3, <1>4, <1>5 DEF FirstInv

LEMMA UndoDeleteConfigStep ==
    ASSUME Counters, FirstInv, [HelloSignNext]_helloSignVars, UndoDeleteConfig
    PROVE  FirstInv'
<1>1. /\ phase = "undoing" /\ undo # <<>> /\ Head(undo) = "deleteConfig" /\ HelloSignTypes
      /\ UNCHANGED <<apps, call, local>>
  BY DEF UndoDeleteConfig, Undoing, NextUndo, UndoIntegrations, FirstInv
<1>2. ASSUME config' = Configured("donor", local.app.donor)
      PROVE  /\ config' \in [Companies -> Nat]
             /\ config'["donor"] = 1 /\ config'["recipient"] = config["recipient"]
  BY <1>1, <1>2, NamesOf, Written DEF HelloSignTypes, Companies
<1>3. /\ undo' = Tail(undo) /\ phase' \in {"undoing", "abandoned"}
      /\ config' = Configured("donor", local.app.donor) \/ config' = config
      /\ phase' = "undoing" => config' = Configured("donor", local.app.donor)
  BY <1>1 DEF UndoDeleteConfig, UndoIntegrations, Undone, Abandon
<1>4. HelloSignTypes'
  <2>1. undo' \in Seq(UndoActions)
    BY <1>1, <1>3, Shifted DEF HelloSignTypes
  <2>2. config' \in [Companies -> Nat]
    BY <1>1, <1>2, <1>3 DEF HelloSignTypes
  <2> QED BY <1>1, <1>3, <2>1, <2>2 DEF HelloSignTypes, Phases
<1>5. ~ Misled' /\ phase' = "undoing" => HelloSignRestorable'
  <2>1. ~ Misled' => HelloSignRestorable
    BY <1>1, CountersStep DEF FirstInv
  <2>2. \A i \in Nat : Own(i) => Own(i)'
    BY <1>1 DEF Own
  <2> QED BY <1>1, <1>2, <1>3, <2>1, <2>2, ShiftKeeps
<1> QED BY <1>3, <1>4, <1>5 DEF FirstInv

LEMMA UndoDeleteAppPointStep ==
    ASSUME Counters, FirstInv, [HelloSignNext]_helloSignVars, UndoDeleteAppPoint
    PROVE  FirstInv'
<1>1. /\ phase = "undoing" /\ undo # <<>> /\ Head(undo) = "pointNew" /\ HelloSignTypes
      /\ UNCHANGED <<apps, call, local>>
  BY DEF UndoDeleteAppPoint, Undoing, NextUndo, UndoIntegrations, FirstInv
<1>2. ASSUME config' = Configured("recipient", Len(apps))
      PROVE  /\ config' \in [Companies -> Nat]
             /\ config'["recipient"] = Len(apps) /\ config'["donor"] = config["donor"]
  <2>1. Len(apps) \in Nat
    BY <1>1 DEF HelloSignTypes
  <2> QED BY <1>1, <1>2, <2>1, Written DEF HelloSignTypes, Companies
<1>3. /\ undo' = Tail(undo) /\ phase' \in {"undoing", "abandoned"}
      /\ config' = Configured("recipient", Len(apps)) \/ config' = config
      /\ phase' = "undoing" => config' = Configured("recipient", Len(apps))
  BY <1>1 DEF UndoDeleteAppPoint, UndoIntegrations, Undone, Abandon
<1>4. HelloSignTypes'
  <2>1. undo' \in Seq(UndoActions)
    BY <1>1, <1>3, Shifted DEF HelloSignTypes
  <2>2. config' \in [Companies -> Nat]
    BY <1>1, <1>2, <1>3 DEF HelloSignTypes
  <2> QED BY <1>1, <1>3, <2>1, <2>2 DEF HelloSignTypes, Phases
<1>5. ~ Misled' /\ phase' = "undoing" => HelloSignRestorable'
  <2>1. ~ Misled' => HelloSignRestorable
    BY <1>1, CountersStep DEF FirstInv
  <2>2. \A i \in Nat : Own(i) => Own(i)'
    BY <1>1 DEF Own
  <2> QED BY <1>1, <1>2, <1>3, <2>1, <2>2, ShiftKeeps
<1> QED BY <1>3, <1>4, <1>5 DEF FirstInv

LEMMA UndoRenameRecipientStep ==
    ASSUME Counters, FirstInv, [HelloSignNext]_helloSignVars, UndoRenameRecipient
    PROVE  FirstInv'
<1> DEFINE new == Renamed(2, local.hs.recipient.name, apps[2].domain)
<1>1. /\ phase = "undoing" /\ undo # <<>> /\ Head(undo) = "renameRecipient" /\ HelloSignTypes
      /\ undo' = Tail(undo) /\ UNCHANGED <<phase, config, call, local>>
  BY DEF UndoRenameRecipient, Undoing, NextUndo, Undone, FirstInv
<1>2. apps' = new \/ apps' = apps
  BY <1>1, NamesOf DEF UndoRenameRecipient
<1>3. /\ apps' \in Seq(AnyApp) /\ Len(apps') = Len(apps) /\ apps'[1] = apps[1]
      /\ apps'[1].live /\ apps'[2].domain = "recipient"
      /\ \A i \in Nat : Own(i) => Own(i)'
  <2>1. CASE apps' = new
    <3>1. apps[2].domain = "recipient" /\ "recipient" \in Companies
      BY <1>1 DEF HelloSignTypes, Companies
    <3> QED BY <1>1, <2>1, <3>1, NamesOf, RenamedKeeps
  <2>2. CASE apps' = apps
    BY <1>1, <2>2 DEF HelloSignTypes, Own
  <2> QED BY <1>2, <2>1, <2>2
<1>4. HelloSignTypes'
  <2>1. undo' \in Seq(UndoActions)
    BY <1>1, Shifted DEF HelloSignTypes
  <2> QED BY <1>1, <1>3, <2>1 DEF HelloSignTypes
<1>5. ~ Misled' => HelloSignRestorable'
  <2>1. ~ Misled' => HelloSignRestorable
    BY <1>1, CountersStep DEF FirstInv
  <2> QED BY <1>1, <1>3, <2>1, ShiftKeeps
<1> QED BY <1>1, <1>4, <1>5 DEF FirstInv

LEMMA UndoRenameDonorStep ==
    ASSUME Counters, FirstInv, [HelloSignNext]_helloSignVars, UndoRenameDonor
    PROVE  FirstInv'
<1> DEFINE to == local.hs.donor
           new == Renamed(1, to.name, to.domain)
<1>1. /\ phase = "undoing" /\ undo # <<>> /\ Head(undo) = "renameDonor" /\ HelloSignTypes
      /\ UNCHANGED <<config, call, local>>
  BY DEF UndoRenameDonor, Undoing, NextUndo, UndoHelloSign, FirstInv
<1>2. /\ undo' = Tail(undo) /\ phase' \in {"undoing", "abandoned"}
      /\ apps' = new \/ apps' = apps
      /\ phase' = "undoing" => apps' = new
  BY <1>1, NamesOf DEF UndoRenameDonor, UndoHelloSign, Abandon
<1>3. ASSUME apps' = new
      PROVE  /\ apps' \in Seq(AnyApp) /\ Len(apps') = Len(apps)
             /\ apps'[1].live /\ apps'[1].domain = "donor" /\ apps'[2].domain = "recipient"
             /\ \A i \in Nat : Own(i) => Own(i)'
  <2>1. "donor" \in Companies
    BY DEF Companies
  <2> QED BY <1>1, <1>3, <2>1, NamesOf, RenamedKeeps
<1>4. HelloSignTypes'
  <2>1. undo' \in Seq(UndoActions)
    BY <1>1, <1>2, Shifted DEF HelloSignTypes
  <2>2. /\ apps' \in Seq(AnyApp) /\ Len(apps') >= 2
        /\ apps'[1].live /\ apps'[2].domain = "recipient"
    BY <1>1, <1>2, <1>3 DEF HelloSignTypes
  <2> QED BY <1>1, <1>2, <2>1, <2>2 DEF HelloSignTypes, Phases
<1>5. ~ Misled' /\ phase' = "undoing" => HelloSignRestorable'
  <2>1. ~ Misled' => HelloSignRestorable
    BY <1>1, CountersStep DEF FirstInv
  <2> QED BY <1>1, <1>2, <1>3, <2>1, ShiftKeeps
<1> QED BY <1>2, <1>4, <1>5 DEF FirstInv

\* The recipient gets a new application, which its configuration will name next.
LEMMA UndoDeleteAppStep ==
    ASSUME Counters, FirstInv, [HelloSignNext]_helloSignVars, UndoDeleteApp
    PROVE  FirstInv'
<1> DEFINE new == Created(Plain("created"), local.hs.recipient.domain)
<1>1. /\ phase = "undoing" /\ undo # <<>> /\ Head(undo) = "deleteApp" /\ HelloSignTypes
      /\ UNCHANGED <<config, call, local>>
  BY DEF UndoDeleteApp, Undoing, NextUndo, UndoHelloSign, FirstInv
<1>2. \/ apps' = new /\ undo' = <<"pointNew">> \o Tail(undo) /\ UNCHANGED phase
      \/ Abandon /\ (apps' = new \/ apps' = apps)
  BY <1>1 DEF UndoDeleteApp, UndoHelloSign
<1>3. ASSUME apps' = new
      PROVE  /\ apps' \in Seq(AnyApp) /\ Len(apps') = Len(apps) + 1
             /\ apps'[1] = apps[1] /\ apps'[1].live /\ apps'[2].domain = "recipient"
             /\ Own(Len(apps))'
  <2>1. /\ apps \in Seq(AnyApp) /\ Len(apps) \in Nat /\ Len(apps) >= 2
        /\ {1, 2} \subseteq DOMAIN apps
        /\ apps[1].live /\ apps[2].domain = "recipient"
    BY <1>1 DEF HelloSignTypes
  <2>2. local.hs.recipient.domain = "recipient" /\ "recipient" \in Companies
    BY <1>1, NamesOf DEF Companies
  <2>3. /\ apps' \in Seq(AnyApp) /\ Len(apps') = Len(apps) + 1
        /\ \A i \in DOMAIN apps : i \in DOMAIN apps' /\ apps'[i] = apps[i]
        /\ apps'[Len(apps')].live /\ apps'[Len(apps')].domain = "recipient"
    BY <1>3, <2>1, <2>2, CreatedApps
  <2>4. Len(apps') \in DOMAIN apps' /\ Len(apps') # 1
    BY <2>1, <2>3
  <2> QED BY <2>1, <2>3, <2>4 DEF Own
<1>4. CASE Abandon /\ (apps' = new \/ apps' = apps)
  <2>1. undo' \in Seq(UndoActions) /\ phase' = "abandoned"
    BY <1>1, <1>4, Shifted DEF Abandon, HelloSignTypes
  <2>2. /\ apps' \in Seq(AnyApp) /\ Len(apps') >= 2
        /\ apps'[1].live /\ apps'[2].domain = "recipient"
    BY <1>1, <1>3, <1>4 DEF HelloSignTypes
  <2>3. HelloSignTypes'
    BY <1>1, <2>1, <2>2 DEF HelloSignTypes, Phases
  <2> QED BY <2>1, <2>3 DEF FirstInv
<1>5. CASE apps' = new /\ undo' = <<"pointNew">> \o Tail(undo) /\ UNCHANGED phase
  <2>1. undo \in Seq(UndoActions)
    BY <1>1 DEF HelloSignTypes
  <2>2. /\ undo' \in Seq(UndoActions)
        /\ \A x \in UndoActions : Queued(x) => Queued(x)' \/ x = "deleteApp"
        /\ Queued("pointNew")'
        /\ \A i \in DOMAIN undo' : \/ (i = 1 /\ undo'[i] = "pointNew")
                                   \/ (i \in DOMAIN undo /\ i # 1 /\ undo'[i] = undo[i])
    BY <1>1, <1>5, <2>1, Replaced
  <2>3. HelloSignTypes'
    <3>1. Len(apps') >= 2
      BY <1>1, <1>3, <1>5 DEF HelloSignTypes
    <3> QED BY <1>1, <1>3, <1>5, <2>2, <3>1 DEF HelloSignTypes
  <2>4. ~ Misled' => HelloSignRestorable'
    <3>1. ~ Misled' => HelloSignRestorable
      BY <1>1, CountersStep DEF FirstInv
    <3>2. {"renameDonor", "deleteConfig"} \subseteq UndoActions
      BY DEF UndoActions, Calls
    <3>3. ASSUME HelloSignRestorable
          PROVE  /\ Queued("renameDonor")' \/ apps'[1].domain = "donor"
                 /\ Queued("deleteConfig")' \/ config'["donor"] = 1
                 /\ \A i \in DOMAIN undo' : undo'[i] = "pointRecipient" => i = 1
      BY <1>1, <1>3, <1>5, <2>2, <3>2, <3>3 DEF HelloSignRestorable
    <3> QED BY <1>3, <1>5, <2>2, <3>1, <3>3 DEF HelloSignRestorable
  <2> QED BY <1>1, <1>5, <2>3, <2>4 DEF FirstInv
<1> QED BY <1>2, <1>4, <1>5

LEMMA UndoEndsStep ==
    ASSUME Counters, FirstInv, [HelloSignNext]_helloSignVars, HelloSignUndoEnds
    PROVE  FirstInv'
<1>1. /\ phase = "undoing" /\ undo = <<>> /\ phase' = "undone" /\ HelloSignTypes
      /\ UNCHANGED <<apps, config, call, local, undo>>
  BY DEF HelloSignUndoEnds, UndoEnds, FirstInv
<1>2. HelloSignTypes'
  BY <1>1 DEF HelloSignTypes, Phases
<1>3. ~ Misled' => HelloSignRestorable'
  <2>1. ~ Misled' => HelloSignRestorable
    BY <1>1, CountersStep DEF FirstInv
  <2> QED BY <1>1, <2>1 DEF HelloSignRestorable, Queued, Own
<1> QED BY <1>1, <1>2, <1>3 DEF FirstInv

-----------------------------------------------------------------------------
(* The theorem.                                                              *)

LEMMA Inductive == HelloSignInv /\ [HelloSignNext]_helloSignVars => HelloSignInv'
<1> SUFFICES ASSUME HelloSignInv, [HelloSignNext]_helloSignVars
             PROVE  HelloSignInv'
  OBVIOUS
<1>1. Counters' /\ (attempts' = 1 => attempts = 1)
  BY CountersStep DEF HelloSignInv
<1>2. ASSUME attempts' = 1
      PROVE  FirstInv'
  <2>1. Counters /\ FirstInv /\ attempts = 1
    BY <1>1, <1>2 DEF HelloSignInv
  <2>2. CASE Instruction
    BY <2>1, <2>2, ReadConfigsStep, PointRecipientStep, ReadAppsStep, RenameRecipientStep,
       RenameDonorStep, DeleteAppStep, DeleteConfigStep, AfterwardsStep DEF Instruction
  <2>3. CASE HelloSignLater
    BY <2>1, <2>3, AfterwardsStep
  <2>4. CASE Rollback
    BY <2>1, <2>4, UndoPointRecipientStep, UndoRenameRecipientStep, UndoRenameDonorStep,
       UndoDeleteAppStep, UndoDeleteAppPointStep, UndoDeleteConfigStep, UndoEndsStep
       DEF Rollback
  <2>5. ~ Retry
    BY <1>2, <2>1 DEF Retry
  <2>6. CASE UNCHANGED helloSignVars
    <3>1. HelloSignTypes' /\ (HelloSignForward => HelloSignForward') /\ (HelloSignRestorable => HelloSignRestorable') /\ (Misled' <=> Misled)
      BY <2>1, <2>6 DEF helloSignVars, helloSignStores, FirstInv, HelloSignTypes, HelloSignForward, HelloSignRestorable, Queued, Own, Misled
    <3> QED BY <2>1, <2>6, <3>1 DEF helloSignVars, helloSignStores, FirstInv
  <2> QED BY <2>2, <2>3, <2>4, <2>5, <2>6 DEF HelloSignNext
<1> QED BY <1>1, <1>2 DEF HelloSignInv

LEMMA SafeByInv == HelloSignInv => FirstPatchIsSafe
<1> SUFFICES ASSUME HelloSignInv, attempts = 1
             PROVE  FirstPatchIsSafe
  BY DEF FirstPatchIsSafe, DonorAppKeptAtFirst, ServedUntilUndone, UndoneMeansServed,
         CommittedMeansMoved
<1>1. HelloSignTypes /\ FirstInv
  BY DEF HelloSignInv, FirstInv
<1>2. DOMAIN apps = 1 .. Len(apps) /\ {1, 2} \subseteq DOMAIN apps
  BY <1>1 DEF HelloSignTypes
<1>3. DonorAppKeptAtFirst
  BY <1>1, <1>2 DEF DonorAppKeptAtFirst, DonorAppKept, Live, HelloSignTypes
<1>4. ServedUntilUndone
  <2>1. ASSUME phase \in {"moving", "done", "committed"}
        PROVE  Live(config["recipient"])
    BY <1>1, <1>2, <2>1 DEF FirstInv, HelloSignForward, HelloSignTypes, Live
  <2> QED BY <2>1 DEF ServedUntilUndone
<1>5. UndoneMeansServed
  <2>1. ASSUME ~ Misled, phase = "undone"
        PROVE  /\ \A c \in Companies : Live(config[c]) /\ apps[config[c]].domain = c
               /\ config["donor"] # config["recipient"]
    <3>1. HelloSignRestorable /\ undo = <<>>
      BY <1>1, <2>1 DEF FirstInv
    <3>2. apps[1].domain = "donor" /\ config["donor"] = 1 /\ Own(config["recipient"])
      BY <3>1 DEF HelloSignRestorable, Queued
    <3> QED BY <1>1, <1>2, <3>2 DEF Companies, Live, Own, HelloSignTypes
  <2> QED BY <2>1 DEF UndoneMeansServed
<1>6. CommittedMeansMoved
  <2>1. ASSUME phase = "committed"
        PROVE  /\ config = [donor |-> NoApp, recipient |-> 1]
               /\ apps[1].domain = "recipient" /\ apps[1].name = local.hs.recipient.name
               /\ \A i \in DOMAIN apps : apps[i].live <=> i = 1
    <3>1. HelloSignForward /\ call = "returned"
      BY <1>1, <2>1 DEF FirstInv, HelloSignForward
    <3>2. config = [donor |-> NoApp, recipient |-> 1]
      BY <1>1, <3>1 DEF HelloSignTypes, HelloSignForward, Companies
    <3>3. \A i \in DOMAIN apps : apps[i].live <=> i = 1
      BY <1>1, <1>2, <3>1 DEF HelloSignForward, HelloSignTypes
    <3> QED BY <3>1, <3>2, <3>3 DEF HelloSignForward
  <2> QED BY <2>1 DEF CommittedMeansMoved
<1> QED BY <1>3, <1>4, <1>5, <1>6 DEF FirstPatchIsSafe

\* Whichever calls of the first patch are refused or lose their answer, also in its
\* rollback: the donor's application is kept, the company can sign until a rollback
\* begins, a rollback that ends restores both companies unless an answer was lost, and
\* a patch that succeeded has moved the application
\* (company.service.ts, updateHelloSignConfigurations).
THEOREM FirstPatchSafe == HelloSignSpec => []FirstPatchIsSafe
<1>1. HelloSignInit => HelloSignInv
  BY FirstInit
<1>2. HelloSignInv /\ [HelloSignNext]_helloSignVars => HelloSignInv'
  BY Inductive
<1>3. HelloSignInv => FirstPatchIsSafe
  BY SafeByInv
<1> QED BY <1>1, <1>2, <1>3, PTL DEF HelloSignSpec

-----------------------------------------------------------------------------
(* The patch sent again.  A move that has succeeded has taken the donor's     *)
(* configuration away, without which a later attempt reads nothing, changes   *)
(* nothing and has nothing to undo.                                           *)

MovedInv ==
    /\ DOMAIN config = Companies
    /\ phase \in {"done", "committed"} => call = "returned"
    /\ call = "returned" /\ phase \in {"moving", "done", "committed"}
           => config["donor"] = NoApp

\* Between two attempts, and in one that has found no configuration.
Resting ==
    \/ phase = "committed"
    \/ phase = "moving" /\ call = "readConfigs" /\ undo = <<>>
    \/ phase \in {"undoing", "undone"} /\ undo = <<>>

MovedOver == config["donor"] = NoApp /\ Live(config["recipient"]) /\ Resting

LEMMA MovedInit == HelloSignInit => MovedInv
BY DEF HelloSignInit, HelloSignStores, MovedInv, Companies

LEMMA MovedStep ==
    ASSUME MovedInv, HelloSignNext
    PROVE  MovedInv'
<1>1. ASSUME NEW c, NEW id, config' = Configured(c, id)
      PROVE  DOMAIN config' = Companies
  BY <1>1 DEF Configured, MovedInv
<1>2. CASE UNCHANGED <<config, call, phase>>
  BY <1>2 DEF MovedInv
<1>3. ASSUME Break, DOMAIN config' = Companies
      PROVE  MovedInv'
  BY <1>3 DEF Break, MovedInv
<1>4. ASSUME NEW next, Proceed(next), next # "returned", phase = "moving",
             DOMAIN config' = Companies
      PROVE  MovedInv'
  BY <1>4 DEF Proceed, MovedInv
<1>5. CASE ReadConfigs
  BY <1>3, <1>5 DEF ReadConfigs, At, MovedInv
<1>6. CASE PointRecipient
  BY <1>1, <1>3, <1>4, <1>6 DEF PointRecipient, CallIntegrations, At, MovedInv
<1>7. CASE ReadApps
  BY <1>3, <1>7 DEF ReadApps, At, MovedInv
<1>8. CASE RenameRecipient \/ RenameDonor \/ DeleteApp
  BY <1>3, <1>4, <1>8
     DEF RenameRecipient, RenameDonor, DeleteApp, CallHelloSign, At, MovedInv
<1>9. CASE DeleteConfig
  <2>1. CASE config' = Configured("donor", NoApp) /\ Proceed("returned")
    <3>1. config'["donor"] = NoApp
      BY <2>1 DEF Configured, MovedInv, Companies
    <3> QED BY <1>1, <1>9, <2>1, <3>1 DEF DeleteConfig, Proceed, At, MovedInv
  <2> QED BY <1>1, <1>3, <1>9, <2>1 DEF DeleteConfig, CallIntegrations, MovedInv
<1>10. CASE Return
  BY <1>10 DEF Return, At, MovedInv
<1>11. CASE HelloSignLater
  BY <1>11 DEF HelloSignLater, LaterInstructions, MovedInv
<1>12. CASE Rollback
  <2>1. DOMAIN config' = Companies
    BY <1>1, <1>12
       DEF Rollback, UndoPointRecipient, UndoRenameRecipient, UndoRenameDonor, UndoDeleteApp,
           UndoDeleteAppPoint, UndoDeleteConfig, HelloSignUndoEnds, UndoEnds, UndoHelloSign, UndoIntegrations,
           MovedInv
  <2>2. phase = "undoing" /\ phase' \in {"undoing", "abandoned", "undone"}
    BY <1>12
       DEF Rollback, UndoPointRecipient, UndoRenameRecipient, UndoRenameDonor, UndoDeleteApp,
           UndoDeleteAppPoint, UndoDeleteConfig, HelloSignUndoEnds, UndoEnds, UndoHelloSign, UndoIntegrations,
           Undoing, Undone, Abandon
  <2> QED BY <2>1, <2>2 DEF MovedInv
<1>13. CASE Retry
  BY <1>13 DEF Retry, MovedInv
<1> QED BY <1>5, <1>6, <1>7, <1>8, <1>9, <1>10, <1>11, <1>12, <1>13 DEF HelloSignNext, Instruction

LEMMA SettledStep ==
    ASSUME MovedOver, HelloSignNext
    PROVE  MovedOver'
<1>1. CASE ReadConfigs
  <2>1. Break /\ UNCHANGED <<apps, config>>
    BY <1>1 DEF ReadConfigs, MovedOver, Companies
  <2>2. phase' = "undoing" /\ undo' = <<>>
    BY <1>1, <2>1 DEF Break, ReadConfigs, At, MovedOver, Resting
  <2> QED BY <2>1, <2>2 DEF MovedOver, Resting, Live
<1>2. CASE HelloSignUndoEnds \/ Retry
  BY <1>2 DEF HelloSignUndoEnds, UndoEnds, Retry, MovedOver, Resting, Live
<1>3. ~(PointRecipient \/ ReadApps \/ RenameRecipient \/ RenameDonor
        \/ DeleteApp \/ DeleteConfig \/ Return \/ HelloSignLater)
  BY DEF PointRecipient, ReadApps, RenameRecipient, RenameDonor, DeleteApp, DeleteConfig,
         Return, HelloSignLater, LaterInstructions, At, MovedOver, Resting
<1>4. ~(UndoPointRecipient \/ UndoRenameRecipient \/ UndoRenameDonor
        \/ UndoDeleteApp \/ UndoDeleteAppPoint \/ UndoDeleteConfig)
  BY DEF UndoPointRecipient, UndoRenameRecipient, UndoRenameDonor, UndoDeleteApp,
         UndoDeleteAppPoint, UndoDeleteConfig, Undoing, MovedOver, Resting
<1> QED BY <1>1, <1>2, <1>3, <1>4 DEF HelloSignNext, Instruction, Rollback

\* However often the patch is sent and whatever goes wrong before and after: once
\* it has succeeded and left the recipient an application, nothing that a later
\* attempt or its rollback does takes that application away.
THEOREM MovedForGood == HelloSignSpec => MovedStaysMoved
<1>1. MovedInv /\ [HelloSignNext]_helloSignVars => MovedInv'
  <2>1. MovedInv /\ UNCHANGED helloSignVars => MovedInv'
    BY DEF helloSignVars, helloSignStores, MovedInv
  <2> QED BY <2>1, MovedStep
<1>2. MovedOver /\ [HelloSignNext]_helloSignVars => MovedOver'
  <2>1. MovedOver /\ UNCHANGED helloSignVars => MovedOver'
    BY DEF helloSignVars, helloSignStores, MovedOver, Resting, Live
  <2> QED BY <2>1, SettledStep
<1>3. MovedInv /\ phase = "committed" /\ Live(config["recipient"]) => MovedOver
  BY DEF MovedInv, MovedOver, Resting
<1>4. MovedOver => Live(config["recipient"])
  BY DEF MovedOver
<1> QED BY <1>1, <1>2, <1>3, <1>4, MovedInit, PTL DEF HelloSignSpec, MovedStaysMoved

-----------------------------------------------------------------------------
(* The patch as a whole: it follows one of its instructions, whose invariants  *)
(* are those of its own specification.                                        *)

IsPath(p) == path = p

LEMMA FollowsDocuments == UpdateSpec /\ IsPath("/esignature") => DocumentSpec
<1>1. UpdateInit /\ IsPath("/esignature") => DocumentInit
  BY DEF UpdateInit, IsPath
<1>2. IsPath("/esignature") /\ [UpdateNext]_updateVars =>
        IsPath("/esignature")' /\ [DocumentNext]_documentVars
  BY DEF IsPath, UpdateNext, HandleEsignatureDocs, UpdateHelloSignConfigurations,
     HandleSsoPatch, updateVars, documentVars
<1> QED BY <1>1, <1>2, PTL DEF UpdateSpec, DocumentSpec

LEMMA FollowsApplication == UpdateSpec /\ IsPath("/platform/integration") => HelloSignSpec
<1>1. UpdateInit /\ IsPath("/platform/integration") => HelloSignInit
  BY DEF UpdateInit, IsPath
<1>2. IsPath("/platform/integration") /\ [UpdateNext]_updateVars =>
        IsPath("/platform/integration")' /\ [HelloSignNext]_helloSignVars
  BY DEF IsPath, UpdateNext, HandleEsignatureDocs, UpdateHelloSignConfigurations,
     HandleSsoPatch, updateVars, helloSignVars
<1> QED BY <1>1, <1>2, PTL DEF UpdateSpec, HelloSignSpec

LEMMA FollowsAccounts == UpdateSpec /\ IsPath("/sso/account") => SsoSpec
<1>1. UpdateInit /\ IsPath("/sso/account") => SsoInit
  BY DEF UpdateInit, IsPath
<1>2. IsPath("/sso/account") /\ [UpdateNext]_updateVars =>
        IsPath("/sso/account")' /\ [SsoNext]_ssoVars
  BY DEF IsPath, UpdateNext, HandleEsignatureDocs, UpdateHelloSignConfigurations,
     HandleSsoPatch, updateVars, ssoVars
<1> QED BY <1>1, <1>2, PTL DEF UpdateSpec, SsoSpec

\* The instruction that is followed does not change.
LEMMA PathStays ==
    ASSUME NEW p, [UpdateNext]_updateVars
    PROVE  IsPath(p)' <=> IsPath(p)
BY DEF IsPath, UpdateNext, HandleEsignatureDocs, UpdateHelloSignConfigurations,
   HandleSsoPatch, updateVars

\* While no caller is misled every document is where its metadata says, in the move and in
\* its rollback, and the instruction is atomic, for any number of files and of failures;
\* also when the undoing of a later instruction throws and this one is not undone at all
\* (company.service.ts, companyUpdate and handleEsignatureDocs).
THEOREM DocumentsAreSafe == UpdateSpec => []DocumentsSafe
<1>1. ~ IsPath("/esignature") => DocumentsSafe
  BY DEF IsPath, DocumentsSafe
<1>2. FoundThroughout /\ AtomicUnlessMisled => DocumentsSafe
  BY DEF DocumentsSafe
<1>3. ~ IsPath("/esignature") /\ [UpdateNext]_updateVars => ~ IsPath("/esignature")'
  BY PathStays
<1> QED BY <1>1, <1>2, <1>3, FollowsDocuments, DocumentsInReach, MoveIsAtomic, PTL DEF UpdateSpec

\* Whichever calls of the first patch and of its rollback go wrong the donor's application
\* is kept; a rollback that ends restores both companies unless an answer was lost, and a
\* success has moved the application (company.service.ts, updateHelloSignConfigurations).
THEOREM ApplicationIsSafe == UpdateSpec => []ApplicationSafe
<1>1. ~ IsPath("/platform/integration") => ApplicationSafe
  BY DEF IsPath, ApplicationSafe
<1>2. FirstPatchIsSafe => ApplicationSafe
  BY DEF ApplicationSafe
<1>3. ~ IsPath("/platform/integration") /\ [UpdateNext]_updateVars => ~ IsPath("/platform/integration")'
  BY PathStays
<1> QED BY <1>1, <1>2, <1>3, FollowsApplication, FirstPatchSafe, PTL DEF UpdateSpec

\* Whatever goes wrong nobody is moved to an account that lacks a role of the donor's, and
\* the answer of a patch is true, for any users, roles and failures
\* (company.service.ts, handleSsoPatch).
THEOREM AccountsAreSafe == UpdateSpec => []AccountsSafe
<1>1. ~ IsPath("/sso/account") => AccountsSafe
  BY DEF IsPath, AccountsSafe
<1>2. MigratedWithRoles /\ AnswerIsTrue => AccountsSafe
  BY DEF AccountsSafe
<1>3. ~ IsPath("/sso/account") /\ [UpdateNext]_updateVars => ~ IsPath("/sso/account")'
  BY PathStays
<1> QED BY <1>1, <1>2, <1>3, FollowsAccounts, RolesFollowUsers, AnswerTrue, PTL DEF UpdateSpec

\* A company that was moved stays moved, however often the patch is sent and whatever goes
\* wrong (company.service.ts, updateHelloSignConfigurations).
THEOREM PatchedStaysMoved == UpdateSpec => MovedStaysMoved
<1> DEFINE Kept == Live(config["recipient"]) /\ ~ IsPath("/platform/integration")
<1>1. UpdateInit /\ ~ IsPath("/platform/integration") => Kept
  BY DEF UpdateInit, IsPath, HelloSignAside, HelloSignStores, Live
<1>2. Kept /\ [UpdateNext]_updateVars => Kept'
  BY DEF IsPath, Live, UpdateNext, HandleEsignatureDocs, UpdateHelloSignConfigurations,
     HandleSsoPatch, updateVars, helloSignStores
<1>3. Kept => Live(config["recipient"])
  OBVIOUS
<1> HIDE DEF Kept
<1> QED BY <1>1, <1>2, <1>3, FollowsApplication, MovedForGood, PTL
     DEF UpdateSpec, MovedStaysMoved

=============================================================================
