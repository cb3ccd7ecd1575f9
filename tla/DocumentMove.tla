---------------------------- MODULE DocumentMove ----------------------------
(***************************************************************************)
(* The '/esignature' instruction of a company patch                        *)
(* (services/api/tenants/src/company.service.ts, handleEsignatureDocs):    *)
(* the documents of a migrated company are copied to the recipient's S3    *)
(* keys and dbo.FileMetadata is pointed at the copies.                     *)
(*                                                                         *)
(* All files are moved at once, each by an async function that yields at   *)
(* every call; the functions share one stack of undo actions.  If a file   *)
(* fails, or a later instruction of the patch does, the stack is undone,   *)
(* last action first.  An undo action that throws abandons the others.     *)
(*                                                                         *)
(* Keys are formed from the names of the recipient, of the employee and of *)
(* the file: files may share one, and a patch that is sent again finds the *)
(* files at their new keys already.                                        *)
(***************************************************************************)
EXTENDS CompanyPatch

CONSTANTS
    Files,        \* rows of dbo.FileMetadata of the recipient company
    Keys,         \* keys of the bucket
    Layouts,      \* the keys that files may have and get
    None          \* no object

ASSUME DocumentAssumption ==
    /\ Layouts \subseteq [Files -> [old : Keys, new : Keys]]
    /\ Layouts # {} /\ Files # {} /\ None \notin Keys

VARIABLES
    keys,       \* the key that each file is listed with, and the one it gets
    bucket,     \* what each key holds: the object that was first at some key
    pointer,    \* the key of each file in dbo.FileMetadata
    step        \* where the function of each file is

documentStores == <<keys, bucket, pointer, step>>

documentVars == <<documentStores, undo, phase, failures>>

Steps == {"copy", "point", "moved", "failed"}

UndoAction == [kind : {"delete", "repoint"}, file : Files]

OldKey == [f \in Files |-> keys[f].old]

NewKey == [f \in Files |-> keys[f].new]

DocumentStores(layout) ==
    /\ keys = layout
    /\ bucket = [k \in Keys |-> IF \E f \in Files : OldKey[f] = k THEN k ELSE None]
    /\ pointer = OldKey
    /\ step = [f \in Files |-> "copy"]

DocumentInit ==
    /\ \E layout \in Layouts : DocumentStores(layout)
    /\ undo = <<>>
    /\ phase = "moving"
    /\ failures = [kind \in FaultKinds |-> 0]

-----------------------------------------------------------------------------
Moving(f, label) == phase = "moving" /\ step[f] = label

Advance(f, label) == step' = [step EXCEPT ![f] = label]

Push(kind, f) == undo' = Append(undo, [kind |-> kind, file |-> f])

Copied(f) == bucket' = [bucket EXCEPT ![NewKey[f]] = bucket[OldKey[f]]]

\* S3 refuses to copy an object onto itself.
OntoItself(f) == OldKey[f] = NewKey[f]

Pointed(f, key) == pointer' = [pointer EXCEPT ![f] = key]

CopyObject(f) ==
    /\ Moving(f, "copy")
    /\ ~OntoItself(f)
    /\ Copied(f)
    /\ Push("delete", f)
    /\ Advance(f, "point")
    /\ UNCHANGED <<pointer, phase, failures>>

\* Mutant: the error of the copy is logged only.
CopyFailsUnnoticed(f) ==
    /\ Moving(f, "copy")
    /\ \/ UNCHANGED bucket /\ GoesWrong("refused")
       \/ OntoItself(f) /\ UNCHANGED <<bucket, failures>>
       \/ GoesWrong("lost") /\ Copied(f)
    /\ Advance(f, "point")
    /\ UNCHANGED <<pointer, undo, phase>>

CopyFails(f) ==
    /\ Moving(f, "copy")
    /\ \/ UNCHANGED bucket /\ GoesWrong("refused")
       \/ OntoItself(f) /\ UNCHANGED <<bucket, failures>>
       \/ GoesWrong("lost") /\ Copied(f)
    /\ Advance(f, "failed")
    /\ UNCHANGED <<pointer, undo, phase>>

UpdatePointer(f) ==
    /\ Moving(f, "point")
    /\ Pointed(f, NewKey[f])
    /\ Push("repoint", f)
    /\ Advance(f, "moved")
    /\ UNCHANGED <<bucket, phase, failures>>

UpdatePointerFails(f) ==
    /\ Moving(f, "point")
    /\ \/ GoesWrong("refused") /\ UNCHANGED pointer
       \/ GoesWrong("lost") /\ Pointed(f, NewKey[f])
    /\ Advance(f, "failed")
    /\ UNCHANGED <<bucket, undo, phase>>

UpdatePointerMissed(f) ==
    /\ Moving(f, "point")
    /\ GoesWrong("missed")
    /\ Push("repoint", f)
    /\ Advance(f, "moved")
    /\ UNCHANGED <<bucket, pointer, phase>>

\* Promise.allSettled, then the check of failedActions.
SettleFiles ==
    /\ phase = "moving"
    /\ \A f \in Files : step[f] \in {"moved", "failed"}
    /\ phase' = IF \E f \in Files : step[f] = "failed" THEN "undoing" ELSE "done"
    /\ UNCHANGED <<bucket, pointer, step, undo, failures>>

DocumentLater == LaterInstructions /\ UNCHANGED <<bucket, pointer, step>>

-----------------------------------------------------------------------------
(* The rollback: pop, then run.                                              *)

Top == undo[Len(undo)]

Popped == SubSeq(undo, 1, Len(undo) - 1)

UndoingKind(kind) == phase = "undoing" /\ undo # <<>> /\ Top.kind = kind

\* A delete that fails is logged only.
UndoCopy ==
    /\ UndoingKind("delete")
    /\ \/ /\ bucket' = [bucket EXCEPT ![NewKey[Top.file]] = None]
          /\ UNCHANGED failures
       \/ GoesWrong("refused") /\ UNCHANGED bucket
    /\ undo' = Popped
    /\ UNCHANGED <<pointer, step, phase>>

UndoPointer ==
    /\ UndoingKind("repoint")
    /\ Pointed(Top.file, OldKey[Top.file])
    /\ undo' = Popped
    /\ UNCHANGED <<bucket, step, phase, failures>>

UndoPointerFails ==
    /\ UndoingKind("repoint")
    /\ \/ GoesWrong("refused") /\ UNCHANGED pointer
       \/ GoesWrong("lost") /\ Pointed(Top.file, OldKey[Top.file])
    /\ undo' = Popped
    /\ phase' = "abandoned"
    /\ UNCHANGED <<bucket, step>>

UndoPointerMissed ==
    /\ UndoingKind("repoint")
    /\ GoesWrong("missed")
    /\ undo' = Popped
    /\ UNCHANGED <<bucket, pointer, step, phase>>

DocumentUndoEnds == UndoEnds("undone") /\ UNCHANGED <<bucket, pointer, step>>

-----------------------------------------------------------------------------

Move(f) ==
    \/ CopyObject(f) \/ CopyFails(f)
    \/ UpdatePointer(f) \/ UpdatePointerFails(f) \/ UpdatePointerMissed(f)

UndoDocuments ==
    \/ UndoCopy \/ UndoPointer \/ UndoPointerFails \/ UndoPointerMissed
    \/ DocumentUndoEnds

\* The files were listed once, at the start.
DocumentNext ==
    /\ (\E f \in Files : Move(f)) \/ SettleFiles \/ DocumentLater \/ UndoDocuments
    /\ UNCHANGED keys

DocumentSpec == DocumentInit /\ [][DocumentNext]_documentVars

-----------------------------------------------------------------------------
(* Properties.                                                               *)

\* Stores and locals hold values of their types, and no action stands on the
\* stack twice.
DocumentTypeOK ==
    /\ keys \in Layouts
    /\ bucket \in [Keys -> Keys \cup {None}]
    /\ pointer \in [Files -> Keys]
    /\ step \in [Files -> Steps]
    /\ undo \in Seq(UndoAction)
    /\ \A i, j \in DOMAIN undo : undo[i] = undo[j] => i = j
    /\ phase \in Phases
    /\ failures \in [FaultKinds -> 0 .. MaxFailures]

\* No other file gets the key that this one has or gets.
Apart(f) == \A g \in Files \ {f} : NewKey[g] \notin {OldKey[f], NewKey[f]}

\* At every moment, whichever calls are refused and even when the rollback is
\* abandoned half way, a document is found at the key its metadata names, unless the
\* move of another file writes to a key of this one.
DocumentsFound == \A f \in Files : Apart(f) => bucket[pointer[f]] = OldKey[f]

FoundUnlessMisled == ~Misled => DocumentsFound

\* Until a rollback begins this is so whatever goes wrong: a pointer is moved
\* only when the copy is known to exist.
FoundUntilUndone == phase \in {"moving", "done", "committed"} => DocumentsFound

\* A document is out of reach only in a rollback, and only of callers that were misled.
FoundThroughout == FoundUnlessMisled /\ FoundUntilUndone

\* "The array as a whole is atomic, if an instruction fails, all previous
\* instructions will be rolled back": a patch that succeeded has moved every
\* document, and a rollback that came to its end has put every pointer back.
Atomic ==
    /\ phase = "committed" => pointer = NewKey
    /\ phase = "undone" => pointer = OldKey

\* It is so as long as callers are told what their calls did.
AtomicUnlessMisled == ~Misled => Atomic

=============================================================================
