---------------------------- MODULE CompanyUpdate ----------------------------
(***************************************************************************)
(* A company patch (services/api/tenants/src/company.service.ts,           *)
(* companyUpdate) and the instruction of it that is followed.  The         *)
(* instructions have no store in common, so each is followed by itself;    *)
(* those after it in the patch are LaterInstructions.  One with the path   *)
(* '/test' only fails, or does nothing, as does one with an unknown path.  *)
(*                                                                         *)
(* Each instruction gives the patch a function that undoes it.  If one     *)
(* fails it has undone itself; the functions of those before it are then   *)
(* called, last first, until one throws.                                   *)
(***************************************************************************)
EXTENDS DocumentMove, HelloSignMove, SsoPatch

VARIABLE path   \* the instruction that is followed

updateVars == <<path, documentStores, helloSignStores, ssoStores, undo, phase, failures>>

\* The stores of an instruction that is not followed.
DocumentsAside == DocumentStores(CHOOSE layout \in Layouts : TRUE)

HelloSignAside == HelloSignStores("recipient")

SsoAside ==
    /\ donor = [u \in Users |-> "enabled"]
    /\ op = CHOOSE o \in Operations : TRUE
    /\ SsoStores

UpdateInit ==
    \/ path = "/esignature" /\ DocumentInit /\ HelloSignAside /\ SsoAside
    \/ path = "/platform/integration" /\ HelloSignInit /\ DocumentsAside /\ SsoAside
    \/ path = "/sso/account" /\ SsoInit /\ DocumentsAside /\ HelloSignAside

HandleEsignatureDocs ==
    /\ path = "/esignature"
    /\ DocumentNext
    /\ UNCHANGED <<path, helloSignStores, ssoStores>>

UpdateHelloSignConfigurations ==
    /\ path = "/platform/integration"
    /\ HelloSignNext
    /\ UNCHANGED <<path, documentStores, ssoStores>>

HandleSsoPatch ==
    /\ path = "/sso/account"
    /\ SsoNext
    /\ UNCHANGED <<path, documentStores, helloSignStores>>

UpdateNext == HandleEsignatureDocs \/ UpdateHelloSignConfigurations \/ HandleSsoPatch

UpdateSpec == UpdateInit /\ [][UpdateNext]_updateVars

-----------------------------------------------------------------------------
(* Properties.                                                               *)

\* As long as no caller was misled a document is at the key that its metadata names, at
\* every moment of the move and of its rollback; before a rollback this is so even then.
\* Only a document with a key that the move of another file writes to is excepted.
\* And unless a caller was misled the instruction is atomic: it has moved every document
\* or, if its rollback came to its end, none.
DocumentsSafe == path = "/esignature" => FoundThroughout /\ AtomicUnlessMisled

\* The donor's application is kept and the recipient can sign until a rollback begins,
\* whichever calls of the first patch go wrong; an undone patch has given each company an
\* application back unless an answer was lost, and one that succeeded has moved the
\* donor's.
ApplicationSafe == path = "/platform/integration" => FirstPatchIsSafe

\* Nobody is moved to an account that lacks a role; a patch that succeeded has served
\* everybody unless an update missed, and one that failed has disabled nobody unless an
\* answer was lost.
AccountsSafe == path = "/sso/account" => MigratedWithRoles /\ AnswerIsTrue

=============================================================================
