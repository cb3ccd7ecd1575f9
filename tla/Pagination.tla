----------------------------- MODULE Pagination -----------------------------
(***************************************************************************)
(* What the paged listings of every service share: the check of a caller's *)
(* roles, the reading of query parameters, the page a token names, and the *)
(* links of an answer (src/services/util.service.ts and pagination/).      *)
(*                                                                         *)
(* A caller is a record: the roles of the token, which of the company, the *)
(* employee and the account of the path are the caller's own, whether the  *)
(* caller manages the employee, is an administrator of the tenant and is   *)
(* enabled, the resources the caller has a permission to, and which things *)
(* the request names exist.  The query parameters are a function from the  *)
(* names that were given to what was given: "" (nothing), "true", "false", *)
(* "all", "number" (a positive one), "zero", "negative", a "plain" text,   *)
(* one with an "ampersand", or a word an endpoint knows.  No parameters at *)
(* all (the null of the gateway) is the empty function.                    *)
(***************************************************************************)
EXTENDS Integers

Given(o, k) == k \in DOMAIN o /\ o[k] # ""

IsTrue(o, k) == k \in DOMAIN o /\ o[k] = "true"

\* The check of the names of the parameters, and the one of a Boolean one,
\* which throws when the parameter is missing.
ValidateQueryParams(o, valid) == DOMAIN o \subseteq valid

ParseQueryParamsBoolean(o, k) == k \in DOMAIN o /\ o[k] \in {"true", "false"}

\* Roles, as the handlers name them.
GlobalAdmin == "global.admin"
ServiceBureauAdmin == "service.bureau.admin"
AsureAdmin == "asure-admin"
SuperAdmin == "super.admin"
HrAdmin == "hr.persona.admin"
HrRestrictedAdmin == "hr.persona.restricted-admin"
HrManager == "hr.persona.manager"
HrEmployee == "hr.persona.user"

BureauRoles == {GlobalAdmin, ServiceBureauAdmin, SuperAdmin}

ValidateUserIsInCompany(who) == "company" \in who.own

ValidateUserWithEmployee(who) == "employee" \in who.own

ValidateDirectReportOfManagerUser(who) == who.manages

\* A manager passes by the employee or the company of the path; a caller with
\* the employee's role passes by these alone, whatever other roles he has, and
\* never where the path names neither; anyone else passes by a role.
CheckAuthorization(who, roles, path) ==
    \/ /\ HrManager \in who.roles \cap roles
       /\ \/ path = "employee" /\ ValidateDirectReportOfManagerUser(who)
          \/ path = "company" /\ ValidateUserIsInCompany(who)
    \/ /\ HrEmployee \in who.roles \cap roles
       /\ \/ path = "employee" /\ ValidateUserWithEmployee(who)
          \/ path = "company" /\ ValidateUserIsInCompany(who)
    \/ /\ HrEmployee \notin who.roles \cap roles
       /\ (who.roles \ {HrEmployee}) \cap roles # {}

ValidateCompany(who) == "company" \in who.found

ValidateEmployeeWithCompany(who) == {"company", "employee"} \subseteq who.found

-----------------------------------------------------------------------------
(***************************************************************************)
(* What a handler makes of a request: a refusal, or a query and the way    *)
(* its rows become pages.  "order" says whether the rows are sorted by a   *)
(* unique key; "count" whether the total counts the rows, more rows or     *)
(* fewer; "snapshot" whether the rows are kept aside before they are       *)
(* counted; "size" is the limit of a page: the default, the service's own, *)
(* "all" the rows counted, the default though "every" row is selected,     *)
(* none in an "array" of all rows, or "void", the default for the rows and *)
(* none for the pages; "drops" whether rows are left out after the query;  *)
(* "empty" what an answer without rows is.                                 *)
(***************************************************************************)
Plans ==
    [refused : BOOLEAN, order : {"unique", "ties"}, count : {"rows", "more", "fewer"},
     snapshot : BOOLEAN, size : {"default", "own", "every", "all", "array", "void"},
     drops : BOOLEAN, empty : {"page", "nothing"}]

Query(order, count, snapshot) ==
    [refused |-> FALSE, order |-> order, count |-> count, snapshot |-> snapshot,
     size |-> "default", drops |-> FALSE, empty |-> "page"]

Ordered == Query("unique", "rows", FALSE)

Unordered == Query("ties", "rows", FALSE)

Refusal == [Ordered EXCEPT !.refused = TRUE]

Sized(plan, size) == IF plan.refused THEN plan ELSE [plan EXCEPT !.size = size]

Dropping(plan) == IF plan.refused THEN plan ELSE [plan EXCEPT !.drops = TRUE]

NothingIfEmpty(plan) == IF plan.refused THEN plan ELSE [plan EXCEPT !.empty = "nothing"]

Unless(refused, plan) == IF refused THEN Refusal ELSE plan

Strict(o, valid, plan) == Unless(~ValidateQueryParams(o, valid), plan)

-----------------------------------------------------------------------------
\* The parameters a link of the answer comes back with: those the endpoint
\* knows, put into the link as they are, and the token.  A text ends at its
\* ampersand, and what follows that comes back as a parameter nobody knows.
Spoiled(o, valid) == \E k \in DOMAIN o \cap valid : o[k] = "ampersand"

RetrievePaginationData(o, valid) ==
    [k \in (DOMAIN o \cap valid) \cup {"pageToken"}
           \cup (IF Spoiled(o, valid) THEN {"stray"} ELSE {}) |->
        IF k \in {"pageToken", "stray"} THEN "number"
        ELSE IF o[k] = "ampersand" THEN "plain" ELSE o[k]]

\* Mutant: pages are counted from zero.
PageOffsetFromZero(page, limit) == page * limit

\* offset ... rows of the filter that is appended to a query.
PageOffset(page, limit) == (page - 1) * limit

Ceil(a, b) == (a + b - 1) \div b

\* More rows than the limit are one page, and so are any rows where the limit is
\* zero or not a number (here 0).
TotalPages(results, total, limit) ==
    IF limit > 0 /\ results <= limit THEN Ceil(total, limit) ELSE 1

HasNext(page, results, total, limit) == page # TotalPages(results, total, limit)
=============================================================================
