------------------------------ MODULE Listings ------------------------------
(***************************************************************************)
(* A caller walks through a paged listing, one request for each page, by   *)
(* the `next` link of every answer, while rows come and go.  A request is  *)
(* one batch of two statements, a count and a select with the offset of    *)
(* the page, each of which sees the rows of its own moment; a failed one   *)
(* is sent again.  Nothing is kept between the requests: the page number   *)
(* in the link is all there is.                                            *)
(*                                                                         *)
(* What the listings ask and answer is data here: a walk is the plan of    *)
(* the first request, the plan of those made from a link, and whether the  *)
(* link lost a part of the request.                                        *)
(***************************************************************************)
EXTENDS Pagination, FiniteSets

CONSTANTS
    Rows,          \* the rows a listing may find
    SortKey,       \* what they are ordered by, uniquely or not
    Walks,         \* the listings, as the requests to them are answered
    PageLimit,     \* PAGE_LIMIT_DEFAULT
    OwnLimit,      \* a limit a service or a caller chose
    MaxChanges,    \* rows that come or go during a walk
    MaxPages,      \* pages a caller asks for
    MaxOff         \* rows by which a total may be off

ASSUME RowsFinite == IsFiniteSet(Rows)

ASSUME KeysSort ==
    /\ SortKey \in [{"unique", "ties"} -> [Rows -> Nat]]
    /\ \A r, s \in Rows : SortKey["unique"][r] = SortKey["unique"][s] => r = s

\* A link is answered as the first request was, if it is answered at all.
ASSUME WalksAsk ==
    /\ Walks \subseteq [first : Plans, next : Plans, strays : BOOLEAN]
    /\ \A w \in Walks : w.next.refused \/ w.next = w.first

ASSUME LimitsArePositive ==
    /\ PageLimit \in Nat \ {0}
    /\ OwnLimit \in Nat \ {0}
    /\ MaxChanges \in Nat
    /\ MaxPages \in Nat
    /\ MaxOff \in Nat

VARIABLES
    table,      \* the rows that answer the caller's request
    walk,       \* the listing the caller walks through
    stage,      \* where the walk is
    page,       \* the page that was asked for last
    counted,    \* the rows when they were counted
    total,      \* totalCount
    read,       \* the rows the answers were made from
    stayed,     \* the rows that were there all the time
    marks,      \* what befell the walk
    changes     \* rows that came or went

listingVars == <<table, walk, stage, page, counted, total, read, stayed, marks, changes>>

Marks == {"left", "entered", "torn", "twice", "hollow", "cut"}

ListingTypeOK ==
    /\ table \subseteq Rows
    /\ walk \in Walks
    /\ stage \in {"idle", "asked", "counted", "link", "ended", "refused"}
    /\ page \in Nat \ {0}
    /\ counted \subseteq Rows
    /\ total \in Nat
    /\ read \subseteq Rows
    /\ stayed \subseteq table
    /\ marks \subseteq Marks
    /\ changes \in Nat

ListingInit ==
    /\ table \in SUBSET Rows
    /\ walk \in Walks
    /\ stage = "idle"
    /\ page = 1
    /\ counted = {}
    /\ total = 0
    /\ read = {}
    /\ stayed = table
    /\ marks = {}
    /\ changes = 0

-----------------------------------------------------------------------------
\* The first rows of a set, the order of equal ones being the server's choice.
FirstRows(S, key, n) ==
    {B \in SUBSET S :
        /\ Cardinality(B) = (IF n <= Cardinality(S) THEN n ELSE Cardinality(S))
        /\ \A b \in B, r \in S \ B : key[b] <= key[r]}

\* The rows an offset and a limit leave of a set.
PageRows(S, key, n, p) ==
    {W \in SUBSET S :
        \E B \in FirstRows(S, key, PageOffset(p, n)) :
            /\ B \cap W = {}
            /\ B \cup W \in FirstRows(S, key, PageOffset(p + 1, n))}

Plan == IF page = 1 THEN walk.first ELSE walk.next

\* The totals a count query may come to.
Counts(n) ==
    {k \in 0 .. n + MaxOff :
        /\ Plan.count = "rows" => k = n
        /\ Plan.count = "more" => k >= n
        /\ Plan.count = "fewer" => k <= n /\ n <= k + MaxOff}

Paged == Plan.size \in {"default", "own", "void"}

SetLimit == IF Plan.size = "own" THEN OwnLimit ELSE PageLimit

\* The limit of the answer: the one of the query, but for a caller's "all", and
\* for a page size that is zero or not a number.
Limit == IF Plan.size = "all" THEN total ELSE IF Plan.size = "void" THEN 0 ELSE SetLimit

\* The rows that answer the request: more of them when the link lost a part.
Matching ==
    {S \in SUBSET Rows : table \subseteq S /\ (S = table \/ (walk.strays /\ page > 1))}

Found == IF Plan.snapshot THEN {counted} ELSE Matching

PagesOf(S) == IF Paged THEN PageRows(S, SortKey[Plan.order], SetLimit, page) ELSE {S}

Mark(m, cond) == IF cond THEN {m} ELSE {}

-----------------------------------------------------------------------------
Ask ==
    /\ stage \in {"idle", "link", "ended", "refused"}
    /\ stage' = "asked"
    /\ page' = 1
    /\ counted' = {}
    /\ total' = 0
    /\ read' = {}
    /\ stayed' = table
    /\ marks' = {}
    /\ UNCHANGED <<table, walk, changes>>

Follow ==
    /\ stage = "link"
    /\ page < MaxPages
    /\ stage' = "asked"
    /\ page' = page + 1
    /\ UNCHANGED <<table, walk, counted, total, read, stayed, marks, changes>>

Refuse ==
    /\ stage = "asked"
    /\ Plan.refused
    /\ stage' = "refused"
    /\ UNCHANGED <<table, walk, page, counted, total, read, stayed, marks, changes>>

CountRows ==
    /\ stage = "asked"
    /\ ~Plan.refused
    /\ stage' = "counted"
    /\ \E S \in Matching :
          /\ counted' = S
          /\ total' \in Counts(Cardinality(S))
    /\ UNCHANGED <<table, walk, page, read, stayed, marks, changes>>

QueryFails ==
    /\ stage = "counted"
    /\ stage' = "asked"
    /\ UNCHANGED <<table, walk, page, counted, total, read, stayed, marks, changes>>

\* The answer from the rows of a page, less those that are left out.
Answered(kept) ==
    IF kept = {} /\ Plan.empty = "nothing" THEN "ended"
    ELSE IF Plan.size # "array" /\ HasNext(page, Cardinality(kept), total, Limit) THEN "link"
    ELSE "ended"

SelectPage ==
    /\ stage = "counted"
    /\ \E S \in Found : \E W \in PagesOf(S) :
       \E kept \in IF Plan.drops THEN SUBSET W ELSE {W} :
          /\ stage' = Answered(kept)
          /\ read' = read \cup W
          /\ marks' = marks \cup Mark("torn", S # counted)
                            \cup Mark("twice", W \cap read # {})
                            \cup Mark("hollow", total = 0)
                            \cup Mark("cut", kept = {} /\ W # {})
    /\ UNCHANGED <<table, walk, page, counted, total, stayed, changes>>

Enter(r) ==
    /\ changes < MaxChanges
    /\ r \notin table
    /\ table' = table \cup {r}
    /\ marks' = marks \cup {"entered"}
    /\ changes' = changes + 1
    /\ UNCHANGED <<walk, stage, page, counted, total, read, stayed>>

Leave(r) ==
    /\ changes < MaxChanges
    /\ r \in table
    /\ table' = table \ {r}
    /\ stayed' = stayed \ {r}
    /\ marks' = marks \cup {"left"}
    /\ changes' = changes + 1
    /\ UNCHANGED <<walk, stage, page, counted, total, read>>

ListingNext ==
    \/ Ask
    \/ Follow
    \/ Refuse
    \/ CountRows
    \/ QueryFails
    \/ SelectPage
    \/ \E r \in Rows : Enter(r) \/ Leave(r)

ListingSpec == ListingInit /\ [][ListingNext]_listingVars

-----------------------------------------------------------------------------
\* Whether the pages are parts of one sequence of rows.
Sequenced == ~walk.strays /\ Plan.order = "unique"

\* A walk that ended has passed every row that was there all the time.
NothingMissed ==
    /\ stage = "ended"
    /\ Sequenced
    /\ Plan.count # "fewer"
    /\ Plan.size # "void"
    /\ marks \cap {"left", "torn", "cut"} = {}
    => stayed \subseteq read

\* No row is on two pages.
NothingRepeated ==
    Sequenced /\ Paged /\ "entered" \notin marks => "twice" \notin marks

\* Behind a link there are rows.
LinkLeadsOn ==
    /\ stage = "link"
    /\ Paged
    /\ ~walk.strays
    /\ Plan.count = "rows"
    /\ marks \cap {"left", "hollow"} = {}
    => Cardinality(counted) > page * SetLimit

(***************************************************************************)
(* What offsets can promise (createPaginatedResult, appendPaginationFilter *)
(* and the order by of each query) when rows come and go between the       *)
(* requests: an ordered listing misses a row only if one left, if rows     *)
(* came between the count and the select of one request, if a page of      *)
(* which nothing was kept ended the walk, or if the page size the caller   *)
(* gave is zero or not a number, which makes the first page the only one;  *)
(* it repeats a row only if one came; and a next link is given only if     *)
(* there are more rows, unless some left or there were none.               *)
(***************************************************************************)
WalkExact == NothingMissed /\ NothingRepeated /\ LinkLeadsOn

(***************************************************************************)
(* The link of an answer with rows is one the endpoint answers: "URL that  *)
(* will return the next set of paginated results" (paginatedResult.ts).    *)
(***************************************************************************)
NextReturnsResults == stage = "refused" => page = 1 \/ "hollow" \in marks
=============================================================================
