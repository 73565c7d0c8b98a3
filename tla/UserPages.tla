----------------------------- MODULE UserPages -----------------------------
(***************************************************************************)
(* UsersService.findPage, and a client that pages through all accounts.    *)
(*                                                                         *)
(* An account is its place in the sort order { createdAt, _id }: both are  *)
(* assigned by the server before the insert is sent, so inserts may arrive *)
(* in another order than the accounts were numbered in.  The rows and the  *)
(* total of a page are two reads of a Promise.all, which MongoDB may serve *)
(* in either order, with inserts and deletes of other requests between.    *)
(***************************************************************************)
EXTENDS Integers, FiniteSets

CONSTANT PageLimit  \* the limit the client pages with

ASSUME UserPagesAssumption == PageLimit \in Nat \ {0}

VARIABLES
    users,  \* the users collection
    page,   \* the page being read: which reads are due, and what the others returned
    scan    \* the client's way through the pages (its history apart from offset)

pagesVars == <<users, page, scan>>

NoPage == [todo |-> {}, rows |-> {}, total |-> 0]

\* expected: the accounts there at the first page; seen: those shown since;
\* disturbed: rows the client is past have moved (see Insert and Delete).
NoScan == [active |-> FALSE, offset |-> 0, expected |-> {}, seen |-> {}, disturbed |-> FALSE]

PagesInit(initial) == users = initial /\ page = NoPage /\ scan = NoScan

-----------------------------------------------------------------------------
Newer(u) == {v \in users : v > u}

\* Mutant: skip counts the first row as number one.
PageOffByOne(offset) == {u \in users : Cardinality(Newer(u)) \in offset + 1 .. offset + PageLimit}

\* find().sort({ createdAt: -1, _id: -1 }).skip(offset).limit(limit)
Page(offset) == {u \in users : Cardinality(Newer(u)) \in offset .. offset + PageLimit - 1}

\* findPage is called: both reads are under way.  An idle client starts over.
FindPage ==
    /\ page' = [NoPage EXCEPT !.todo = {"rows", "total"}]
    /\ scan' = IF scan.active THEN scan
               ELSE [NoScan EXCEPT !.active = TRUE, !.expected = users]
    /\ UNCHANGED users

ReadRows ==
    /\ "rows" \in page.todo
    /\ page' = [page EXCEPT !.todo = @ \ {"rows"}, !.rows = Page(scan.offset)]
    /\ UNCHANGED <<users, scan>>

CountDocuments ==
    /\ "total" \in page.todo
    /\ page' = [page EXCEPT !.todo = @ \ {"total"}, !.total = Cardinality(users)]
    /\ UNCHANGED <<users, scan>>

\* The client computes from total whether there is a next page.
TakePage ==
    /\ page.todo = {}
    /\ scan' = [scan EXCEPT !.offset = @ + PageLimit,
                            !.seen = @ \cup page.rows,
                            !.active = scan.offset + PageLimit < page.total]
    /\ page' = NoPage
    /\ UNCHANGED users

\* The request for a page failed: the client gives up.
DropPage == page' = NoPage /\ scan' = NoScan /\ UNCHANGED users

\* An insert between the total and the rows of a page pushes a row out of it
\* that the total does not announce.
Insert(u) ==
    /\ users' = users \cup {u}
    /\ scan' = [scan EXCEPT !.disturbed = @ \/ page.todo = {"rows"}]
    /\ UNCHANGED page

\* The rows behind the deleted one move up: past the client, if it is further down.
Delete(u) ==
    /\ users' = users \ {u}
    /\ scan' = [scan EXCEPT !.disturbed = @ \/ \E v \in scan.seen \cup page.rows : v <= u]
    /\ UNCHANGED page

-----------------------------------------------------------------------------
\* "total lets clients compute page counts": whoever pages until the total is
\* reached was shown every account that existed all along, some of them twice,
\* while accounts come and go.  (Unless an account was deleted from
\* the part already shown, or inserted between the two reads of one page.)
NoAccountIsSkipped ==
    ~ scan.active /\ ~ scan.disturbed => scan.expected \cap users \subseteq scan.seen
=============================================================================
