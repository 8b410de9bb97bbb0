------------------------------- MODULE Paging --------------------------------
(* A client walks through the pages of a list endpoint, by page number or by *)
(* cursor, while rows are added to the table.  The database may return rows  *)
(* with equal sort keys in a different order for every query.                *)
EXTENDS Integers, FiniteSets, Sequences, SequencesExt

CONSTANTS RowMax,    \* rows of the table: ids 1 .. RowMax
          StampMax,  \* distinct values of createdAt
          PageLimit  \* limit

ASSUME PagingAssumption == RowMax \in Nat /\ StampMax \in Nat \ {0} /\ PageLimit \in Nat \ {0}

VARIABLES stamp,    \* createdAt of each row; 0 while the row does not exist
          walk,     \* the endpoint, the next page or cursor, whether it is over
          shown,    \* ids in the order they were shown
          touched   \* the table changed during the walk

pgVars == <<stamp, walk, shown, touched>>

\* The list endpoints: the order of the sort key (createdAt, or the priority,
\* severity or chosen field before it), whether the id breaks ties, and whether
\* the client is given a cursor
Endpoint(order, tie, cursor) == [order |-> order, tie |-> tie, cursor |-> cursor]
listUsers == Endpoint("desc", FALSE, TRUE)
getModerationQueue == Endpoint("asc", FALSE, TRUE)
monitorTransactions == Endpoint("desc", FALSE, TRUE)
transactionsFindAll == Endpoint("desc", FALSE, TRUE)
usersFindAll == Endpoint("desc", TRUE, FALSE)
usersSearch == Endpoint("desc", FALSE, FALSE)
verificationFindAll == Endpoint("desc", FALSE, FALSE)
activityFindAll == Endpoint("desc", FALSE, FALSE)
auditFindByTransaction == Endpoint("asc", FALSE, FALSE)
commissionsFindAll == Endpoint("desc", FALSE, FALSE)
listTickets == Endpoint("desc", FALSE, FALSE)
listApiKeys == Endpoint("desc", TRUE, FALSE)
findAllPaginated == Endpoint("desc", TRUE, FALSE)
searchByPaging == Endpoint("desc", FALSE, FALSE)
listFavorites == Endpoint("desc", FALSE, FALSE)
getViewHistory == Endpoint("desc", FALSE, FALSE)
listAlerts == Endpoint("desc", FALSE, FALSE)
listingsFindAll == Endpoint("desc", FALSE, FALSE)

Endpoints == {listUsers, getModerationQueue, monitorTransactions, transactionsFindAll, usersFindAll,
              usersSearch, verificationFindAll, activityFindAll, auditFindByTransaction,
              commissionsFindAll, listTickets, listApiKeys, findAllPaginated, searchByPaging,
              listFavorites, getViewHistory, listAlerts, listingsFindAll}

Rows == {i \in 1 .. RowMax : stamp[i] # 0}

PgTypeOK == /\ stamp \in [1 .. RowMax -> 0 .. StampMax] /\ touched \in BOOLEAN
            /\ walk \in [at : Endpoints, page : 1 .. RowMax + 2, cursor : 0 .. StampMax, over : BOOLEAN]
            /\ shown \in Seq(1 .. RowMax)

PgInit == /\ stamp \in [1 .. RowMax -> 0 .. StampMax] /\ shown = <<>> /\ touched = FALSE
          /\ walk \in [at : Endpoints, page : {1}, cursor : {0}, over : {FALSE}]

\* orderBy: the orders the database may return the rows R in
Before(e, i, j) == \/ IF e.order = "desc" THEN stamp[i] > stamp[j] ELSE stamp[i] < stamp[j]
                   \/ stamp[i] = stamp[j] /\ (e.tie => i > j)
Sorted(e, R) == {s \in SetToSeqs(R) : \A a, b \in 1 .. Len(s) : a < b => Before(e, s[a], s[b])}

Slice(s, skip) == SubSeq(s, skip + 1, IF skip + PageLimit < Len(s) THEN skip + PageLimit ELSE Len(s))

pageByNumber_OffByOne ==
    /\ ~walk.over /\ ~walk.at.cursor
    /\ \E s \in Sorted(walk.at, Rows) : shown' = shown \o Slice(s, walk.page * PageLimit)
    /\ walk' = [walk EXCEPT !.page = @ + 1, !.over = walk.page * PageLimit >= Cardinality(Rows)]
    /\ UNCHANGED <<stamp, touched>>

\* skip (page - 1) * limit, take limit, until totalPages = ceil(total / limit)
pageByNumber ==
    /\ ~walk.over /\ ~walk.at.cursor
    /\ \E s \in Sorted(walk.at, Rows) : shown' = shown \o Slice(s, (walk.page - 1) * PageLimit)
    /\ walk' = [walk EXCEPT !.page = @ + 1, !.over = walk.page * PageLimit >= Cardinality(Rows)]
    /\ UNCHANGED <<stamp, touched>>

cursorPage(older(_)) ==
    /\ ~walk.over /\ walk.at.cursor /\ walk.page <= RowMax + 1
    /\ \E s \in Sorted(walk.at, {i \in Rows : walk.cursor # 0 => older(i)}) :
          LET items == Slice(s, 0) IN
          /\ shown' = shown \o items
          /\ walk' = IF Len(items) = PageLimit
                     THEN [walk EXCEPT !.page = @ + 1, !.cursor = stamp[items[PageLimit]]]
                     ELSE [walk EXCEPT !.over = TRUE]
    /\ UNCHANGED <<stamp, touched>>

pageByCursor_Inclusive == cursorPage(LAMBDA i : stamp[i] <= walk.cursor)

\* createdAt lt the cursor, which is the createdAt of the last row of a full page
pageByCursor == cursorPage(LAMBDA i : stamp[i] < walk.cursor)

\* a new row is at least as new as every other one
AddRow == \E i \in 1 .. RowMax :
    /\ stamp[i] = 0 /\ ~walk.over /\ touched' = TRUE
    /\ \E t \in 1 .. StampMax : (\A j \in Rows : stamp[j] <= t) /\ stamp' = [stamp EXCEPT ![i] = t]
    /\ UNCHANGED <<walk, shown>>

PgNext == pageByNumber \/ pageByCursor \/ AddRow

PgSpec == PgInit /\ [][PgNext]_pgVars

-----------------------------------------------------------------------------
ShownOnce == Len(shown) = Cardinality(ToSet(shown))
DistinctStamps == \A i, j \in Rows : stamp[i] = stamp[j] => i = j

(* A walk by page number over a table that does not change shows every row   *)
(* exactly once when the id breaks ties, as users.service.ts:332 and         *)
(* properties.service.ts:301-303 promise; without it, only when no two rows  *)
(* share a time stamp.                                                       *)
PagesComplete ==
    (walk.over /\ ~touched /\ ~walk.at.cursor /\ (walk.at.tie \/ DistinctStamps))
        => ShownOnce /\ ToSet(shown) = Rows

(* A walk by cursor, newest first, never shows a row twice, even when rows   *)
(* are added on the way, and over an unchanged table it misses only rows     *)
(* with the time stamp of the last row of a page (admin.service.ts:126-152). *)
CursorWalksForward ==
    (walk.at.cursor /\ walk.at.order = "desc")
        => /\ ShownOnce
           /\ (walk.over /\ ~touched) =>
                \A i \in Rows \ ToSet(shown) : \E j \in ToSet(shown) : stamp[i] = stamp[j]
=============================================================================
