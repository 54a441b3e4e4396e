--------------------------- MODULE Pagination ---------------------------
(***************************************************************************)
(* Cursor pagination, as every list endpoint of the API does it: rows are  *)
(* ordered by (createdAt, id), newest first; a page holds the first "limit" *)
(* rows strictly older than the cursor, and the cursor of the next page is  *)
(* the last row of a full page.  A short page ends the list, so that a list *)
(* whose length is a multiple of the limit ends with an empty page.         *)
(*                                                                          *)
(* A row is a record with the fields createdAt and id, both numbers here    *)
(* (uuids are compared as text; only their order matters).  A cursor is a   *)
(* set: empty for the first page, else the one row it was made from.        *)
(***************************************************************************)
EXTENDS Integers, FiniteSets

MinLimit     == 1
MaxLimit     == 100
DefaultLimit == 20

\* The limits normalizePaginationParams accepts; any other raises an error.
Limits == MinLimit..MaxLimit

\* CURSOR_ORDER_BY: r comes before s in every list.
Newer(r, s) == \/ r.createdAt > s.createdAt
               \/ r.createdAt = s.createdAt /\ r.id > s.id

\* A faulty variant: the condition compares createdAt alone.
BeyondByTime(rows, cursor) ==
    {r \in rows : \A c \in cursor : r.createdAt < c.createdAt}

\* createCursorWhereCondition: the rows the next page is taken from.
Beyond(rows, cursor) == {r \in rows : \A c \in cursor : Newer(c, r)}

\* findMany with take: limit + 1, and slice(0, limit): the first limit rows.
Take(rows, limit) == {r \in rows : Cardinality({s \in rows : Newer(s, r)}) < limit}

Page(rows, cursor, limit) == Take(Beyond(rows, cursor), limit)

\* determineNextCursor: the last row of a full page, nothing after a short one.
NextCursor(page, limit) ==
    {r \in page : /\ Cardinality(page) >= limit
                  /\ \A s \in page \ {r} : Newer(s, r)}
=============================================================================
