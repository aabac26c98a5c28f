-------------------------------- MODULE Paging --------------------------------
(***************************************************************************)
(* Pages of rows: Query.QueryRows (g2db/mysql_query_rows.go).              *)
(*                                                                         *)
(* External: MySQL.  The n rows that match are 1..n in the order asked     *)
(* for; LIMIT offset,count is an error if a number is negative.            *)
(***************************************************************************)
EXTENDS Integers, FiniteSets

CONSTANTS MaxRows, MaxPage, MaxPageCount,    \* bounds (model checking only)
          maxCount                           \* 100 in the code

ASSUME PagingAssumption ==
  {MaxRows, MaxPage, MaxPageCount} \subseteq Nat /\ maxCount \in Nat \ {0}

Default == 10

(* The parameters after the defaults and the limit.                        *)
Page(p) == IF p.page = 0 THEN 1 ELSE p.page
PageCount(p) ==
  LET c == IF p.count = 0 THEN Default ELSE p.count IN
  IF c > maxCount THEN maxCount ELSE c

(* Mutant: page one begins after the first page.                           *)
Offset_One(p) == PageCount(p) * Page(p)

Offset(p) == PageCount(p) * (Page(p) - 1)

Find(n, offset, count) == {r \in 1..n : offset < r /\ r <= offset + count}

Pages(n, count) == n \div count + (IF n % count > 0 THEN 1 ELSE 0)

QueryError == [error |-> TRUE, data |-> {}, count |-> 0, pages |-> 0]

(* A page without rows has no count and no number of pages.                *)
QueryRows(n, p) ==
  IF Offset(p) < 0 \/ PageCount(p) < 0 THEN QueryError
  ELSE LET data == Find(n, Offset(p), PageCount(p)) IN
       [error |-> FALSE, data |-> data,
        count |-> IF data = {} THEN 0 ELSE n,
        pages |-> IF data = {} THEN 0 ELSE Pages(n, PageCount(p))]

-----------------------------------------------------------------------------
(* The pages of n rows, c at a time, are a partition of the rows.          *)
PagesCover(n, c) ==
  LET At(i) == QueryRows(n, [page |-> i, count |-> c])
      pages == At(1).pages
  IN IF c < 0 THEN At(1).error
     ELSE /\ ~At(1).error
          /\ UNION {At(i).data : i \in 1..pages} = 1..n
          /\ \A i, k \in 1..pages : i # k => At(i).data \cap At(k).data = {}
          /\ \A i \in 1..MaxPage :
               /\ Cardinality(At(i).data) <= maxCount
               /\ i > pages <=> At(i).data = {}
               /\ At(i).count = IF i > pages THEN 0 ELSE n
          /\ At(0) = At(1) /\ At(-1).error
=============================================================================
