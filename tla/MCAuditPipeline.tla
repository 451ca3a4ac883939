--------------------------- MODULE MCAuditPipeline ---------------------------
(* A small instance of the audit pipeline. *)
EXTENDS AuditQuery

(* Timestamps are taken before the entries are appended: not in order.      *)
MCAttributes ==
  [e \in 1..MaxEntries |->
     [id |-> e, time |-> IF e % 2 = 0 THEN e - 1 ELSE e + 1,
      type |-> IF e % 2 = 0 THEN "response" ELSE "request", path |-> "p", operation |-> "read",
      token |-> IF e < 3 THEN "t1" ELSE "t2"]]

NoFilter == [start |-> None, end |-> None, type |-> None, path |-> None, operation |-> None, token |-> None]

MCFilters ==
  {NoFilter, [NoFilter EXCEPT !.type = "request"], [NoFilter EXCEPT !.start = 2, !.end = 4],
   [NoFilter EXCEPT !.token = "t1", !.path = "p"], [NoFilter EXCEPT !.operation = "write"]}
==============================================================================
