----------------------------- MODULE AuditQuery -----------------------------
(* Query and Count of the two storages of services/audit, on the entries    *)
(* they keep in memory, oldest first.  An entry is a record of what queries *)
(* look at; an absent filter is None.                                       *)
EXTENDS AuditPipeline, Integers

CONSTANTS
  None,         \* the zero time, the empty string
  Attributes,   \* Attributes[e]: what queries look at in entry e
  Filters,      \* the filters of queries
  Limits        \* and their limits

ASSUME QueryAssumption == Limits \subseteq Nat \ {0}

(* FileStorage.matchesQuery.  Its tests for an entry without Request or     *)
(* Auth are left out: LogRequest, LogResponse and LogError give both.       *)
matchesQuery(entry, opts) ==
  /\ opts.start # None => entry.time >= opts.start
  /\ opts.end # None => entry.time <= opts.end
  /\ opts.type # None => entry.type = opts.type
  /\ opts.path # None => entry.path = opts.path
  /\ opts.operation # None => entry.operation = opts.operation
  /\ opts.token # None => entry.token = opts.token

(* MemoryStorage.matchesQuery looks at all but the client token.            *)
matchesQueryMemory(entry, opts) == matchesQuery(entry, [opts EXCEPT !.token = None])

(* Faulty: the entries that are skipped count towards the limit.            *)
ScanEndsEarly(listed, hits, offset, limit) ==
  LET after[i \in 0..Len(listed)] ==
        IF i = 0 THEN [skipped |-> 0, results |-> <<>>, full |-> FALSE]
        ELSE LET s == after[i - 1]
                 full == limit > 0 /\ s.skipped + Len(s.results) + 1 >= limit
             IN  IF s.full \/ i \notin hits THEN s
                 ELSE IF s.skipped < offset THEN [s EXCEPT !.skipped = @ + 1, !.full = full]
                 ELSE [s EXCEPT !.results = Append(@, listed[i]), !.full = full]
  IN  after[Len(listed)].results

(* The loop both have, over the entries in the order listed, those at hits  *)
(* matching: skip, then collect until the limit, 0 for none.                *)
Scan(listed, hits, offset, limit) ==
  LET after[i \in 0..Len(listed)] ==
        IF i = 0 THEN [skipped |-> 0, results |-> <<>>, full |-> FALSE]
        ELSE LET s == after[i - 1]
             IN  IF s.full \/ i \notin hits THEN s
                 ELSE IF s.skipped < offset THEN [skipped |-> s.skipped + 1, results |-> s.results, full |-> FALSE]
                 ELSE [skipped |-> s.skipped, results |-> Append(s.results, listed[i]),
                       full |-> limit > 0 /\ Len(s.results) + 1 >= limit]
  IN  after[Len(listed)].results

(* The places of what matches.                                              *)
Hits(entries, opts) == {i \in DOMAIN entries : matchesQuery(entries[i], opts)}

HitsMemory(entries, opts) == {i \in DOMAIN entries : matchesQueryMemory(entries[i], opts)}

NewestFirst(entries) == [i \in 1..Len(entries) |-> entries[Len(entries) + 1 - i]]

(* FileStorage.Query, oldest first.                                         *)
Query(entries, opts, offset, limit) == Scan(entries, Hits(entries, opts), offset, limit)

(* MemoryStorage.Query, newest first.                                       *)
QueryMemory(entries, opts, offset, limit) ==
  Scan(NewestFirst(entries), HitsMemory(NewestFirst(entries), opts), offset, limit)

Count(entries, opts) == Cardinality(Hits(entries, opts))

CountMemory(entries, opts) == Cardinality(HitsMemory(entries, opts))
-----------------------------------------------------------------------------
(* How many of the hits are listed before i.                               *)
Rank(hits, i) == Cardinality({j \in hits : j < i})

(* pages[p], asked for with offset p * limit, is the p-th part of what      *)
(* matches: each hit is where its rank puts it, and nothing else is there.  *)
InPages(listed, hits, pages, total, limit) ==
  /\ \A p \in DOMAIN pages :
       LET rest == total - p * limit
       IN  Len(pages[p]) = IF rest <= 0 THEN 0 ELSE IF rest < limit THEN rest ELSE limit
  /\ \A i \in hits : pages[Rank(hits, i) \div limit][(Rank(hits, i) % limit) + 1] = listed[i]

(* The pages of a query, asked one after the other, are together what      *)
(* matches, in order and once, and Count says how many that are; for both  *)
(* storages, the one listing the oldest first, the other the newest.       *)
PagesComplete ==
  LET entries == [i \in 1..Len(index) |-> Attributes[index[i]]]
      newest == NewestFirst(entries)
  IN  \A opts \in Filters, limit \in Limits :
        /\ InPages(entries, Hits(entries, opts),
                   [p \in 0..Len(index) |-> Query(entries, opts, p * limit, limit)],
                   Count(entries, opts), limit)
        /\ InPages(newest, HitsMemory(newest, opts),
                   [p \in 0..Len(index) |-> QueryMemory(entries, opts, p * limit, limit)],
                   CountMemory(entries, opts), limit)
==============================================================================
