---------------------------- MODULE HistoryPaging ---------------------------
(***************************************************************************)
(* TransformationHistoryService.list and history-query.ts: a caller reads  *)
(* the history of a user page by page, each page starting below a cursor   *)
(* (created_at, id), while other requests write rows and sweeps remove     *)
(* them.  A page is one query; the audit of the view follows it, and the   *)
(* answer is lost when the audit fails.                                    *)
(*                                                                         *)
(* The clock of the database is finer than the column TIMESTAMP(3): time   *)
(* is counted in half milliseconds here.  A row is identified by its uuid, *)
(* which is random: ids are numbers in no relation to the order of writes. *)
(***************************************************************************)
EXTENDS Integers, FiniteSets

CONSTANTS
  MaxTime,  \* bound: the clock
  Id,       \* bound: rows ever written
  Kind,     \* what the equality filters look at: owner, type, formats, status
  Query,    \* the filters a caller may ask for
  Limits,   \* page sizes a caller may ask for
  Reader

ASSUME PagingAssumption ==
  /\ MaxTime \in Nat
  /\ Id \subseteq Nat /\ IsFiniteSet(Id)
  /\ Query \subseteq [kinds : SUBSET Kind, from : Nat, to : Nat]
  /\ Limits \subseteq Nat \ {0}

VARIABLES
  clock,
  state,    \* state[i]: "unused", "writing", "stored" or "removed"
  created,  \* created[i]: created_at, in half milliseconds
  kind,     \* kind[i]: the filtered columns of the row
  phase,    \* where the reader is: "idle", "asking", "auditing", "done"
  query,    \* its filters
  cursor,   \* {} for the first page, else {the nextCursor it got}
  page,     \* rows of the page under way
  next,     \* nextCursor of that page, {} for null
  seen,     \* rows it was given so far
  due       \* rows it must be given: stored when it started and ever since

rowVars    == <<clock, state, created, kind>>
readerVars == <<phase, query, cursor, page, next, seen, due>>
vars       == <<rowVars, readerVars>>

Cursor == [createdAtMs : Nat, id : Id]

TypeOK ==
  /\ clock \in 0..MaxTime
  /\ state \in [Id -> {"unused", "writing", "stored", "removed"}]
  /\ created \in [Id -> Nat]
  /\ kind \in [Id -> Kind]
  /\ phase \in [Reader -> {"idle", "asking", "auditing", "done"}]
  /\ query \in [Reader -> Query]
  /\ cursor \in [Reader -> SUBSET Cursor] /\ next \in [Reader -> SUBSET Cursor]
  /\ page \in [Reader -> SUBSET Id]
  /\ seen \in [Reader -> SUBSET Id]
  /\ due \in [Reader -> SUBSET Id]

Init ==
  /\ clock = 0
  /\ state = [i \in Id |-> "unused"]
  /\ created = [i \in Id |-> 0]
  /\ kind \in [Id -> Kind]
  /\ phase = [p \in Reader |-> "idle"]
  /\ query \in [Reader -> Query]
  /\ cursor = [p \in Reader |-> {}] /\ next = [p \in Reader |-> {}]
  /\ page = [p \in Reader |-> {}]
  /\ seen = [p \in Reader |-> {}]
  /\ due = [p \in Reader |-> {}]

-----------------------------------------------------------------------------
(* The rows.                                                               *)

Tick ==
  /\ clock < MaxTime
  /\ clock' = clock + 1
  /\ UNCHANGED <<state, created, kind, readerVars>>

\* Fault: a column of the default precision keeps the microseconds.
RoundedNever(t) == t

\* TIMESTAMP(3) rounds to the nearest millisecond.
Rounded(t) == 2 * ((t + 1) \div 2)

\* save() of a new row opens a transaction; created_at is the time it began.
BeginRecord(i) ==
  /\ state[i] = "unused"
  /\ state' = [state EXCEPT ![i] = "writing"]
  /\ created' = [created EXCEPT ![i] = Rounded(clock)]
  /\ UNCHANGED <<clock, kind, readerVars>>

\* It commits, or rolls back.
EndRecord(i) ==
  /\ state[i] = "writing"
  /\ \E s \in {"stored", "removed"} : state' = [state EXCEPT ![i] = s]
  /\ UNCHANGED <<clock, created, kind, readerVars>>

\* A sweep, or the cascade of a deleted user.
Remove(i) ==
  /\ state[i] = "stored"
  /\ state' = [state EXCEPT ![i] = "removed"]
  /\ due' = [p \in Reader |-> due[p] \ {i}]
  /\ UNCHANGED <<clock, created, kind, phase, query, cursor, page, next, seen>>

-----------------------------------------------------------------------------
(* One page.                                                               *)

\* ORDER BY created_at DESC, id DESC.
Newer(i, j) == created[i] > created[j] \/ (created[i] = created[j] /\ i > j)

\* The filters of the query; both ends of the range are inclusive.
Matches(q, i) ==
  kind[i] \in q.kinds /\ q.from <= created[i] /\ created[i] <= q.to

\* encodeCursor: Date.getTime() is in whole milliseconds.
EncodeCursor(i) == [createdAtMs |-> created[i] \div 2, id |-> i]

\* Fault: <= in the comparison of ids.
BelowOrAt(i, c) ==
  LET at == 2 * c.createdAtMs IN
  created[i] < at \/ (created[i] = at /\ i <= c.id)

\* parseCursor, and the comparison of the query with it.
Below(i, c) ==
  LET at == 2 * c.createdAtMs IN
  created[i] < at \/ (created[i] = at /\ i < c.id)

Candidates(q, cs) ==
  {i \in Id : state[i] = "stored" /\ Matches(q, i) /\ \A c \in cs : Below(i, c)}

\* The newest rows of a set.
First(rows, limit) ==
  {i \in rows : Cardinality({j \in rows : Newer(j, i)}) < limit}

\* Fault: the cursor is taken from the extra row.
NextCursorOfExtra(rows, limit) ==
  {EncodeCursor(i) : i \in {k \in rows : Cardinality({j \in rows : Newer(j, k)}) = limit}}

Last(rows) == {i \in rows : \A j \in rows : j = i \/ Newer(j, i)}

\* nextCursor is null when limit + 1 rows were asked for and did not come.
NextCursor(rows, limit) ==
  IF Cardinality(rows) > limit
  THEN {EncodeCursor(i) : i \in Last(First(rows, limit))}
  ELSE {}

-----------------------------------------------------------------------------
(* A reader, which passes each nextCursor on with the same filters.        *)

Start(p) ==
  /\ phase[p] = "idle"
  /\ phase' = [phase EXCEPT ![p] = "asking"]
  /\ due' = [due EXCEPT ![p] = Candidates(query[p], {})]
  /\ UNCHANGED <<rowVars, query, cursor, page, next, seen>>

\* The query of list().  A refused request (inactive user, wrong filter)
\* changes nothing.
List(p) ==
  /\ phase[p] = "asking"
  /\ phase' = [phase EXCEPT ![p] = "auditing"]
  /\ LET rows == Candidates(query[p], cursor[p]) IN
     \E limit \in Limits :
       /\ page' = [page EXCEPT ![p] = First(rows, limit)]
       /\ next' = [next EXCEPT ![p] = NextCursor(rows, limit)]
  /\ UNCHANGED <<rowVars, query, cursor, seen, due>>

\* The view is audited and the answer arrives.
Answer(p) ==
  /\ phase[p] = "auditing"
  /\ phase' = [phase EXCEPT ![p] = IF next[p] = {} THEN "done" ELSE "asking"]
  /\ seen' = [seen EXCEPT ![p] = @ \cup page[p]]
  /\ cursor' = [cursor EXCEPT ![p] = next[p]]
  /\ page' = [page EXCEPT ![p] = {}]
  /\ next' = [next EXCEPT ![p] = {}]
  /\ UNCHANGED <<rowVars, query, due>>

\* The audit fails, or the answer is lost: the caller asks again.
AnswerLost(p) ==
  /\ phase[p] = "auditing"
  /\ phase' = [phase EXCEPT ![p] = "asking"]
  /\ page' = [page EXCEPT ![p] = {}]
  /\ next' = [next EXCEPT ![p] = {}]
  /\ UNCHANGED <<rowVars, query, cursor, seen, due>>

Next ==
  \/ Tick
  \/ \E i \in Id : BeginRecord(i)
  \/ \E i \in Id : EndRecord(i)
  \/ \E i \in Id : Remove(i)
  \/ \E p \in Reader : Start(p)
  \/ \E p \in Reader : List(p)
  \/ \E p \in Reader : Answer(p)
  \/ \E p \in Reader : AnswerLost(p)

\* Queries are answered, and not every answer is lost.
Fairness == \A p \in Reader : WF_vars(List(p)) /\ SF_vars(Answer(p))

Spec == Init /\ [][Next]_vars /\ Fairness

-----------------------------------------------------------------------------
(* Properties.                                                             *)

\* Pages neither repeat nor reorder: each row of a page is older than all rows
\* of the pages before it, whatever was written or removed in between and how
\* often a page was asked for.
PagesDescend ==
  \A p \in Reader :
    phase[p] = "auditing" => \A i \in page[p], j \in seen[p] : Newer(j, i)

\* Pages leave nothing out: a reader that has come to the end was given every
\* row that was there from its start to its end.
NothingSkipped == \A p \in Reader : phase[p] = "done" => due[p] \subseteq seen[p]

\* Reading page by page comes to an end, although rows are being written.
ReadingEnds == \A p \in Reader : phase[p] = "asking" ~> phase[p] = "done"

\* The rest of the inductive invariant: times are whole milliseconds, so that a
\* cursor marks its row exactly; the rows a reader has to do with are written;
\* and the cursor separates the rows it was given from those still due.
TimesAreExact == \A i \in Id : created[i] % 2 = 0

RowsAreWritten ==
  \A p \in Reader :
    /\ \A i \in seen[p] \cup page[p] : state[i] \in {"stored", "removed"}
    /\ \A i \in due[p] : state[i] = "stored" /\ Matches(query[p], i)

CursorSeparates ==
  \A p \in Reader :
    /\ phase[p] = "idle" => seen[p] = {} /\ cursor[p] = {} /\ due[p] = {}
    /\ cursor[p] = {} /\ phase[p] # "done" => seen[p] = {}
    /\ \A c \in cursor[p] : \A i \in seen[p] : ~Below(i, c)
    /\ phase[p] # "done" =>
         \A i \in due[p] \ seen[p] : \A c \in cursor[p] : Below(i, c)

PageFollowsCursor ==
  \A p \in Reader : phase[p] = "auditing" =>
    /\ \A i \in page[p], c \in cursor[p] : Below(i, c)
    /\ \A i \in seen[p] \cup page[p], c \in next[p] : ~Below(i, c)
    /\ \A i \in due[p] \ (seen[p] \cup page[p]) :
         next[p] # {} /\ \A c \in next[p] : Below(i, c)

IndInv ==
  /\ TypeOK /\ PagesDescend /\ NothingSkipped /\ TimesAreExact /\ RowsAreWritten
  /\ CursorSeparates /\ PageFollowsCursor
=============================================================================
