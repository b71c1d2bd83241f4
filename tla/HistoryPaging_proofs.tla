------------------------ MODULE HistoryPaging_proofs ------------------------
(***************************************************************************)
(* Proofs about HistoryPaging for any number of rows, any clock, any       *)
(* filters and any page sizes: pages never repeat a row and never skip one *)
(* that stays.                                                             *)
(***************************************************************************)
EXTENDS HistoryPaging, FiniteSetTheorems, WellFoundedInduction, TLAPS

\* Ids and times are numbers.
LEMMA Numbers ==
  ASSUME PagingAssumption, TypeOK
  PROVE  \A i \in Id : i \in Nat /\ created[i] \in Nat
BY DEF PagingAssumption, TypeOK

\* Newer is a total order of the rows.
LEMMA NewerIsAnOrder ==
  ASSUME PagingAssumption, TypeOK, NEW i \in Id, NEW j \in Id, NEW k \in Id
  PROVE  /\ ~Newer(i, i)
         /\ i = j \/ Newer(i, j) \/ Newer(j, i)
         /\ Newer(i, j) /\ Newer(j, k) => Newer(i, k)
<1>1. i \in Nat /\ j \in Nat /\ k \in Nat
      /\ created[i] \in Nat /\ created[j] \in Nat /\ created[k] \in Nat
  BY Numbers
<1> QED
  BY <1>1 DEF Newer

\* Of finitely many parts of a finite set, one contains no other.
LEMMA MinimalPart ==
  ASSUME NEW S, IsFiniteSet(S), S # {}
  PROVE  \A f \in [S -> SUBSET S] :
           \E i \in S : \A j \in S : f[j] \subseteq f[i] => f[j] = f[i]
<1> TAKE f \in [S -> SUBSET S]
<1> DEFINE T == {f[i] : i \in S}
<1>1. T \subseteq SUBSET S /\ T # {}
  OBVIOUS
<1>2. T \subseteq FiniteSubsetsOf(S)
  BY <1>1, FS_FiniteSubsetsOfFinite
<1> HIDE DEF T
<1>3. PICK x \in T : \A y \in T : ~(<<y, x>> \in StrictSubsetOrdering(S))
  BY <1>1, <1>2, FS_StrictSubsetOrderingWellFounded, WFMin
<1>4. PICK i \in S : x = f[i]
  BY DEF T
<1>5. \A j \in S : f[j] \in T /\ f[j] \in SUBSET S
  BY DEF T
<1> QED
  BY <1>3, <1>4, <1>5 DEF StrictSubsetOrdering

\* Every set of rows has a newest and an oldest one.
LEMMA EndsExist ==
  ASSUME PagingAssumption, TypeOK, NEW rows, rows \subseteq Id, rows # {}
  PROVE  /\ \E i \in rows : \A j \in rows : ~Newer(j, i)
         /\ Last(rows) # {}
<1> DEFINE Before(i) == {j \in rows : Newer(j, i)}
           After(i)  == {j \in rows : Newer(i, j)}
<1>1. IsFiniteSet(rows)
  BY FS_Subset DEF PagingAssumption
<1>3. PICK i \in rows : \A j \in rows : Before(j) \subseteq Before(i) => Before(j) = Before(i)
  <2> DEFINE f == [i \in rows |-> Before(i)]
  <2>1. f \in [rows -> SUBSET rows]
    OBVIOUS
  <2>2. PICK i \in rows : \A j \in rows : f[j] \subseteq f[i] => f[j] = f[i]
    <3>1. \A g \in [rows -> SUBSET rows] :
            \E y \in rows : \A j \in rows : g[j] \subseteq g[y] => g[j] = g[y]
      BY <1>1, MinimalPart
    <3> HIDE DEF f
    <3> QED
      BY <2>1, <3>1
  <2> QED
    BY <2>2
<1>4. \A j \in rows : ~Newer(j, i)
  <2> SUFFICES ASSUME NEW j \in rows, Newer(j, i) PROVE FALSE
    OBVIOUS
  <2>1. Before(j) \subseteq Before(i) /\ j \in Before(i) /\ j \notin Before(j)
    BY NewerIsAnOrder
  <2> QED
    BY <1>3, <2>1
<1>5. PICK k \in rows : \A j \in rows : After(j) \subseteq After(k) => After(j) = After(k)
  <2> DEFINE f == [x \in rows |-> After(x)]
  <2>1. f \in [rows -> SUBSET rows]
    OBVIOUS
  <2>2. PICK x \in rows : \A j \in rows : f[j] \subseteq f[x] => f[j] = f[x]
    <3>1. \A g \in [rows -> SUBSET rows] :
            \E y \in rows : \A j \in rows : g[j] \subseteq g[y] => g[j] = g[y]
      BY <1>1, MinimalPart
    <3> HIDE DEF f
    <3> QED
      BY <2>1, <3>1
  <2> QED
    BY <2>2
<1>6. \A j \in rows : ~Newer(k, j)
  <2> SUFFICES ASSUME NEW j \in rows, Newer(k, j) PROVE FALSE
    OBVIOUS
  <2>1. After(j) \subseteq After(k) /\ j \in After(k) /\ j \notin After(j)
    BY NewerIsAnOrder
  <2> QED
    BY <1>5, <2>1
<1>7. k \in Last(rows)
  BY <1>6, NewerIsAnOrder DEF Last
<1> QED
  BY <1>4, <1>7

\* A page holds the newest rows: whatever is newer than a row of the page is in
\* the page too, the page is not empty, and it is all there is when there are
\* no more than `limit` rows.
LEMMA PageIsNewest ==
  ASSUME PagingAssumption, TypeOK, NEW rows, rows \subseteq Id,
         NEW limit \in Nat \ {0}
  PROVE  /\ First(rows, limit) \subseteq rows
         /\ \A i \in First(rows, limit), j \in rows :
              Newer(j, i) => j \in First(rows, limit)
         /\ Cardinality(rows) <= limit => First(rows, limit) = rows
         /\ Cardinality(rows) > limit => First(rows, limit) # {}
<1> DEFINE Before(i) == {j \in rows : Newer(j, i)}
<1>1. IsFiniteSet(rows)
  BY FS_Subset DEF PagingAssumption
<1>2. \A i \in rows : IsFiniteSet(Before(i)) /\ Cardinality(Before(i)) \in Nat
  BY <1>1, FS_Subset, FS_CardinalityType
<1>3. ASSUME NEW i \in First(rows, limit), NEW j \in rows, Newer(j, i)
      PROVE  j \in First(rows, limit)
  <2>1. i \in rows /\ Cardinality(Before(i)) < limit
    BY <1>3 DEF First
  <2>2. Before(j) \subseteq Before(i)
    BY <1>3, <2>1, NewerIsAnOrder
  <2>3. Cardinality(Before(j)) <= Cardinality(Before(i))
    BY <1>2, <2>1, <2>2, FS_Subset
  <2>4. Cardinality(Before(j)) < limit
    BY <1>2, <2>1, <2>3
  <2> QED
    BY <2>4 DEF First
<1>4. ASSUME Cardinality(rows) <= limit, NEW i \in rows
      PROVE  i \in First(rows, limit)
  <2>1. Before(i) \subseteq rows /\ i \notin Before(i)
    BY NewerIsAnOrder
  <2>2. Cardinality(Before(i)) <= Cardinality(rows)
        /\ Cardinality(Before(i)) # Cardinality(rows)
    BY <1>1, <2>1, FS_Subset
  <2>3. Cardinality(Before(i)) < limit
    BY <1>1, <1>2, <1>4, <2>2, FS_CardinalityType
  <2> QED
    BY <2>3 DEF First
<1>5. ASSUME Cardinality(rows) > limit PROVE First(rows, limit) # {}
  <2>1. rows # {}
    BY <1>5, FS_EmptySet
  <2>2. PICK i \in rows : \A j \in rows : ~Newer(j, i)
    BY <2>1, EndsExist
  <2>3. Before(i) = {}
    BY <2>2
  <2>4. Cardinality(Before(i)) < limit
    BY <2>3, FS_EmptySet
  <2> QED
    BY <2>4 DEF First
<1> QED
  BY <1>3, <1>4, <1>5 DEF First

\* The cursor of a page is the row the page ends with: nothing of the page is
\* below it, everything else is, and it is null only at the end.
LEMMA CursorIsExact ==
  ASSUME PagingAssumption, TypeOK, TimesAreExact,
         NEW rows, rows \subseteq Id, NEW limit \in Nat \ {0}
  PROVE  /\ NextCursor(rows, limit) \subseteq Cursor
         /\ \A c \in NextCursor(rows, limit) :
              /\ \A i \in First(rows, limit) : ~Below(i, c)
              /\ \A i \in rows \ First(rows, limit) : Below(i, c)
              /\ \E k \in First(rows, limit) :
                   \A i \in Id : ~Below(i, c) <=> i = k \/ Newer(i, k)
         /\ NextCursor(rows, limit) = {} => First(rows, limit) = rows
<1> DEFINE F == First(rows, limit)
<1>1. F \subseteq rows /\ \A i \in F, j \in rows : Newer(j, i) => j \in F
  BY PageIsNewest
<1>2. ASSUME NEW i \in Id
      PROVE  EncodeCursor(i).createdAtMs \in Nat
             /\ 2 * EncodeCursor(i).createdAtMs = created[i] /\ EncodeCursor(i).id = i
             /\ EncodeCursor(i) \in Cursor
  BY <1>2 DEF TimesAreExact, TypeOK, EncodeCursor, Cursor
<1>3. ASSUME NEW c \in NextCursor(rows, limit)
      PROVE  \E k \in Last(F) : c = EncodeCursor(k)
  BY <1>3 DEF NextCursor
<1>4. ASSUME NEW k \in Id, NEW i \in Id
      PROVE  ~Below(i, EncodeCursor(k)) <=> i = k \/ Newer(i, k)
  BY <1>2, <1>4, Numbers DEF Below, Newer
<1>5. ASSUME NEW c \in NextCursor(rows, limit)
      PROVE  /\ c \in Cursor
             /\ \A i \in F : ~Below(i, c)
             /\ \A i \in rows \ F : Below(i, c)
             /\ \E k \in F : \A i \in Id : ~Below(i, c) <=> i = k \/ Newer(i, k)
  <2>1. PICK k \in Last(F) : c = EncodeCursor(k)
    BY <1>3, <1>5
  <2>2. k \in F /\ k \in Id /\ \A j \in F : j = k \/ Newer(j, k)
    BY <1>1, <2>1 DEF Last
  <2>3. \A i \in Id : ~Below(i, c) <=> i = k \/ Newer(i, k)
    BY <1>4, <2>1, <2>2
  <2>4. \A i \in rows \ F : ~Newer(i, k) /\ i # k
    BY <1>1, <2>2
  <2> QED
    BY <1>1, <1>2, <2>1, <2>2, <2>3, <2>4
<1>6. NextCursor(rows, limit) = {} => F = rows
  <2>1. IsFiniteSet(rows) /\ Cardinality(rows) \in Nat
    BY FS_Subset, FS_CardinalityType DEF PagingAssumption
  <2>2. Cardinality(rows) > limit => Last(F) # {}
    BY <1>1, PageIsNewest, EndsExist
  <2>3. Cardinality(rows) > limit => NextCursor(rows, limit) # {}
    BY <2>2 DEF NextCursor
  <2>4. NextCursor(rows, limit) = {} => Cardinality(rows) <= limit
    BY <2>1, <2>3
  <2> QED
    BY <2>4, PageIsNewest
<1> QED
  BY <1>5, <1>6
\* Nobody has asked for anything yet.
LEMMA InitStep == PagingAssumption /\ Init => IndInv
BY DEF Init, IndInv, TypeOK, PagesDescend, NothingSkipped, TimesAreExact,
   RowsAreWritten, CursorSeparates, PageFollowsCursor, PagingAssumption

\* The clock is in no property.
LEMMA TickStep ==
  ASSUME PagingAssumption, IndInv, Tick
  PROVE  IndInv'
BY DEF Tick, readerVars, IndInv, TypeOK, PagesDescend, NothingSkipped, TimesAreExact,
   RowsAreWritten, CursorSeparates, PageFollowsCursor, PagingAssumption, Newer, Below,
   Matches

\* Writing a row changes no row a reader has to do with.
LEMMA BeginRecordStep ==
  ASSUME PagingAssumption, IndInv, NEW i \in Id, BeginRecord(i)
  PROVE  IndInv'
<1>1. /\ state[i] = "unused" /\ state' = [state EXCEPT ![i] = "writing"]
      /\ created' = [created EXCEPT ![i] = Rounded(clock)]
      /\ UNCHANGED <<clock, kind, phase, query, cursor, page, next, seen, due>>
  BY DEF BeginRecord, readerVars
<1>2. Rounded(clock) \in Nat /\ Rounded(clock) % 2 = 0
  <2>1. clock \in Nat
    BY DEF IndInv, TypeOK, PagingAssumption
  <2> QED
    BY <2>1 DEF Rounded
<1>3. TypeOK'
  BY <1>1, <1>2 DEF IndInv, TypeOK
<1>4. TimesAreExact'
  BY <1>1, <1>2 DEF IndInv, TypeOK, TimesAreExact
<1>5. \A p \in Reader : \A j \in seen[p] \cup page[p] \cup due[p] :
        j \in Id /\ j # i /\ created'[j] = created[j] /\ kind'[j] = kind[j]
        /\ state'[j] = state[j]
  BY <1>1 DEF IndInv, TypeOK, RowsAreWritten
<1>6. RowsAreWritten'
  BY <1>1, <1>5 DEF IndInv, RowsAreWritten, Matches
<1>7. PagesDescend' /\ NothingSkipped'
  BY <1>1, <1>5 DEF IndInv, PagesDescend, NothingSkipped, Newer
<1>8. CursorSeparates'
  BY <1>1, <1>5 DEF IndInv, CursorSeparates, Below
<1>9. PageFollowsCursor'
  BY <1>1, <1>5 DEF IndInv, PageFollowsCursor, Below
<1> QED
  BY <1>3, <1>4, <1>6, <1>7, <1>8, <1>9 DEF IndInv

\* A row that appears was not due, and one that goes is no longer due.
LEMMA RowStep ==
  ASSUME PagingAssumption, IndInv, NEW i \in Id, EndRecord(i) \/ Remove(i)
  PROVE  IndInv'
<1>1. UNCHANGED <<clock, created, kind, phase, query, cursor, page, next, seen>>
  BY DEF EndRecord, Remove, readerVars
<1>2. PICK s \in {"stored", "removed"} :
        state' = [state EXCEPT ![i] = s] /\ (s = "stored" => state[i] = "writing")
  BY DEF EndRecord, Remove
<1>3. /\ DOMAIN due' = Reader
      /\ \A p \in Reader : due'[p] \subseteq due[p]
      /\ \A p \in Reader : state[i] = "stored" => i \notin due'[p]
  BY DEF EndRecord, Remove, readerVars, IndInv, TypeOK
<1>4. TypeOK'
  <2>1. due' \in [Reader -> SUBSET Id]
    BY DEF EndRecord, Remove, readerVars, IndInv, TypeOK
  <2> QED
    BY <1>1, <1>2, <2>1 DEF IndInv, TypeOK
<1>5. TimesAreExact' /\ PagesDescend' /\ NothingSkipped'
  BY <1>1, <1>3 DEF IndInv, TimesAreExact, PagesDescend, NothingSkipped, Newer
<1>6. \A p \in Reader : \A j \in due'[p] :
        j \in Id /\ j # i /\ state'[j] = "stored" /\ Matches(query[p], j)
  <2> SUFFICES ASSUME NEW p \in Reader, NEW j \in due'[p]
      PROVE  j \in Id /\ j # i /\ state'[j] = "stored" /\ Matches(query[p], j)
    OBVIOUS
  <2>1. j \in due[p] /\ j \in Id
    BY <1>3 DEF IndInv, TypeOK
  <2>2. state[j] = "stored" /\ Matches(query[p], j)
    BY <2>1 DEF IndInv, RowsAreWritten
  <2>3. j # i
    BY <1>3, <2>2
  <2> QED
    BY <1>2, <2>1, <2>2, <2>3 DEF IndInv, TypeOK
<1>7. \A p \in Reader : \A j \in seen[p] \cup page[p] : state'[j] \in {"stored", "removed"}
  BY <1>2 DEF IndInv, TypeOK, RowsAreWritten
<1>8. RowsAreWritten'
  BY <1>1, <1>6, <1>7 DEF RowsAreWritten, Matches
<1>9. CursorSeparates'
  <2> SUFFICES ASSUME NEW p \in Reader
      PROVE  /\ phase[p] = "idle" => seen[p] = {} /\ cursor[p] = {} /\ due'[p] = {}
             /\ cursor[p] = {} /\ phase[p] # "done" => seen[p] = {}
             /\ \A c \in cursor[p] : \A j \in seen[p] : ~Below(j, c)
             /\ phase[p] # "done" =>
                  \A j \in due'[p] \ seen[p] : \A c \in cursor[p] : Below(j, c)
    BY <1>1 DEF CursorSeparates, Below
  <2> QED
    BY <1>3 DEF IndInv, CursorSeparates
<1>10. PageFollowsCursor'
  <2> SUFFICES ASSUME NEW p \in Reader, phase[p] = "auditing"
      PROVE  /\ \A j \in page[p], c \in cursor[p] : Below(j, c)
             /\ \A j \in seen[p] \cup page[p], c \in next[p] : ~Below(j, c)
             /\ \A j \in due'[p] \ (seen[p] \cup page[p]) :
                  next[p] # {} /\ \A c \in next[p] : Below(j, c)
    BY <1>1 DEF PageFollowsCursor, Below
  <2> QED
    BY <1>3 DEF IndInv, PageFollowsCursor
<1> QED
  BY <1>4, <1>5, <1>8, <1>9, <1>10 DEF IndInv

\* A reader starts with nothing seen and everything stored due.
LEMMA StartStep ==
  ASSUME PagingAssumption, IndInv, NEW p \in Reader, Start(p)
  PROVE  IndInv'
<1>1. /\ phase[p] = "idle" /\ phase' = [phase EXCEPT ![p] = "asking"]
      /\ due' = [due EXCEPT ![p] = Candidates(query[p], {})]
      /\ UNCHANGED <<clock, state, created, kind, query, cursor, page, next, seen>>
  BY DEF Start, rowVars
<1>2. Candidates(query[p], {}) \subseteq Id
      /\ \A i \in Candidates(query[p], {}) : state[i] = "stored" /\ Matches(query[p], i)
  BY DEF Candidates
<1>3. TypeOK'
  BY <1>1, <1>2 DEF IndInv, TypeOK
<1>4. TimesAreExact' /\ PagesDescend' /\ NothingSkipped'
  BY <1>1 DEF IndInv, TypeOK, TimesAreExact, PagesDescend, NothingSkipped, Newer
<1>5. RowsAreWritten'
  BY <1>1, <1>2 DEF IndInv, TypeOK, RowsAreWritten, Matches
<1>6. CursorSeparates'
  BY <1>1 DEF IndInv, TypeOK, CursorSeparates, Below
<1>7. PageFollowsCursor'
  BY <1>1 DEF IndInv, TypeOK, PageFollowsCursor, Below
<1> QED
  BY <1>3, <1>4, <1>5, <1>6, <1>7 DEF IndInv

\* One query: the page goes on where the pages before it ended, and its cursor
\* stands between it and what is still due.
LEMMA ListStep ==
  ASSUME PagingAssumption, IndInv, NEW p \in Reader, List(p)
  PROVE  IndInv'
<1> DEFINE rows == Candidates(query[p], cursor[p])
<1>1. PICK limit \in Limits :
        /\ phase[p] = "asking" /\ phase' = [phase EXCEPT ![p] = "auditing"]
        /\ page' = [page EXCEPT ![p] = First(rows, limit)]
        /\ next' = [next EXCEPT ![p] = NextCursor(rows, limit)]
        /\ UNCHANGED <<clock, state, created, kind, query, cursor, seen, due>>
  BY DEF List, rowVars
<1>2. limit \in Nat \ {0} /\ TypeOK /\ TimesAreExact
  BY DEF PagingAssumption, IndInv
<1>3. /\ rows \subseteq Id
      /\ \A i \in rows : state[i] = "stored" /\ \A c \in cursor[p] : Below(i, c)
      /\ \A i \in Id : state[i] = "stored" /\ Matches(query[p], i)
                        /\ (\A c \in cursor[p] : Below(i, c)) => i \in rows
  BY DEF Candidates
<1>4. \A i \in due[p] \ seen[p] : i \in rows
  BY <1>1, <1>3 DEF IndInv, TypeOK, CursorSeparates, RowsAreWritten
<1>5. \A i \in rows, j \in seen[p] : Newer(j, i)
  <2> SUFFICES ASSUME NEW i \in rows, NEW j \in seen[p] PROVE Newer(j, i)
    OBVIOUS
  <2>1. PICK c \in cursor[p] : ~Below(j, c)
    BY <1>1 DEF IndInv, CursorSeparates
  <2>2. Below(i, c) /\ i \in Id /\ j \in Id /\ c \in Cursor
    BY <1>2, <1>3, <2>1 DEF TypeOK
  <2>3. c.createdAtMs \in Nat /\ c.id \in Nat /\ i \in Nat /\ j \in Nat
        /\ created[i] \in Nat /\ created[j] \in Nat
    BY <1>2, <2>2, Numbers DEF Cursor
  <2> QED
    BY <2>1, <2>2, <2>3 DEF Below, Newer
<1> DEFINE F == First(rows, limit)
           N == NextCursor(rows, limit)
<1>6. /\ F \subseteq rows /\ N \subseteq Cursor
      /\ \A c \in N : /\ \A i \in F : ~Below(i, c)
                      /\ \A i \in rows \ F : Below(i, c)
                      /\ \E k \in F : \A i \in Id : ~Below(i, c) <=> i = k \/ Newer(i, k)
      /\ N = {} => F = rows
  <2> HIDE DEF rows
  <2> QED
    BY <1>2, <1>3, CursorIsExact, PageIsNewest
<1>7. \A c \in N : \A j \in seen[p] : ~Below(j, c)
  <2> SUFFICES ASSUME NEW c \in N, NEW j \in seen[p] PROVE ~Below(j, c)
    OBVIOUS
  <2>1. PICK k \in F : \A i \in Id : ~Below(i, c) <=> i = k \/ Newer(i, k)
    BY <1>6
  <2>2. Newer(j, k) /\ j \in Id
    BY <1>2, <1>5, <1>6, <2>1 DEF TypeOK
  <2> QED
    BY <2>1, <2>2
<1> HIDE DEF rows, F, N
<1>8. page' = [page EXCEPT ![p] = F] /\ next' = [next EXCEPT ![p] = N]
  BY <1>1 DEF rows, F, N
<1>9. TypeOK'
  BY <1>1, <1>2, <1>3, <1>6, <1>8 DEF TypeOK
<1>10. TimesAreExact' /\ NothingSkipped'
  BY <1>1, <1>2 DEF IndInv, TypeOK, TimesAreExact, NothingSkipped
<1>11. PagesDescend'
  BY <1>1, <1>2, <1>5, <1>6, <1>8 DEF IndInv, TypeOK, PagesDescend, Newer
<1>12. RowsAreWritten'
  BY <1>1, <1>2, <1>3, <1>6, <1>8 DEF IndInv, TypeOK, RowsAreWritten, Matches
<1>13. CursorSeparates'
  BY <1>1, <1>2 DEF IndInv, TypeOK, CursorSeparates, Below
<1>14. PageFollowsCursor'
  BY <1>1, <1>2, <1>3, <1>4, <1>6, <1>7, <1>8
  DEF IndInv, TypeOK, PageFollowsCursor, Below
<1> QED
  BY <1>9, <1>10, <1>11, <1>12, <1>13, <1>14 DEF IndInv

\* An answer moves the page to what was seen and its cursor to the reader.
LEMMA AnswerStep ==
  ASSUME PagingAssumption, IndInv, NEW p \in Reader, Answer(p)
  PROVE  IndInv'
<1>1. /\ phase[p] = "auditing"
      /\ phase' = [phase EXCEPT ![p] = IF next[p] = {} THEN "done" ELSE "asking"]
      /\ seen' = [seen EXCEPT ![p] = @ \cup page[p]]
      /\ cursor' = [cursor EXCEPT ![p] = next[p]]
      /\ page' = [page EXCEPT ![p] = {}] /\ next' = [next EXCEPT ![p] = {}]
      /\ UNCHANGED <<clock, state, created, kind, query, due>>
  BY DEF Answer, rowVars
<1>2. TypeOK'
  BY <1>1 DEF IndInv, TypeOK
<1>3. TimesAreExact' /\ PagesDescend'
  BY <1>1 DEF IndInv, TypeOK, TimesAreExact, PagesDescend, Newer
<1>4. NothingSkipped'
  <2>1. next[p] = {} => due[p] \subseteq seen[p] \cup page[p]
    BY <1>1 DEF IndInv, PageFollowsCursor
  <2> QED
    BY <1>1, <2>1 DEF IndInv, TypeOK, NothingSkipped
<1>5. RowsAreWritten'
  BY <1>1 DEF IndInv, TypeOK, RowsAreWritten, Matches
<1>6. CursorSeparates'
  BY <1>1 DEF IndInv, TypeOK, CursorSeparates, PageFollowsCursor, Below
<1>7. PageFollowsCursor'
  BY <1>1 DEF IndInv, TypeOK, PageFollowsCursor, Below
<1> QED
  BY <1>2, <1>3, <1>4, <1>5, <1>6, <1>7 DEF IndInv

\* A lost answer leaves the reader where it was.
LEMMA AnswerLostStep ==
  ASSUME PagingAssumption, IndInv, NEW p \in Reader, AnswerLost(p)
  PROVE  IndInv'
<1>1. /\ phase[p] = "auditing" /\ phase' = [phase EXCEPT ![p] = "asking"]
      /\ page' = [page EXCEPT ![p] = {}] /\ next' = [next EXCEPT ![p] = {}]
      /\ UNCHANGED <<clock, state, created, kind, query, cursor, seen, due>>
  BY DEF AnswerLost, rowVars
<1>2. TypeOK'
  BY <1>1 DEF IndInv, TypeOK
<1>3. TimesAreExact' /\ PagesDescend' /\ NothingSkipped'
  BY <1>1 DEF IndInv, TypeOK, TimesAreExact, PagesDescend, NothingSkipped, Newer
<1>4. RowsAreWritten'
  BY <1>1 DEF IndInv, TypeOK, RowsAreWritten, Matches
<1>5. CursorSeparates' /\ PageFollowsCursor'
  BY <1>1 DEF IndInv, TypeOK, CursorSeparates, PageFollowsCursor, Below
<1> QED
  BY <1>2, <1>3, <1>4, <1>5 DEF IndInv

\* IndInv holds in every reachable state of writers and readers.
THEOREM Invariance == Spec => []IndInv
<1>1. Init => IndInv
  BY InitStep, PagingAssumption
<1>2. IndInv /\ [Next]_vars => IndInv'
  <2> SUFFICES ASSUME IndInv, [Next]_vars PROVE IndInv'
    OBVIOUS
  <2>1. CASE Tick
    BY <2>1, TickStep, PagingAssumption
  <2>2. ASSUME NEW i \in Id, BeginRecord(i) PROVE IndInv'
    BY <2>2, BeginRecordStep, PagingAssumption
  <2>3. ASSUME NEW i \in Id, EndRecord(i) \/ Remove(i) PROVE IndInv'
    BY <2>3, RowStep, PagingAssumption
  <2>4. ASSUME NEW p \in Reader, Start(p) PROVE IndInv'
    BY <2>4, StartStep, PagingAssumption
  <2>5. ASSUME NEW p \in Reader, List(p) PROVE IndInv'
    BY <2>5, ListStep, PagingAssumption
  <2>6. ASSUME NEW p \in Reader, Answer(p) PROVE IndInv'
    BY <2>6, AnswerStep, PagingAssumption
  <2>7. ASSUME NEW p \in Reader, AnswerLost(p) PROVE IndInv'
    BY <2>7, AnswerLostStep, PagingAssumption
  <2>8. CASE UNCHANGED vars
    BY <2>8 DEF vars, rowVars, readerVars, IndInv, TypeOK, PagesDescend, NothingSkipped,
                TimesAreExact, RowsAreWritten, CursorSeparates, PageFollowsCursor,
                Newer, Below, Matches
  <2> QED
    BY <2>1, <2>2, <2>3, <2>4, <2>5, <2>6, <2>7, <2>8 DEF Next
<1> QED
  BY <1>1, <1>2, PTL DEF Spec

\* Every variable keeps its type.
THEOREM TypeCorrect == Spec => []TypeOK
BY Invariance, PTL DEF IndInv

\* A page never brings a row twice, nor one newer than a row already given.
THEOREM NoRowComesTwice == Spec => []PagesDescend
BY Invariance, PTL DEF IndInv

\* A reader at the end was given every row that stayed while it read.
THEOREM NoRowIsSkipped == Spec => []NothingSkipped
BY Invariance, PTL DEF IndInv
=============================================================================
