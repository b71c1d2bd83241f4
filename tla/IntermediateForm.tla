-------------------------- MODULE IntermediateForm --------------------------
(***************************************************************************)
(* modules/convert/ir and codecs: what a text document is between its      *)
(* parser and its serializer.                                              *)
(*                                                                         *)
(* A JSON-like value is a tree: a scalar, a list of items, or a map whose  *)
(* entries stand in the order Object.entries gives them.  A key, and the   *)
(* header of a CSV column, is the sequence of its parts between dots, so   *)
(* that <<"a", "b">> is both the key "a.b" and the path of b under a.      *)
(* Records are headers and one function per row.                           *)
(***************************************************************************)
EXTENDS Naturals, Sequences, FiniteSets, SequencesExt

CONSTANTS
  MaxNesting,     \* bound: how deep the values nest that are looked at
  IndexParts,     \* the indices "0", "1", ...; bound: a list has no more items than these
  AttributeParts, \* the parts that begin with "@_"
  Replaced,       \* what replace(/[^\w.-]+/g, '_') makes of the parts it changes
  Prefixed        \* what the underscore makes of parts that do not begin like a name

NoText == ""
Underscore == "_"

Pollution == {"__proto__", "prototype", "constructor"}

\* What every object of the language answers to without having it.
InheritedNames == {"toString", "toLocaleString", "valueOf", "hasOwnProperty", "isPrototypeOf",
                   "propertyIsEnumerable", "__defineGetter__", "__defineSetter__",
                   "__lookupGetter__", "__lookupSetter__"}

\* Names of the code.
KnownParts == Pollution \cup InheritedNames
                \cup {NoText, Underscore, "#text", "root", "item", "value"}

\* No index is a name the code knows, and no name is made to be an attribute
\* or the text of an element.
ASSUME FormAssumption ==
  /\ MaxNesting \in Nat /\ MaxNesting > 1
  /\ IndexParts \in Seq(STRING) /\ IsInjective(IndexParts)
  /\ ToSet(IndexParts) \cap KnownParts = {}
  /\ KnownParts \subseteq STRING
  /\ AttributeParts \subseteq STRING
  /\ AttributeParts \cap (KnownParts \cup ToSet(IndexParts)) = {}
  /\ DOMAIN Replaced \subseteq STRING /\ Replaced \in [DOMAIN Replaced -> STRING]
  /\ DOMAIN Prefixed \subseteq STRING /\ Prefixed \in [DOMAIN Prefixed -> STRING]
  /\ "#text" \in DOMAIN Replaced
  /\ {"root", "item"} \cap (DOMAIN Replaced \cup DOMAIN Prefixed) = {}
  /\ ({"#text"} \cup AttributeParts) \cap (Range(Replaced) \cup Range(Prefixed)) = {}

Scalar(s)    == [t |-> "scalar", v |-> s]
List(xs)     == [t |-> "list", items |-> xs]
EntriesOf(o) == [t |-> "map", ents |-> o]

Key == Seq(STRING) \ {<<>>}

Keys(assigned) == [i \in DOMAIN assigned |-> assigned[i].key]

\* An object has each of its keys once.
Objects(V) == {o \in Seq([key : Key, val : V]) : IsInjective(Keys(o))}
Lists(V)   == {xs \in Seq(V) : Len(xs) <= Len(IndexParts)}

\* The values in which nothing is nested deeper than n.
ValuesUpTo[n \in Nat] ==
  [t : {"scalar"}, v : STRING] \cup
  IF n = 0 THEN {}
  ELSE [t : {"list"}, items : Lists(ValuesUpTo[n - 1])]
         \cup [t : {"map"}, ents : Objects(ValuesUpTo[n - 1])]

Value == ValuesUpTo[MaxNesting]

\* What a file holds: XML output adds two levels to it.
Document == ValuesUpTo[MaxNesting - 2]

IsScalar(v) == v.t = "scalar"
IndexKey(i) == <<IndexParts[i]>>

\* What is right below a value, and the key or index that leads there.
Arity(v) == IF v.t = "list" THEN Len(v.items) ELSE IF v.t = "map" THEN Len(v.ents) ELSE 0
StepTo(v, i) == IF v.t = "list" THEN IndexKey(i) ELSE v.ents[i].key
Child(v, i) == IF v.t = "list" THEN v.items[i] ELSE v.ents[i].val
Kids(v) == {[step |-> StepTo(v, i), val |-> Child(v, i)] : i \in 1..Arity(v)}

PollutionKeys == {<<part>> : part \in Pollution}

\* The keys that XML has a place for inside the tag or between the tags.
TextKey == <<"#text">>
IsInline(key) == key = TextKey \/ key[1] \in AttributeParts

-----------------------------------------------------------------------------
(* Objects of the language: assigning to a key twice keeps its place and   *)
(* its last value, and keys that look like indices come first.             *)

\* The members of a sequence at these positions.
Sift(s, I) == FlattenSeq([i \in DOMAIN s |-> IF i \in I THEN <<s[i]>> ELSE <<>>])

IndexKeys == [i \in DOMAIN IndexParts |-> IndexKey(i)]

KeyOrder(keys) ==
  Sift(IndexKeys, {i \in DOMAIN IndexKeys : IndexKeys[i] \in ToSet(keys)})
    \o Sift(keys, {i \in DOMAIN keys : keys[i] \notin ToSet(IndexKeys)})

Distinct(keys) == Sift(keys, {i \in DOMAIN keys : \A j \in 1..(i - 1) : keys[j] # keys[i]})

LastValue(assigned, k) ==
  assigned[Max({i \in DOMAIN assigned : assigned[i].key = k})].val

JsObject(assigned) ==
  LET keys == KeyOrder(Distinct(Keys(assigned))) IN
  [i \in DOMAIN keys |-> [key |-> keys[i], val |-> LastValue(assigned, keys[i])]]

-----------------------------------------------------------------------------
(* sanitizeJsonValue: the nodes and keys it visits, in order, the first    *)
(* visit that breaks a limit, and the value it builds.                     *)

Under(step, vs) == [j \in DOMAIN vs |-> [vs[j] EXCEPT !.at = <<step>> \o @]]

\* The depth of a visit is the length of the way to it.
Visits[v \in Value] ==
  <<[what |-> "node", at |-> <<>>]>> \o
  FlattenSeq([i \in 1..Arity(v) |->
    IF StepTo(v, i) \in PollutionKeys THEN <<>>
    ELSE (IF v.t = "map" THEN <<[what |-> "key", at |-> <<StepTo(v, i)>>]>> ELSE <<>>)
           \o Under(StepTo(v, i), Visits[Child(v, i)])])

\* How many of the first n visits are visits of this kind.
Count(vs, n, what) == Cardinality({j \in 1..n : vs[j].what = what})

TooDeep(visit, limits) == visit.what = "node" /\ Len(visit.at) > limits.depth

\* Fault: a count may go one past its limit.
RefusalLate(vs, i, limits) ==
  CASE TooDeep(vs[i], limits) -> "LIMIT_DEPTH"
    [] vs[i].what = "node" /\ Count(vs, i, "node") > limits.nodes + 1 -> "LIMIT_NODES"
    [] vs[i].what = "key" /\ Count(vs, i, "key") > limits.keys + 1 -> "LIMIT_KEYS"
    [] OTHER -> "OK"

Refusal(vs, i, limits) ==
  CASE TooDeep(vs[i], limits) -> "LIMIT_DEPTH"
    [] vs[i].what = "node" /\ Count(vs, i, "node") > limits.nodes -> "LIMIT_NODES"
    [] vs[i].what = "key" /\ Count(vs, i, "key") > limits.keys -> "LIMIT_KEYS"
    [] OTHER -> "OK"

FirstRefusal(vs, limits) ==
  LET bad == {i \in DOMAIN vs : Refusal(vs, i, limits) # "OK"} IN
  IF bad = {} THEN "OK"
  ELSE Refusal(vs, CHOOSE i \in bad : \A j \in bad : i <= j, limits)

SanitizeError(v, limits) == FirstRefusal(Visits[v], limits)

Pruned[v \in Value] ==
  IF v.t = "list" THEN List([i \in 1..Arity(v) |-> Pruned[Child(v, i)]])
  ELSE IF v.t = "map"
  THEN EntriesOf(FlattenSeq([i \in 1..Arity(v) |->
         IF StepTo(v, i) \in PollutionKeys THEN <<>>
         ELSE <<[key |-> StepTo(v, i), val |-> Pruned[Child(v, i)]]>>]))
  ELSE v

\* The nesting of the elements of an XML document, which its parser limits.
NestedTags[v \in Value] ==
  LET Deepest(vals) == IF vals = {} THEN 0
                       ELSE CHOOSE n \in vals : \A m \in vals : m <= n IN
  CASE v.t = "scalar" -> 0
    [] v.t = "list" -> Deepest({NestedTags[v.items[i]] : i \in DOMAIN v.items})
    [] v.t = "map" ->
         Deepest({IF IsInline(v.ents[i].key) THEN 0
                  ELSE 1 + NestedTags[v.ents[i].val] : i \in DOMAIN v.ents})

-----------------------------------------------------------------------------
(* CSV.  A table is its header line and its data lines.                    *)

Blank(key) == key \in {<<NoText>>, <<" ">>}

\* relax_column_count is off; blank and repeated headers are refused.
CsvError(table, limits) ==
  CASE \E i \in DOMAIN table.lines : Len(table.lines[i]) # Len(table.header)
         -> "INVALID_SYNTAX"
    [] \E i \in DOMAIN table.header : Blank(table.header[i]) -> "INVALID_SYNTAX"
    [] ~IsInjective(table.header) -> "INVALID_SYNTAX"
    [] Len(table.lines) > limits.rows -> "LIMIT_ROWS"
    [] OTHER -> "OK"

CsvRecords(table) ==
  [headers |-> table.header,
   rows |-> [i \in DOMAIN table.lines |->
     [h \in ToSet(table.header) |->
        table.lines[i][CHOOSE c \in DOMAIN table.header : table.header[c] = h]]]]

\* stringify: the columns in the order of the headers.
CsvTable(records) ==
  [t |-> "table", header |-> records.headers,
   lines |-> [i \in DOMAIN records.rows |->
     [c \in DOMAIN records.headers |-> records.rows[i][records.headers[c]]]]]

-----------------------------------------------------------------------------
(* adapters.ts.                                                            *)

\* Fault: an empty cell is left out of its object.
RecordsToSparseValue(records) ==
  LET Object(row) == EntriesOf(JsObject(SelectSeq(
        [c \in DOMAIN records.headers |->
           [key |-> records.headers[c], val |-> Scalar(row[records.headers[c]])]],
        LAMBDA a : a.val.v # NoText))) IN
  List([i \in DOMAIN records.rows |-> Object(records.rows[i])])

\* Assigning a string to the key __proto__ of an object does nothing.
RecordsToValue(records) ==
  LET headers == Sift(records.headers, {c \in DOMAIN records.headers :
                                          records.headers[c] # <<"__proto__">>})
      Object(row) == EntriesOf(JsObject(
        [c \in DOMAIN headers |-> [key |-> headers[c], val |-> Scalar(row[headers[c]])]])) IN
  List([i \in DOMAIN records.rows |-> Object(records.rows[i])])

ScalarToCell(v) == IF v.v = "null" THEN NoText ELSE v.v

\* The empty prefix is falsy, whether it is no key or the empty key.
Falsy(prefix) == prefix \in {<<>>, <<NoText>>}
Join(prefix, key) == IF Falsy(prefix) THEN key ELSE prefix \o key

\* Fault: an empty container writes no cell.
EmptyCellSkipped(prefix) == <<>>

EmptyCell(prefix) == IF Falsy(prefix) THEN <<>> ELSE <<[key |-> prefix, val |-> NoText]>>

\* flattenToRow, as the assignments it makes to the row.
FlattenToRow[v \in Value] ==
  [prefix \in Seq(STRING) |->
     IF IsScalar(v)
     THEN <<[key |-> IF Falsy(prefix) THEN <<"value">> ELSE prefix, val |-> ScalarToCell(v)]>>
     ELSE IF Arity(v) = 0 THEN EmptyCell(prefix)
     ELSE FlattenSeq([i \in 1..Arity(v) |->
            FlattenToRow[Child(v, i)][Join(prefix, StepTo(v, i))]])]

UnionHeaders(rows) == Distinct(FlattenSeq([i \in DOMAIN rows |-> Keys(rows[i])]))

InheritedKeys == {<<name>> : name \in InheritedNames}

\* row[header] ?? '': a column that the row lacks, but every object has, holds a
\* function, which is no cell of the row.
CompleteRow(row, headers) ==
  [h \in ToSet(headers) \ (InheritedKeys \ ToSet(Keys(row))) |->
     IF h \in ToSet(Keys(row)) THEN LastValue(row, h) ELSE NoText]

HasAllCells(records) ==
  \A i \in DOMAIN records.rows : DOMAIN records.rows[i] = ToSet(records.headers)

\* The items of the document that become rows.
Items(v) == IF v.t = "list" THEN v.items ELSE <<v>>

\* Records without a header stand for CONVERSION_AMBIGUOUS.  A list of scalars
\* needs no case of its own: a scalar at the top is a cell of column `value`.
ValueToRecords(v) ==
  IF IsScalar(v) \/ Items(v) = <<>> THEN [headers |-> <<>>, rows |-> <<>>]
  ELSE LET rows    == [i \in DOMAIN Items(v) |->
                         JsObject(FlattenToRow[Items(v)[i]][<<>>])]
           headers == UnionHeaders(rows) IN
       [headers |-> headers,
        rows |-> [i \in DOMAIN rows |-> CompleteRow(rows[i], headers)]]

-----------------------------------------------------------------------------
(* XML output: every key is made a name, then XMLBuilder writes elements.  *)

SafePart(part) == IF part \in DOMAIN Replaced THEN Replaced[part] ELSE part

Begun(part) ==
  IF part = NoText THEN Underscore
  ELSE IF part \in DOMAIN Prefixed THEN Prefixed[part] ELSE part

\* A dot is never replaced, so that the parts of a key stay apart.
ToXmlName(key) ==
  IF IsInline(key) THEN key
  ELSE [i \in DOMAIN key |-> IF i = 1 THEN Begun(SafePart(key[1])) ELSE SafePart(key[i])]

\* null becomes the empty text.
PrepareXmlNode[v \in Value] ==
  IF v.t = "list" THEN List([i \in 1..Arity(v) |-> PrepareXmlNode[Child(v, i)]])
  ELSE IF v.t = "map"
  THEN EntriesOf(JsObject([i \in 1..Arity(v) |->
         [key |-> ToXmlName(StepTo(v, i)), val |-> PrepareXmlNode[Child(v, i)]]]))
  ELSE Scalar(ScalarToCell(v))

\* toXmlDocument: the list of the root element's items is named `item`.
ToXmlDocument(v) ==
  LET root == IF v.t = "list" THEN EntriesOf(<<[key |-> <<"item">>, val |-> PrepareXmlNode[v]]>>)
              ELSE PrepareXmlNode[v] IN
  EntriesOf(<<[key |-> <<"root">>, val |-> root]>>)

\* The output is the set of its elements, each with the way to it, by the tags
\* and which one it is of the siblings with its tag, and the text right below it.
\* An attribute is an element with the tag "@_..."; that of the value true has
\* its name only.  The element with no way to it is the document itself.
XmlElement == [at : Seq([tag : Key, nth : Nat]), text : STRING]

Behind(step, elements) == {[e EXCEPT !.at = <<step>> \o @] : e \in elements}

\* The items of a list repeat the tag of its key: none without any.  Those of a
\* list that is an item itself have tags of their own, their indices.
Repeated(v) == IF v.t = "list" THEN v.items ELSE <<v>>

TextOf(v) ==
  IF IsScalar(v) THEN v.v
  ELSE IF \E kid \in Kids(v) : kid.step = TextKey
  THEN (CHOOSE kid \in Kids(v) : kid.step = TextKey).val.v ELSE NoText

Tagged(v) ==
  UNION {{[step |-> [tag |-> kid.step, nth |-> j], val |-> Repeated(kid.val)[j]]
          : j \in DOMAIN Repeated(kid.val)}
         : kid \in {k \in Kids(v) : k.step # TextKey}}

XmlElements[v \in Value] ==
  {[at |-> <<>>, text |-> TextOf(v)]}
    \cup UNION {Behind(below.step, XmlElements[below.val]) : below \in Tagged(v)}

-----------------------------------------------------------------------------
(* Reference definitions, by positions in the tree.                        *)

\* A node: the keys on the way to it, whether the last one is a key of a map,
\* and what it is.
Root(v) == [at |-> <<>>, key |-> FALSE, t |-> v.t, v |-> IF IsScalar(v) THEN v.v ELSE NoText]

Lifted(v, step, n) ==
  [n EXCEPT !.at = <<step>> \o @, !.key = IF n.at = <<>> THEN v.t = "map" ELSE @]

Nodes[v \in Value] ==
  {Root(v)} \cup UNION {{Lifted(v, kid.step, n) : n \in Nodes[kid.val]} : kid \in Kids(v)}

\* The nodes that no dropped key leads to, and those with nothing below them.
Reachable(v) == {n \in Nodes[v] : \A i \in DOMAIN n.at : n.at[i] \notin PollutionKeys}

Leaves(v) ==
  LET nodes == Reachable(v) IN
  {n \in nodes : \A m \in nodes : ~IsStrictPrefix(n.at, m.at)}

Cell(n) == IF n.t = "scalar" THEN ScalarToCell(n) ELSE NoText

\* The nodes that are values of keys, by their keys.
LastKey(n) == n.at[Len(n.at)]
Keyed(v) == {n \in Nodes[v] : n.key}

\* A value that XMLBuilder throws at or writes as no XML of the document: a list
\* or map where only a text can be, or a key whose name is __proto__.
IsOdd(v) ==
  \E n \in Keyed(v) :
    \/ IsInline(LastKey(n)) /\ n.t # "scalar"
    \/ ToXmlName(LastKey(n)) = <<"__proto__">>

\* Whether the keys of each map can be told apart by their names.
HasDistinctNames(v) ==
  \A m, n \in Keyed(v) :
    Front(m.at) = Front(n.at) /\ ToXmlName(LastKey(m)) = ToXmlName(LastKey(n)) => m.at = n.at

\* What an XML document must hold to show a value: the text of a scalar; below
\* a key, an element for each item of a list, in their order, or one for
\* anything else; and nothing else.  So an empty list is not shown at all, and
\* the items of a list right below a list have indices for tags.
ShownKids(v) == {kid \in Kids(v) : kid.step \notin PollutionKeys}

ShownTexts(v) ==
  IF IsScalar(v) THEN {v} ELSE {kid.val : kid \in {k \in ShownKids(v) : k.step = TextKey}}

ShownBelow(v) ==
  LET Tag(kid)   == IF v.t = "map" THEN ToXmlName(kid.step) ELSE kid.step
      Shown(kid) == IF kid.val.t = "list" THEN kid.val.items ELSE <<kid.val>> IN
  UNION {{[step |-> [tag |-> Tag(kid), nth |-> j], val |-> Shown(kid)[j]] : j \in DOMAIN Shown(kid)}
         : kid \in {k \in ShownKids(v) : k.step # TextKey}}

InElement(elements, step) ==
  {[e EXCEPT !.at = Tail(@)] : e \in {e \in elements : e.at # <<>> /\ e.at[1] = step}}

Shows[v \in Value] ==
  [elements \in SUBSET XmlElement |->
     /\ {e.text : e \in {e \in elements : e.at = <<>>}}
          = (IF ShownTexts(v) = {} THEN {NoText} ELSE {ScalarToCell(t) : t \in ShownTexts(v)})
     /\ \A below \in ShownBelow(v) : Shows[below.val][InElement(elements, below.step)]
     /\ \A e \in elements : e.at # <<>> => \E below \in ShownBelow(v) : e.at[1] = below.step]
=============================================================================
