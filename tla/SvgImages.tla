------------------------------ MODULE SvgImages -----------------------------
(***************************************************************************)
(* modules/convert/images: what an SVG is reduced to before it is drawn,   *)
(* and the size it is drawn at.                                            *)
(*                                                                         *)
(* A parsed SVG is a sequence of nodes: elements [ns, local, attrs, kids], *)
(* texts and comments.  An attribute is [ns, name, ref, n, says]: ns and   *)
(* name make its name, ref is the kind of reference its text is, n holds   *)
(* the numbers the size is read from, in half pixels, <<>> without any.    *)
(* Of other texts it only matters which patterns of the code they match    *)
(* (says), whether the parser makes a number or a truth value of them      *)
(* (literal), and which nodes a text is read as once it is written without *)
(* escapes (live): those of the markup in a CDATA section, <<>> otherwise. *)
(* There a tag that is closed in itself and has no attributes is local     *)
(* with its slash, as in `script/`: the tests on the text do not see it.   *)
(***************************************************************************)
EXTENDS Naturals, Sequences, FiniteSets, SequencesExt

CONSTANT MaxSvgNesting  \* bound: how deep the elements nest that are looked at

ASSUME SvgAssumption == MaxSvgNesting \in Nat

Patterns == {"javascript:", "<svg", "<script"}

Attribute == [ns : STRING, name : STRING, ref : STRING, n : Seq(Nat), says : SUBSET Patterns]

\* The nodes in which nothing is nested deeper than n.
NodesUpTo[n \in Nat] ==
  LET Lower == IF n = 0 THEN {<<>>} ELSE Seq(NodesUpTo[n - 1]) IN
  [t : {"text"}, literal : BOOLEAN, says : SUBSET Patterns, live : Lower] \cup
  [t : {"comment"}, says : SUBSET Patterns] \cup
  [t : {"element"}, ns : STRING, local : STRING, attrs : Seq(Attribute), kids : Lower]

Node == NodesUpTo[MaxSvgNesting]

DroppedElements == {"script", "foreignobject", "iframe", "embed", "object",
                    "handler", "animate", "animatetransform", "animatemotion", "set"}

IsElement(node) == node.t = "element"
IsTextNode(node) == node.t = "text"

-----------------------------------------------------------------------------
(* sanitizeSvg.                                                            *)

IsHandler(a) == a.name \in {"onclick", "onload"}
IsUrlAttribute(a) == a.name \in {"href", "src"}
IsAllowedReference(a) == a.ref \in {"", "#id", "data:image/png"}

\* Fault: only references are filtered.
KeepHandlers(a) == IsUrlAttribute(a) => IsAllowedReference(a)

KeepAttribute(a) == ~IsHandler(a) /\ (IsUrlAttribute(a) => IsAllowedReference(a))

KeptAttributes(attrs) ==
  FlattenSeq([i \in DOMAIN attrs |->
    IF KeepAttribute(attrs[i]) THEN <<attrs[i]>> ELSE <<>>])

HasAllowedReference(attrs) ==
  \E i \in DOMAIN attrs : IsUrlAttribute(attrs[i]) /\ IsAllowedReference(attrs[i])

LacksReference(node) ==
  node.local \in {"image", "use"} /\ ~HasAllowedReference(KeptAttributes(node.attrs))

\* A text that was made a number or a truth value is none.
IsDropped(node) ==
  CASE IsTextNode(node) -> node.literal \/ "javascript:" \in node.says
    [] IsElement(node) -> node.local \in DroppedElements \/ LacksReference(node)
    [] OTHER -> TRUE

WithParts(node, attrs, kids) == [node EXCEPT !.attrs = attrs, !.kids = kids]

\* cleanNode: the node, cleaned, or nothing.
CleanNode[node \in Node] ==
  IF IsDropped(node) THEN <<>>
  ELSE IF ~IsElement(node) THEN <<node>>
  ELSE <<WithParts(node, KeptAttributes(node.attrs),
                   FlattenSeq([i \in DOMAIN node.kids |-> CleanNode[node.kids[i]]]))>>

CleanAll(nodes) == FlattenSeq([i \in DOMAIN nodes |-> CleanNode[nodes[i]]])

\* state.dropped, which a text that is no string leaves alone.
NotesDrop[node \in Node] ==
  \/ IsTextNode(node) /\ ~node.literal /\ "javascript:" \in node.says
  \/ node.t = "comment"
  \/ /\ IsElement(node)
     /\ \/ node.local \in DroppedElements \/ LacksReference(node)
        \/ \E i \in DOMAIN node.attrs : ~KeepAttribute(node.attrs[i])
        \/ \E i \in DOMAIN node.kids : NotesDrop[node.kids[i]]

HasSvgRoot(nodes) ==
  \E i \in DOMAIN nodes : IsElement(nodes[i]) /\ nodes[i].local = "svg"

\* An XML declaration counts, like every element that is no <svg>.
HasDrawable[nodes \in Seq(Node)] ==
  \E i \in DOMAIN nodes :
    /\ IsElement(nodes[i])
    /\ nodes[i].local = "svg" => HasDrawable[nodes[i].kids]

\* The builder writes a text as it is, so that what stood in a CDATA section is
\* markup now; nobody has cleaned it.
RebuildNode[node \in Node] ==
  IF IsTextNode(node) /\ node.live # <<>> THEN node.live
  ELSE IF ~IsElement(node) THEN <<node>>
  ELSE <<WithParts(node, node.attrs,
                   FlattenSeq([i \in DOMAIN node.kids |-> RebuildNode[node.kids[i]]]))>>

Rebuilt(nodes) == FlattenSeq([i \in DOMAIN nodes |-> RebuildNode[nodes[i]]])

\* All the nodes of a tree, in the order of the text.
Flat[nodes \in Seq(Node)] ==
  FlattenSeq([i \in DOMAIN nodes |->
    <<nodes[i]>> \o (IF IsElement(nodes[i]) THEN Flat[nodes[i].kids] ELSE <<>>)])

\* The patterns that a node matches, and those that a tree does.
Says(node) ==
  IF IsElement(node) THEN UNION {node.attrs[i].says : i \in DOMAIN node.attrs} ELSE node.says

Matched(nodes) == UNION {Says(node) : node \in ToSet(Flat[nodes])}

HasTag(nodes, local) ==
  \E node \in ToSet(Flat[nodes]) : IsElement(node) /\ node.ns = "" /\ node.local = local

\* The tests on the rebuilt text: `joined` are the patterns it matches across
\* the borders of its nodes.
RebuiltIsSafe(nodes, joined) ==
  LET matched == joined \cup Matched(nodes) IN
  /\ "<svg" \in matched \/ HasTag(nodes, "svg")
  /\ ~("<script" \in matched \/ HasTag(nodes, "script"))
  /\ "javascript:" \notin matched

SvgError(svg) ==
  LET cleaned == CleanAll(svg.nodes) IN
  IF /\ HasSvgRoot(cleaned)
     /\ (\E i \in DOMAIN svg.nodes : NotesDrop[svg.nodes[i]]) => HasDrawable[cleaned]
     /\ RebuiltIsSafe(Rebuilt(cleaned), svg.joined)
  THEN "OK" ELSE "UNSAFE_SVG"

-----------------------------------------------------------------------------
(* resolveSvgSize.  0 stands for an undefined length.                      *)

DefaultSvgRasterSize == 512

Attributes(nodes) ==
  LET flat == Flat[nodes] IN
  FlattenSeq([i \in DOMAIN flat |-> IF IsElement(flat[i]) THEN flat[i].attrs ELSE <<>>])

\* The first attribute of the text whose name ends with this word.
First(attrs, name, count) ==
  LET found == {i \in DOMAIN attrs : attrs[i].name = name /\ Len(attrs[i].n) = count} IN
  IF found = {} THEN <<0, 0>> ELSE attrs[Min(found)].n

ReadSvgSize(nodes) ==
  LET attrs   == Attributes(nodes)
      width   == First(attrs, "width", 1)[1]
      height  == First(attrs, "height", 1)[1]
      viewBox == First(attrs, "viewBox", 2) IN
  [width  |-> IF width # 0 THEN width ELSE viewBox[1],
   height |-> IF height # 0 THEN height ELSE viewBox[2],
   viewBox |-> \E i \in DOMAIN attrs : attrs[i].name = "viewBox" /\ Len(attrs[i].n) = 2]

\* Math.round of n / d, and of half pixels.
RoundDiv(n, d) == (2 * n + d) \div (2 * d)
RoundHalf(n)   == RoundDiv(n, 2)
AtLeastOne(n)  == IF n < 1 THEN 1 ELSE n

\* A view box of width 0 is a size; no view box is not.
Intrinsic(length, viewBox) ==
  IF length # 0 \/ viewBox THEN length ELSE 2 * DefaultSvgRasterSize

\* Fault: the ratio is the wrong way round.
ScaledInverted(length, of, to) ==
  IF of # 0 /\ to # 0 THEN AtLeastOne(RoundDiv(length * of, to)) ELSE AtLeastOne(length)

\* The other side of a picture of which one side is given.
Scaled(length, of, to) ==
  IF of # 0 /\ to # 0 THEN AtLeastOne(RoundDiv(length * to, of)) ELSE AtLeastOne(length)

ResolveSize(nodes, width, height) ==
  LET size == ReadSvgSize(nodes) IN
  CASE width = 0 /\ height = 0 ->
         [width |-> RoundHalf(Intrinsic(size.width, size.viewBox)),
          height |-> RoundHalf(Intrinsic(size.height, size.viewBox))]
    [] width # 0 /\ height = 0 ->
         [width |-> width, height |-> Scaled(width, size.width, size.height)]
    [] width = 0 /\ height # 0 ->
         [width |-> Scaled(height, size.height, size.width), height |-> height]
    [] OTHER -> [width |-> width, height |-> height]

SizeError(size, limits) ==
  CASE size.width \notin 1..limits.width \/ size.height \notin 1..limits.height
         -> "LIMIT_IMAGE_DIMENSION"
    [] size.width * size.height > limits.pixels -> "LIMIT_IMAGE_PIXELS"
    [] OTHER -> "OK"

-----------------------------------------------------------------------------
(* The options of an image conversion, as the form sends them: a value is  *)
(* absent, a number, digits or something else; the flat field, unless      *)
(* empty, goes before the field of the JSON object `options`.              *)

Absent == [t |-> "absent", n |-> 0]

FirstDefined(flat, inObject) == IF flat.t \in {"absent", "empty"} THEN inObject ELSE flat

\* readOptionalInt: 0 stands for undefined; a given 0 is out of every range.
IsInt(raw) == raw.t \in {"absent", "empty", "int", "digits"}
Given(raw) == raw.t \in {"int", "digits"}

Option(form, name) ==
  FirstDefined(form.flat[name], IF form.options.t = "object"
                                THEN form.options.values[name] ELSE Absent)

OptionsError(form, limits) ==
  LET quality == Option(form, "quality")
      width   == Option(form, "width")
      height  == Option(form, "height")
      OutOf(raw, max) == Given(raw) /\ raw.n \notin 1..max IN
  CASE form.options.t = "malformed" -> "INVALID_OPTIONS"
    [] ~IsInt(quality) \/ ~IsInt(width) \/ ~IsInt(height) -> "INVALID_OPTIONS"
    [] OutOf(quality, 100) -> "INVALID_OPTIONS"
    [] ~form.hexBackground -> "INVALID_OPTIONS"
    [] OutOf(width, limits.width) \/ OutOf(height, limits.height)
         -> "LIMIT_IMAGE_DIMENSION"
    [] OTHER -> "OK"
=============================================================================
