--------------------------- MODULE MCConversionJob --------------------------
(* The uploads and limits ConversionJob is checked with. *)
EXTENDS ConversionJob

MCUploadCap == [f \in TextFormats \cup ImageSources |->
                  CASE f = "json" -> 6 [] f = "png" -> 6 [] OTHER -> 9]
MCTextLimits  == [rows |-> 2, depth |-> 2, keys |-> 3, nodes |-> 6]
MCImageLimits == [width |-> 16, height |-> 12, pixels |-> 100]

MCIndexParts == <<"0", "1", "2">>
MCAttributeParts == {"@_x"}
MCReplaced == [p \in {"a b", "a:b", "#text", "_ proto__", "\t"} |->
                 CASE p = "#text" -> "_text" [] p = "_ proto__" -> "__proto__"
                   [] p = "\t" -> "_" [] OTHER -> "a_b"]
MCPrefixed == [p \in ToSet(MCIndexParts) |-> CASE p = "0" -> "_0" [] p = "1" -> "_1" [] p = "2" -> "_2"]

File(ext)     == [stem |-> TRUE, dot |-> TRUE, last |-> ext]
Body(lead, fields, lines) == [lead |-> lead, fields |-> fields, lines |-> lines]
Picture(magic, decodes, prologue, root) ==
  [magic |-> magic, decodes |-> decodes, prologue |-> prologue, root |-> root]
Content(doc)  == [doc |-> doc, utf8 |-> TRUE, malformed |-> FALSE,
                  raster |-> [width |-> 4, height |-> 3]]
Number(n)        == [t |-> "int", n |-> n]
NoValues      == [f \in {"quality", "width", "height"} |-> Absent]
Form(flat)    == [flat |-> flat, hexBackground |-> TRUE,
                  options |-> [t |-> "absent", values |-> NoValues]]

TextUpload(ext, to, doc) ==
  [kind |-> "text", size |-> 5, bomOnly |-> FALSE,
   fields |-> [targetFormat |-> <<to>>, save |-> <<>>],
   name |-> File(ext), mime |-> "", body |-> Body("other", <<"odd">>, 1),
   content |-> Content(doc), form |-> Form(NoValues)]

ImageUpload(ext, to, body, doc) ==
  [TextUpload(ext, to, doc) EXCEPT !.kind = "image", !.body = body]

-----------------------------------------------------------------------------
(* Documents.                                                              *)

KeySet == {<<"a">>, <<"b">>, <<"a", "b">>, <<"0">>, <<"">>, <<"a b">>, <<"a_b">>, <<"__proto__">>}
X == Scalar("x")
Y == Scalar("y")
Simple == {X, Scalar("null"), List(<<>>), EntriesOf(<<>>)}

One(k, v)       == EntriesOf(<<[key |-> k, val |-> v]>>)
Two(k, v, l, w) == EntriesOf(JsObject(<<[key |-> k, val |-> v], [key |-> l, val |-> w]>>))

Flat1 == {One(k, v) : k \in KeySet, v \in Simple}
Pairs == {Two(k, X, l, w) : k \in KeySet, l \in KeySet, w \in {Y, List(<<>>)}}
ShortLists == {List(<<v, w>>) : v \in Simple, w \in Simple \cup {One(<<"a">>, X)}}
Rows  == {One(<<"a">>, X), One(<<"b">>, List(<<>>)), Two(<<"b">>, X, <<"a">>, Y),
          Two(<<"a">>, X, <<"0">>, Y), One(<<"a">>, One(<<"b">>, X)),
          One(<<"a">>, List(<<X, Y>>)), One(<<"value">>, Y), EntriesOf(<<>>)}
Deep  == {Two(<<"a">>, v, l, w) : v \in Rows, l \in KeySet \ {<<"a">>}, w \in {X} \cup Rows}
\* Two names of siblings become one, and what is below them is merged or lost.
Merged == {Two(<<"a b">>, One(k, X), <<"a_b">>, One(l, Y)) : k \in KeySet, l \in KeySet}
\* Keys that XML treats in some way of its own, or that an object has by birth.
OddKeys == {<<"#text">>, <<"@_x">>, <<"a:b">>, <<"\t">>, <<"", "b">>, <<"0", "a b">>,
            <<"_ proto__">>, <<"toString">>}
Odd   == {One(k, v) : k \in OddKeys, v \in Simple \cup {List(<<X, Y>>)}}
         \cup {Two(k, X, l, w) : k \in OddKeys, l \in OddKeys \cup {<<"a b">>}, w \in {Y, List(<<X>>)}}
         \cup {One(<<"a">>, Two(k, X, l, Y)) : k \in OddKeys, l \in OddKeys}
         \cup {List(<<One(k, X), One(l, Y)>>) : k \in OddKeys, l \in OddKeys}
Docs  == Odd \cup Merged \cup Simple \cup Flat1 \cup Pairs \cup ShortLists \cup Rows \cup Deep
         \cup {One(k, v) : k \in KeySet, v \in Flat1 \cup Rows}
         \cup {List(<<v, w>>) : v \in Rows \cup {X}, w \in Rows \cup ShortLists}

\* What the XML parser gives: one root element.
XmlDocs == {One(<<"a">>, v) : v \in {X, Two(<<"@_x">>, X, <<"#text">>, Y), List(<<X, Y>>),
                                     Two(<<"b">>, X, <<"a", "b">>, One(<<"constructor">>, X))}
                                  \cup (Rows \ {EntriesOf(<<>>)}) \cup {One(<<"b">>, v) : v \in Rows}}

TableOf(header, lines) == [t |-> "table", header |-> header, lines |-> lines]
Headers == {<<k>> : k \in KeySet} \cup {<<k, l>> : k \in KeySet, l \in KeySet \cup {<<" ">>}}
Lines(n) == {[i \in 1..n |-> c] : c \in {"x", ""}} \cup {[i \in 1..n |-> IF i = 1 THEN "" ELSE "y"]}
Tables == UNION {{TableOf(h, <<>>), TableOf(h, <<<<"x", "y", "z">>>>)}
                 \cup {TableOf(h, <<r>>) : r \in Lines(Len(h))}
                 \cup {TableOf(h, <<r, s>>) : r \in Lines(Len(h)), s \in Lines(Len(h))}
                 : h \in Headers}
          \cup {TableOf(<<<<"a">>>>, <<<<"x">>, <<"y">>, <<"x">>>>)}

DocumentUploads ==
  {TextUpload(from, to, doc) : from \in {"json", "yaml"}, to \in {"csv", "xml"}, doc \in Docs}
  \cup {TextUpload("json", "yaml", doc) : doc \in Docs}
  \cup {TextUpload("xml", to, doc) : to \in {"csv", "json"}, doc \in XmlDocs}
  \cup {TextUpload("csv", "json", table) : table \in Tables}

-----------------------------------------------------------------------------
(* Names, types, contents and fields.                                      *)

Names == {File("json"), File("yml"), File("txt"), File("svg"), File("jpg"),
          [stem |-> FALSE, dot |-> FALSE, last |-> "png"],
          [stem |-> FALSE, dot |-> TRUE, last |-> "csv"]}
Mimes == {"", "text/csv", "application/xml", "application/x-yaml", "text/json", "image/jpg"}
Bodies == {Body("nothing", <<>>, 0), Body("brace", <<"odd">>, 1), Body("angle", <<"odd">>, 1),
           Body("dashes", <<"odd">>, 2), Body("other", <<"word", "word">>, 1),
           Body("other", <<"pair", "word">>, 1), Body("other", <<"pair", "word">>, 2),
           Body("other", <<"pair">>, 1), Body("other", <<"odd">>, 2)}
Pictures == {Picture("png", FALSE, <<>>, ""), Picture("jpeg", FALSE, <<>>, ""),
             Picture("none", FALSE, <<>>, "svg")}
            \cup {Picture("none", TRUE, p, r) :
                    p \in {<<>>, <<"space", "declaration", "doctype", "space">>,
                           <<"declaration", "space", "doctype">>, <<"comment">>},
                    r \in {"svg", "s:svg"}}

Fields == {[targetFormat |-> t, save |-> s] :
             t \in {<<>>, <<"xml">>, <<"pdf", "xml">>, <<"jpg">>, <<"image/svg+xml">>},
             s \in {<<>>, <<"true">>, <<"maybe">>}}

Element(ns, local, attrs, kids) ==
  [t |-> "element", ns |-> ns, local |-> local, attrs |-> attrs, kids |-> kids]
Attr(ns, name, ref, n) ==
  [ns |-> ns, name |-> name, ref |-> ref, n |-> n,
   says |-> IF ref = "javascript:" THEN {ref} ELSE {}]
Length(name, n) == Attr("", name, "", n)
Tree(nodes) == [t |-> "svg", nodes |-> nodes, joined |-> {}]
Words(literal, says, live) == [t |-> "text", literal |-> literal, says |-> says, live |-> live]
Empty == Tree(<<Element("", "svg", <<Length("width", <<15>>)>>, <<>>)>>)

CheckUploads ==
  {[TextUpload("json", "xml", X) EXCEPT !.name = n, !.mime = m, !.body = b,
     !.content.malformed = TRUE] : n \in Names, m \in Mimes, b \in Bodies}
  \cup {[ImageUpload("svg", "jpeg", b, Empty) EXCEPT !.name = n, !.mime = m] :
          n \in Names, m \in Mimes, b \in Pictures}
  \cup {[TextUpload("json", "xml", X) EXCEPT !.fields = f] : f \in Fields}
  \cup {[ImageUpload("png", "jpeg", Picture("png", FALSE, <<>>, ""), Empty) EXCEPT !.fields = f] :
          f \in Fields}
  \cup {[TextUpload("json", "xml", X) EXCEPT !.size = n, !.bomOnly = b,
           !.content.utf8 = u, !.content.malformed = m] :
          n \in {0, 6, 7, 9, 10}, b \in BOOLEAN, u \in BOOLEAN, m \in BOOLEAN}
  \cup {[ImageUpload("png", "jpeg", Picture("png", FALSE, <<>>, ""), Empty) EXCEPT !.size = n,
           !.content.malformed = m, !.content.raster = [width |-> w, height |-> h]] :
          n \in {5, 7}, m \in BOOLEAN, w \in {0, 4, 20}, h \in {1, 4, 20}}

-----------------------------------------------------------------------------
(* Pictures.                                                               *)

SvgBody == Picture("none", TRUE, <<>>, "svg")
Svg(ns, attrs, kids) == Element(ns, "svg", attrs, kids)
Rect(attrs) == Element("", "rect", attrs, <<>>)
SvgKids == {Rect(<<>>), Rect(<<Attr("", "onclick", "", <<>>)>>),
         Rect(<<Attr("", "style", "javascript:", <<>>)>>),
         Element("", "script", <<>>, <<>>), Element("s:", "script", <<>>, <<>>),
         Element("", "g", <<>>, <<Element("", "foreignobject", <<>>, <<Rect(<<>>)>>)>>),
         Element("", "a", <<Attr("xlink:", "href", "javascript:", <<>>)>>, <<Rect(<<>>)>>),
         Element("", "image", <<Attr("", "href", "http", <<>>)>>, <<>>),
         Element("", "image", <<Attr("xlink:", "href", "data:image/png", <<>>)>>, <<>>),
         Element("", "use", <<Attr("", "href", "#id", <<>>)>>, <<>>),
         Element("", "use", <<>>, <<>>),
         Words(FALSE, {}, <<>>), Words(FALSE, {"javascript:"}, <<>>), Words(TRUE, {}, <<>>),
         Words(FALSE, {}, <<Rect(<<Attr("", "onclick", "", <<>>), Length("width", <<4>>)>>)>>),
         Words(FALSE, {"<script"}, <<Element("", "script", <<>>, <<>>)>>),
         Words(FALSE, {}, <<Element("", "script/", <<>>, <<>>)>>),
         Words(FALSE, {}, <<Element("s:", "script", <<>>, <<>>),
                            [t |-> "comment", says |-> {"<svg"}]>>),
         Element("", "g", <<>>, <<Words(TRUE, {}, <<>>), Words(FALSE, {}, <<>>)>>),
         Element("", "g", <<>>, <<Words(FALSE, {"<svg"}, <<Svg("", <<>>, <<>>)>>)>>),
         [t |-> "comment", says |-> {}]}
Sized == <<Length("width", <<16>>), Length("height", <<16>>)>>
Declaration == Element("", "?xml", <<>>, <<>>)

SvgUploads ==
  {ImageUpload("svg", "png", SvgBody, Tree(pro \o <<Svg(ns, Sized, kids)>>)) :
     pro \in {<<>>, <<Declaration>>}, ns \in {"", "s:"},
     kids \in {<<>>} \cup {<<k>> : k \in SvgKids} \cup {<<k, l>> : k \in SvgKids, l \in SvgKids}}
  \cup {ImageUpload("svg", "png", SvgBody,
           [Tree(<<Svg("", Sized, kids)>>) EXCEPT !.joined = {pattern}]) :
           pattern \in Patterns, kids \in {<<>>, <<Rect(<<>>)>>}}
  \cup {[ImageUpload("svg", "png", SvgBody, Empty) EXCEPT !.content.utf8 = u,
           !.content.malformed = m] : u \in BOOLEAN, m \in BOOLEAN}

\* 0.4 is one half of a pixel at most; lengths are in half pixels.
Lengths == {<<>>, <<0>>, <<1>>, <<7>>, <<24>>, <<40>>}
SizeAttrs == {<<Length("width", w), Length("height", h), Length("viewBox", v)>> :
                w \in Lengths, h \in Lengths, v \in {<<>>, <<30, 12>>, <<0, 12>>}}
Asked == {Absent, Number(0), Number(1), Number(5), Number(12), Number(17), [t |-> "digits", n |-> 9],
          [t |-> "other", n |-> 0], [t |-> "empty", n |-> 0]}

SizeUploads ==
  {[ImageUpload("svg", "png", SvgBody, Tree(<<Svg("", a, kids)>>)) EXCEPT !.form = Form(f)] :
     a \in SizeAttrs, kids \in {<<>>, <<Rect(<<Attr("stroke-", "width", "", <<4>>)>>)>>},
     f \in {[NoValues EXCEPT !["width"] = w, !["height"] = h] :
              w \in {Absent, Number(1), Number(5), Number(12)}, h \in {Absent, Number(1), Number(9)}}}
  \cup {[ImageUpload("svg", "png", SvgBody, Empty) EXCEPT !.form =
           [flat |-> [NoValues EXCEPT !["width"] = w], hexBackground |-> hex,
            options |-> [t |-> o, values |-> [NoValues EXCEPT !["width"] = x, !["quality"] = q]]]] :
          w \in Asked, x \in {Absent, Number(3)}, q \in {Absent, Number(100), Number(101)},
          hex \in BOOLEAN, o \in {"absent", "malformed", "object"}}

\* The uploads of the run that shows what the documentation does not say.
MCUnsafeUpload == {ImageUpload("svg", "png", SvgBody, Tree(<<Svg("", Sized, <<kid, Rect(<<>>)>>)>>)) :
                     kid \in SvgKids}

MCUpload == DocumentUploads \cup CheckUploads \cup SvgUploads \cup SizeUploads
=============================================================================
