---------------------------- MODULE ConversionJob ---------------------------
(***************************************************************************)
(* What one upload becomes: the checks of ConvertService.convert and       *)
(* ImageConvertService.convert in their order, then the job of the worker  *)
(* (convertTextFile, runImageConversion).  ConvertRequest models the files *)
(* and rows around this; here it is the answer that matters.               *)
(*                                                                         *)
(* An upload is [kind, fields, size, bomOnly, name, mime, body, content,   *)
(* form]; content is what a correct parser reads in the file, and which    *)
(* defects it has.                                                         *)
(***************************************************************************)
EXTENDS FormatDetection, IntermediateForm, SvgImages

CONSTANTS
  Upload,        \* the uploads that are looked at
  MultipartMax,  \* MULTIPART_MAX_FILE_BYTES
  UploadCap,     \* CONVERT_MAX_UPLOAD_*_BYTES by source format
  TextLimits,    \* CONVERT_MAX_CSV_ROWS, _DEPTH, _KEYS, _NODES
  ImageLimits    \* CONVERT_IMAGE_MAX_WIDTH, _HEIGHT, _PIXELS

ASSUME ConversionAssumption ==
  /\ MultipartMax \in Nat \ {0}
  /\ UploadCap \in [TextFormats \cup ImageSources -> Nat \ {0}]
  /\ TextLimits \in [{"rows", "depth", "keys", "nodes"} -> Nat \ {0}]
  /\ ImageLimits \in [{"width", "height", "pixels"} -> Nat \ {0}]

\* A picture is a tree of nodes or has the sides its metadata give.  A text that
\* can be parsed is a table or a value; the scalar "null" is no text in a cell.
\* The value of an XML document is what the parser's options make it: its texts
\* trimmed, with their entity references as they are written.
Table == [t : {"table"}, header : Seq(Key), lines : Seq(Seq(STRING \ {"null"}))]

ASSUME UploadAssumption ==
  \A u \in Upload :
    /\ u.kind \in {"text", "image"} /\ u.size \in Nat
    /\ u.kind = "text" /\ ~u.content.malformed =>
         u.content.doc \in (IF Detect(u.name, u.mime, u.body) = "csv" THEN Table ELSE Document)
    /\ u.kind = "image" =>
         /\ u.content.doc \in [t : {"svg"}, nodes : Seq(Node), joined : SUBSET Patterns]
         /\ u.content.raster \in [width : Nat, height : Nat]

VARIABLES
  upload,
  pc,
  source, target,  \* sourceFormat and targetFormat, once they are known
  work,            \* text: document, then IR, then output; SVG: its nodes
  size,            \* the resolved size of the picture
  reply            \* [code, status], code "OK" for a converted file

vars == <<upload, pc, source, target, work, size, reply>>

NoReply == [code |-> "none", status |-> 0]
NoSize  == [width |-> 0, height |-> 0]

Init ==
  /\ upload \in Upload
  /\ pc = "spool"
  /\ source = NoFormat /\ target = NoFormat
  /\ work = upload.content.doc
  /\ size = NoSize
  /\ reply = NoReply

-----------------------------------------------------------------------------

\* convertException.
StatusOf(code) ==
  CASE code = "FILE_TOO_LARGE" -> 413
    [] code \in {"UNSUPPORTED_SOURCE_FORMAT", "FORMAT_CONFLICT"} -> 415
    [] code = "CONVERT_INTERNAL" -> 500
    [] code = "OK" -> 200
    [] OTHER -> 400

Refuse(code) ==
  /\ pc' = "done"
  /\ reply' = [code |-> code, status |-> StatusOf(code)]
  /\ UNCHANGED <<source, target, work, size>>

\* One check of the pipeline: on with the next one, or out.
Check(at, code, next) ==
  /\ pc = at
  /\ IF code = "OK"
     THEN pc' = next /\ UNCHANGED <<source, target, work, size, reply>>
     ELSE Refuse(code)
  /\ UNCHANGED upload

IsText == upload.kind = "text"

\* spoolStream behind the file size limit of the multipart parser.
SpoolUpload == Check("spool", IF upload.size > MultipartMax
                              THEN "FILE_TOO_LARGE" ELSE "OK", "fields")

\* readTargetFormat and readSave.
ReadFields ==
  LET token  == FieldValue(upload.fields.targetFormat)
      parsed == IF IsText THEN ToConvertFormat(token) ELSE ParseImageTarget(token) IN
  /\ pc = "fields"
  /\ UNCHANGED upload
  /\ IF parsed = NoFormat THEN Refuse("INVALID_TARGET_FORMAT")
     ELSE IF ~IsSaveFlag(FieldValue(upload.fields.save)) THEN Refuse("INVALID_SAVE")
     ELSE /\ pc' = "empty" /\ target' = parsed
          /\ UNCHANGED <<source, work, size, reply>>

\* Only the text service looks for a file that is nothing but a BOM.
CheckEmpty == Check("empty", IF upload.size = 0 \/ (IsText /\ upload.bomOnly)
                             THEN "FILE_EMPTY" ELSE "OK", "detect")

Detected == IF IsText THEN Detect(upload.name, upload.mime, upload.body)
            ELSE DetectImageFormat(upload.name, upload.mime, upload.body)

DetectSource ==
  /\ pc = "detect"
  /\ UNCHANGED upload
  /\ IF Detected \in TextFormats \cup ImageSources
     THEN /\ pc' = "cap" /\ source' = Detected
          /\ UNCHANGED <<target, work, size, reply>>
     ELSE Refuse(Detected)

CheckUploadSize == Check("cap", IF upload.size > UploadCap[source]
                                THEN "FILE_TOO_LARGE" ELSE "OK", "pair")

CheckPair ==
  LET allowed == IF IsText THEN IsPairAllowed(source, target)
                 ELSE IsImagePairAllowed(source, target) IN
  Check("pair", IF allowed THEN "OK" ELSE "PAIR_NOT_ALLOWED",
        IF IsText THEN "decode" ELSE "options")

-----------------------------------------------------------------------------
(* runTextConversion.                                                      *)

DecodeText == Check("decode", IF upload.content.utf8 THEN "OK" ELSE "INVALID_ENCODING",
                    "parse")

\* A parser is a library: it refuses what is malformed, and that of XML may
\* find the nesting limit before the walk over the value finds any.
ParseErrors(doc) ==
  IF upload.content.malformed THEN {"INVALID_SYNTAX"}
  ELSE IF source = "csv" THEN {CsvError(doc, TextLimits)} \ {"OK"}
  ELSE ({SanitizeError(doc, TextLimits)} \ {"OK"})
         \cup {code \in {"LIMIT_DEPTH"} :
                 source = "xml" /\ NestedTags[doc] > TextLimits.depth}

Parsed(doc) == IF source = "csv" THEN CsvRecords(doc) ELSE Pruned[doc]

Parse ==
  /\ pc = "parse"
  /\ UNCHANGED upload
  /\ \/ \E code \in ParseErrors(work) : Refuse(code)
     \/ /\ ParseErrors(work) = {}
        /\ pc' = "adapt" /\ work' = Parsed(work)
        /\ UNCHANGED <<source, target, size, reply>>

\* adaptToTarget: CSV is written from records, everything else from a value.
Adapted(ir) ==
  CASE source = "csv" -> RecordsToValue(ir)
    [] target = "csv" -> ValueToRecords(ir)
    [] OTHER -> ir

Adapt ==
  /\ pc = "adapt"
  /\ UNCHANGED upload
  /\ IF target = "csv" /\ Adapted(work).headers = <<>> THEN Refuse("CONVERSION_AMBIGUOUS")
     ELSE /\ pc' = "serialize" /\ work' = Adapted(work)
          /\ UNCHANGED <<source, target, size, reply>>

Deliver(output) ==
  /\ pc' = "done"
  /\ work' = output
  /\ reply' = [code |-> "OK", status |-> 200]
  /\ UNCHANGED <<source, target, size>>

Written(ir) ==
  CASE target = "csv" -> CsvTable(ir)
    [] target = "xml" -> [t |-> "xml", elements |-> XmlElements[ToXmlDocument(ir)]]
    [] OTHER -> ir

NoXml == [t |-> "no xml", elements |-> {}]

\* csv-stringify throws at a function, and XMLBuilder at some of the odd values.
Serialize ==
  /\ pc = "serialize"
  /\ UNCHANGED upload
  /\ IF target = "csv" /\ Len(work.rows) > TextLimits.rows THEN Refuse("LIMIT_ROWS")
     ELSE IF target = "csv" /\ ~HasAllCells(work) THEN Refuse("CONVERT_INTERNAL")
     ELSE IF target = "xml" /\ IsOdd(work) THEN Refuse("INVALID_SYNTAX") \/ Deliver(NoXml)
     ELSE Deliver(Written(work))

-----------------------------------------------------------------------------
(* ImageConvertService and runImageConversion.                             *)

ReadOptions == Check("options", OptionsError(upload.form, ImageLimits),
                     IF source = "svg" THEN "clean" ELSE "measure")

Requested(name) ==
  LET raw == Option(upload.form, name) IN IF Given(raw) THEN raw.n ELSE 0

CleanSvg ==
  /\ pc = "clean"
  /\ UNCHANGED upload
  /\ IF ~upload.content.utf8 THEN Refuse("INVALID_ENCODING")
     ELSE IF upload.content.malformed \/ SvgError(work) # "OK"
     THEN Refuse("UNSAFE_SVG")
     ELSE /\ pc' = "resolve" /\ work' = [work EXCEPT !.nodes = Rebuilt(CleanAll(@))]
          /\ UNCHANGED <<source, target, size, reply>>

\* resolveSvgSize; the requested sides only count for an SVG.
ResolveSvgSize ==
  LET resolved == ResolveSize(work.nodes, Requested("width"), Requested("height"))
      error    == SizeError(resolved, ImageLimits) IN
  /\ pc = "resolve"
  /\ UNCHANGED upload
  /\ IF error # "OK" THEN Refuse(error)
     ELSE /\ pc' = "render" /\ size' = resolved
          /\ UNCHANGED <<source, target, work, reply>>

\* rethrowImageError: what sharp throws, on a malformed picture or on any other.
SharpErrors == {"INVALID_IMAGE", "LIMIT_IMAGE_PIXELS"}

\* convertRaster: the metadata of a PNG or JPEG.
MeasureRaster ==
  LET meta == upload.content.raster IN
  /\ pc = "measure"
  /\ UNCHANGED upload
  /\ \/ \E code \in SharpErrors : Refuse(code)
     \/ ~upload.content.malformed /\
        IF meta.width < 1 \/ meta.height < 1 THEN Refuse("INVALID_IMAGE")
        ELSE IF meta.width * meta.height > ImageLimits.pixels
        THEN Refuse("LIMIT_IMAGE_PIXELS")
        ELSE /\ pc' = "render" /\ size' = meta
             /\ UNCHANGED <<source, target, work, reply>>

\* writeImage: sharp draws the picture or throws.
Render ==
  /\ pc = "render"
  /\ UNCHANGED upload
  /\ \/ \E code \in SharpErrors : Refuse(code)
     \/ ~upload.content.malformed /\ Deliver(work)

Next ==
  \/ SpoolUpload \/ ReadFields \/ CheckEmpty \/ DetectSource
  \/ CheckUploadSize \/ CheckPair
  \/ DecodeText \/ Parse \/ Adapt \/ Serialize
  \/ ReadOptions \/ CleanSvg \/ ResolveSvgSize \/ MeasureRaster \/ Render

Spec == Init /\ [][Next]_vars

-----------------------------------------------------------------------------
(* Properties.                                                             *)

Replied   == pc = "done"
Converted == Replied /\ reply.code = "OK"

\* What name, type and content say, each as far as it says anything.
TextHints(name, mime, body) ==
  LET sniff == FromSniff(body) IN
  {FromExtension(name), FromMime(mime),
   IF sniff.weak THEN NoFormat ELSE sniff.format} \ {NoFormat}

ImageHints(name, mime, body) ==
  {FormatFromName(name), FormatFromMime(mime), FormatFromBody(body)} \ {NoFormat}

\* Name, type and content never contradict each other in an accepted upload,
\* and a refusal says what is wrong with them: nothing tells the format, or two
\* hints differ.  A line `key: value` is no certain hint of YAML, and the bytes
\* of a picture must always be known.
DetectionAgrees ==
  LET hints == IF IsText THEN TextHints(upload.name, upload.mime, upload.body)
               ELSE ImageHints(upload.name, upload.mime, upload.body) IN
  /\ source # NoFormat => hints = {source}
  /\ reply.code = "FORMAT_CONFLICT" => Cardinality(hints) > 1
  /\ reply.code = "UNSUPPORTED_SOURCE_FORMAT" =>
       hints = {} \/ (~IsText /\ FormatFromBody(upload.body) = NoFormat)

\* The limits on depth, keys and nodes refuse exactly the documents that exceed
\* one of them, counted without what hangs below a dropped key (the parser of
\* XML counts that too), and the code names a limit that is exceeded.
LimitsAreExact ==
  pc \in {"adapt", "done"} /\ source \in {"json", "xml", "yaml"}
    /\ upload.content.utf8 /\ ~upload.content.malformed /\ IsText
    /\ upload.size <= UploadCap[source] /\ source # target =>
    LET nodes == Reachable(upload.content.doc)
        exceeded ==
          (IF \/ \E n \in nodes : Len(n.at) > TextLimits.depth
              \/ source = "xml" /\ NestedTags[upload.content.doc] > TextLimits.depth
           THEN {"LIMIT_DEPTH"} ELSE {})
          \cup (IF Cardinality(nodes) > TextLimits.nodes THEN {"LIMIT_NODES"} ELSE {})
          \cup (IF Cardinality({n \in nodes : n.key}) > TextLimits.keys
                THEN {"LIMIT_KEYS"} ELSE {}) IN
    IF exceeded = {} THEN reply.code \notin {"LIMIT_DEPTH", "LIMIT_NODES", "LIMIT_KEYS"}
    ELSE Replied /\ reply.code \in exceeded

\* Where a leaf is in the row of its item, and in XML output.
Named(n) == IF n.at = <<>> THEN <<"value">> ELSE FlattenSeq(n.at)
CellsOf(item) == {n \in Leaves(item) : n.at # <<>> \/ n.t = "scalar"}

\* The document under the root of XML, the items of a list under the name `item`.
Rooted(doc) ==
  LET root == IF doc.t = "list" THEN EntriesOf(<<[key |-> <<"item">>, val |-> doc]>>) ELSE doc IN
  EntriesOf(<<[key |-> <<"root">>, val |-> root]>>)

\* Each leaf of a document is a cell of the table or shown in XML, where its
\* keys say, and nothing else is, as long as names can be told apart there: no
\* key is empty and no two cells make the same column, or no two keys of a map
\* make the same XML name and none is odd.  JSON and YAML hold the document.
Tabular(item) ==
  /\ \A n \in Leaves(item) : <<NoText>> \notin ToSet(n.at)
  /\ \A m, n \in CellsOf(item) : Named(m) = Named(n) => m = n

RowHolds(header, row, item) ==
  /\ \A n \in CellsOf(item) : \E c \in DOMAIN row : header[c] = Named(n) /\ row[c] = Cell(n)
  /\ \A c \in DOMAIN row : row[c] = NoText \/ \E n \in CellsOf(item) : Named(n) = header[c]

NothingIsLost ==
  Converted /\ IsText /\ source # "csv" =>
    LET doc == upload.content.doc IN
    CASE target = "csv" ->
           \A i \in DOMAIN Items(doc) :
             Tabular(Items(doc)[i]) => RowHolds(work.header, work.lines[i], Items(doc)[i])
      [] target = "xml" ->
           ~IsOdd(Pruned[doc]) /\ HasDistinctNames(Pruned[doc]) => Shows[Rooted(doc)][work.elements]
      [] OTHER -> Nodes[work] = Reachable(doc)

\* A table comes back from the value it was turned into, column order aside and
\* but for a column named __proto__, which no object can hold; and what is
\* written as CSV is a table that parseCsv reads, unless a key is blank.
CsvRoundTrip ==
  /\ pc = "serialize" /\ source = "csv" /\ upload.content.doc.lines # <<>>
       /\ ~Contains(upload.content.doc.header, <<"__proto__">>) =>
       LET table == CsvRecords(upload.content.doc)
           back  == ValueToRecords(work) IN
       ToSet(back.headers) = ToSet(table.headers) /\ back.rows = table.rows
  /\ Converted /\ target = "csv" /\ (\A i \in DOMAIN work.header : ~Blank(work.header[i]))
       => CsvError(work, TextLimits) = "OK"

\* Nothing the cleaner removes is left in what reaches the renderer, except in
\* the markup of a CDATA section, which is written out after the cleaning; and no
\* `javascript:` and no `<script` tag is left even there, but an empty `<script/>`.
\* An SVG without such content is never refused as unsafe, and drawn as it is.
\* What style sheets refer to is not looked at, and a text that is a number or a
\* truth value is not tame: it goes missing.
Tame(node) ==
  CASE node.t = "text" -> ~node.literal /\ node.live = <<>>
    [] node.t = "comment" -> FALSE
    [] OTHER ->
         /\ node.local \notin DroppedElements
         /\ \A i \in DOMAIN node.attrs :
              LET a == node.attrs[i] IN
              /\ a.name \notin {"onclick", "onload"}
              /\ a.name \in {"href", "src"} => a.ref \in {"", "#id", "data:image/png"}

Scripted(node) ==
  \/ Says(node) \cap {"javascript:", "<script"} # {}
  \/ IsElement(node) /\ node.ns = "" /\ node.local = "script"

\* The nodes that stood in a CDATA section.
InCdata(nodes) ==
  UNION {ToSet(Flat[text.live]) : text \in {node \in ToSet(Flat[nodes]) : IsTextNode(node)}}

Refers(node) == \E i \in DOMAIN node.attrs : node.attrs[i].name \in {"href", "src"}

IsTame(svg) ==
  /\ \A node \in ToSet(Flat[svg.nodes]) :
       /\ Tame(node) /\ ~Scripted(node)
       /\ IsElement(node) /\ node.local \in {"image", "use"} => Refers(node)
  /\ \E node \in ToSet(svg.nodes) : IsElement(node) /\ node.ns = "" /\ node.local = "svg"
  /\ svg.joined = {}

SvgIsTamed ==
  LET doc == upload.content.doc IN
  source = "svg" =>
    /\ pc \in {"resolve", "render"} \/ Converted =>
         \A node \in ToSet(Flat[work.nodes]) :
           (Tame(node) \/ node \in InCdata(doc.nodes)) /\ ~Scripted(node)
    /\ Replied /\ upload.content.utf8 /\ ~upload.content.malformed /\ IsTame(doc) =>
         reply.code # "UNSAFE_SVG" /\ work = doc

\* Whatever the SVG says of its size and whichever sides are asked for, a
\* picture stays within all three limits, has the sides that were asked for and
\* keeps the proportions when only one was.
InProportion(given, other, of, to) ==
  given = 1 \/ other = 1
    \/ (2 * other * of - 2 * given * to <= of /\ 2 * given * to - 2 * other * of <= of)

SizeFits ==
  LET w == Requested("width")
      h == Requested("height")
      own == ReadSvgSize(work.nodes) IN
  /\ size.width * size.height \in 1..ImageLimits.pixels
  /\ source = "svg" =>
       /\ size.width \in 1..ImageLimits.width /\ size.height \in 1..ImageLimits.height
       /\ w # 0 => size.width = w
       /\ h # 0 => size.height = h
       /\ own.width # 0 /\ own.height # 0 =>
            /\ w # 0 /\ h = 0 => InProportion(w, size.height, own.width, own.height)
            /\ w = 0 /\ h # 0 => InProportion(h, size.width, own.height, own.width)

SizeIsSound == Converted /\ ~IsText => SizeFits

-----------------------------------------------------------------------------
(* What the documentation says of the program, and the program does not do. *)

\* README.md: SVG files that contain scripts or external resources are rejected.
UnsafeIsRejected ==
  source = "svg" /\ Converted =>
    \A node \in ToSet(Flat[upload.content.doc.nodes]) : IsElement(node) =>
      /\ node.local # "script"
      /\ \A i \in DOMAIN node.attrs : IsUrlAttribute(node.attrs[i]) => node.attrs[i].ref # "http"

-----------------------------------------------------------------------------
(* Why the properties hold: what the checks an upload has behind it have   *)
(* found out about it is still true when it is answered.                   *)

Unread == {"spool", "fields", "empty", "detect"}
OfText == {"decode", "parse", "adapt", "serialize"}
OfImage == {"options", "clean", "resolve", "measure", "render"}

\* The source is what detection found, and so is a refusal for the format.
DetectionIsKept ==
  /\ pc \in Unread \cup {"cap", "pair", "done"} \cup OfText \cup OfImage
  /\ pc # "done" => reply = NoReply
  /\ pc \in Unread => source = NoFormat
  /\ source # NoFormat => source = Detected /\ source \in TextFormats \cup ImageSources
  /\ reply.code \in {"FORMAT_CONFLICT", "UNSUPPORTED_SOURCE_FORMAT"} => Detected = reply.code

\* Text and pictures stay on their own path, on which the options have passed
\* and the size was resolved from the cleaned picture.
SizeIsKept ==
  /\ pc \in OfText => IsText
  /\ pc \in OfImage => ~IsText
  /\ pc \in {"clean", "resolve"} => source = "svg"
  /\ pc = "measure" => source # "svg"
  /\ pc \in {"clean", "resolve", "measure"} => OptionsError(upload.form, ImageLimits) = "OK"
  /\ pc \in Unread \cup {"cap", "pair", "options", "clean"} => work = upload.content.doc
  /\ pc = "resolve" => work.nodes = Rebuilt(CleanAll(upload.content.doc.nodes))
  /\ pc = "render" => SizeFits

\* The inductive invariant of the theorems.
IndInv == DetectionIsKept /\ SizeIsKept /\ SizeIsSound

\* What SvgIsTamed needs besides: on its way to the renderer an SVG is the
\* uploaded one, then what sanitizeSvg has made of it and let through.
SvgIsKept ==
  LET doc  == upload.content.doc
      safe == [doc EXCEPT !.nodes = Rebuilt(CleanAll(@))] IN
  source = "svg" =>
    /\ ~IsText
    /\ pc \notin {"resolve", "render", "done"} => work = doc
    /\ pc \in {"resolve", "render"} \/ Converted => work = safe /\ SvgError(doc) = "OK"
    /\ Replied => work \in {doc, safe}
    /\ reply.code = "UNSAFE_SVG" => upload.content.malformed \/ SvgError(doc) # "OK"

\* What the text properties need: how far the text has come through its pipeline, and
\* that its refusals after the size and pair checks are those of the parser or
\* come after it.
WalkCodes == {"LIMIT_DEPTH", "LIMIT_NODES", "LIMIT_KEYS"}

TextIsKept ==
  LET doc == upload.content.doc IN
  IsText =>
    /\ pc \in {"empty", "detect"} \/ source # NoFormat => target \in TextFormats
    /\ pc \in {"cap", "pair"} \cup OfText => source \in TextFormats
    /\ pc \in {"decode", "parse"} => work = doc
    /\ pc \in {"pair"} \cup OfText => upload.size <= UploadCap[source]
    /\ pc \in OfText \/ Converted => IsPairAllowed(source, target)
    /\ pc \in {"adapt", "serialize"} \/ Converted => ParseErrors(doc) = {}
    /\ pc = "adapt" => work = Parsed(doc)
    /\ pc = "serialize" => work = Adapted(Parsed(doc))
    /\ (pc = "serialize" \/ Converted) /\ target = "csv" => Adapted(Parsed(doc)).headers # <<>>
    /\ Converted =>
         /\ IF target = "xml" /\ IsOdd(Adapted(Parsed(doc))) THEN work = NoXml
            ELSE work = Written(Adapted(Parsed(doc)))
         /\ target = "csv" => HasAllCells(Adapted(Parsed(doc)))
         /\ target = "csv" => ~(Len(Adapted(Parsed(doc)).rows) > TextLimits.rows)
    /\ Replied /\ source # NoFormat =>
         \/ upload.size > UploadCap[source]
         \/ ~IsPairAllowed(source, target)
         \/ ~upload.content.utf8
         \/ reply.code \in ParseErrors(doc)
         \/ ParseErrors(doc) = {} /\ reply.code \notin WalkCodes
=============================================================================
