--------------------------- MODULE FormatDetection --------------------------
(***************************************************************************)
(* modules/convert: which format an upload is in, which format it is to    *)
(* become, and which pairs of formats there are.  A detection answers with *)
(* a format or with the error code it throws.                              *)
(*                                                                         *)
(* An upload is described by what the detectors tell apart.                *)
(*   name   [stem, dot, last]: is there text before the last dot, is there *)
(*          a dot, and what stands after it (or is the whole name)         *)
(*   mime   the Content-Type without its parameters, "" when there is none *)
(*   body   the sniffed prefix: [lead, fields, lines] for text, that is    *)
(*          how it starts, the comma separated fields of its first line    *)
(*          and the number of its lines; [magic, decodes, prologue, root]  *)
(*          for images                                                     *)
(***************************************************************************)
EXTENDS Naturals, Sequences

TextFormats  == {"csv", "json", "xml", "yaml"}
ImageSources == {"png", "jpeg", "svg"}
NoFormat     == "none"

-----------------------------------------------------------------------------
(* FormatDetectorService.                                                  *)

\* path.extname: nothing for "csv" and for ".csv".
Extname(name) == IF name.stem /\ name.dot THEN name.last ELSE ""

FromExtension(name) ==
  IF Extname(name) \in TextFormats THEN Extname(name)
  ELSE IF Extname(name) = "yml" THEN "yaml" ELSE NoFormat

FromMime(mime) ==
  CASE mime \in {"application/json", "text/json"} -> "json"
    [] mime \in {"application/xml", "text/xml"} -> "xml"
    [] mime \in {"application/yaml", "text/yaml", "application/x-yaml"} -> "yaml"
    [] mime \in {"text/csv", "application/csv"} -> "csv"
    [] OTHER -> NoFormat

\* Two or more fields, each of them like a header, or more than one line.
LooksLikeCsv(body) ==
  /\ Len(body.fields) >= 2
  /\ \/ \A i \in DOMAIN body.fields : body.fields[i] = "word"
     \/ body.lines > 1

\* `key: value` on the first line.
LooksLikeYamlKeyLine(body) == body.fields[1] = "pair"

FromSniff(body) ==
  CASE body.lead = "nothing" -> [format |-> NoFormat, weak |-> FALSE]
    [] body.lead = "brace"   -> [format |-> "json", weak |-> FALSE]
    [] body.lead = "angle"   -> [format |-> "xml", weak |-> FALSE]
    [] body.lead = "dashes"  -> [format |-> "yaml", weak |-> FALSE]
    [] OTHER -> IF LooksLikeCsv(body)
                THEN [format |-> "csv", weak |-> FALSE]
                ELSE IF LooksLikeYamlKeyLine(body)
                     THEN [format |-> "yaml", weak |-> TRUE]
                     ELSE [format |-> NoFormat, weak |-> FALSE]

SniffConflicts(sniff, candidate) ==
  sniff.format \notin {NoFormat, candidate} /\ ~sniff.weak

\* Fault: the content only decides when name and type are silent.
DetectByName(name, mime, body) ==
  LET ext   == FromExtension(name)
      type  == FromMime(mime)
      sniff == FromSniff(body)
      hint  == IF ext # NoFormat THEN ext ELSE type IN
  IF ext # NoFormat /\ type # NoFormat /\ ext # type THEN "FORMAT_CONFLICT"
  ELSE IF hint # NoFormat THEN hint
  ELSE IF sniff.format # NoFormat /\ ~sniff.weak THEN sniff.format
  ELSE "UNSUPPORTED_SOURCE_FORMAT"

Detect(name, mime, body) ==
  LET ext   == FromExtension(name)
      type  == FromMime(mime)
      sniff == FromSniff(body)
      hint  == IF ext # NoFormat THEN ext ELSE type IN
  IF ext # NoFormat /\ type # NoFormat /\ ext # type THEN "FORMAT_CONFLICT"
  ELSE IF hint # NoFormat
       THEN IF SniffConflicts(sniff, hint) THEN "FORMAT_CONFLICT" ELSE hint
       ELSE IF sniff.format # NoFormat /\ ~sniff.weak THEN sniff.format
            ELSE "UNSUPPORTED_SOURCE_FORMAT"

-----------------------------------------------------------------------------
(* image-detector.ts.                                                      *)

\* split('.').pop(): the whole name when it has no dot.
FormatFromName(name) ==
  CASE name.last \in ImageSources -> name.last
    [] name.last = "jpg" -> "jpeg"
    [] OTHER -> NoFormat

FormatFromMime(mime) ==
  CASE mime = "image/png" -> "png"
    [] mime \in {"image/jpeg", "image/jpg"} -> "jpeg"
    [] mime \in {"image/svg+xml", "text/xml", "application/xml"} -> "svg"
    [] OTHER -> NoFormat

\* replace(/^x/, ''): one x, and only at the very start.
Without(x, s) == IF s # <<>> /\ Head(s) = x THEN Tail(s) ELSE s

\* The prefix must decode, and nothing but one declaration and, right behind
\* it, one document type may stand before `<svg`.
SniffSvg(body) ==
  LET trimmed == Without("space", body.prologue)
      bare    == Without("doctype", Without("declaration", trimmed)) IN
  IF body.decodes /\ Without("space", bare) = <<>> /\ body.root = "svg"
  THEN "svg" ELSE NoFormat

FormatFromBody(body) ==
  IF body.magic \in {"png", "jpeg"} THEN body.magic ELSE SniffSvg(body)

DetectImageFormat(name, mime, body) ==
  LET hints == {FormatFromName(name), FormatFromMime(mime),
                FormatFromBody(body)} \ {NoFormat} IN
  IF FormatFromBody(body) = NoFormat THEN "UNSUPPORTED_SOURCE_FORMAT"
  ELSE IF hints # {FormatFromBody(body)} THEN "FORMAT_CONFLICT"
  ELSE FormatFromBody(body)

-----------------------------------------------------------------------------
(* The form fields and the graphs.  A field is the sequence of the values  *)
(* sent under its name; the first one counts.                              *)

FieldValue(field) == IF field = <<>> THEN "" ELSE Head(field)

ToConvertFormat(token) == IF token \in TextFormats THEN token ELSE NoFormat

ParseImageTarget(token) ==
  CASE token \in {"jpg", "jpeg", "image/jpg", "image/jpeg"} -> "jpeg"
    [] token \in {"png", "image/png"} -> "png"
    [] token \in {"svg", "svg+xml", "image/svg+xml"} -> "svg"
    [] OTHER -> NoFormat

IsSaveFlag(token) == token \in {"", "true", "false"}

IsPairAllowed(from, to) == from \in TextFormats /\ to \in TextFormats \ {from}

IsImagePairAllowed(from, to) ==
  \/ from = "png" /\ to = "jpeg"
  \/ from = "jpeg" /\ to = "png"
  \/ from = "svg" /\ to \in {"png", "jpeg"}
=============================================================================
