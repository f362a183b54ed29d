---------------------------- MODULE SvgSanitizer ----------------------------
(***************************************************************************)
(* sanitize_svg (src/codecs/svg.rs): the pass that turns an SVG document   *)
(* into one that holds no active content and names no outside resource.    *)
(*                                                                         *)
(* A document is the sequence of events the XML reader yields.  Names and  *)
(* values are classes: an element is "svg", "g", "style", a "forbidden"    *)
(* one or a "malformed" name; a resource is "fragment", "raster" (a        *)
(* data:image/ URL), "svgdata", "external" or "none", a bare path.  Text   *)
(* is a sequence of CSS pieces; "ur" and "l(" are two that spell url(...)  *)
(* only when they touch.                                                   *)
(***************************************************************************)
EXTENDS Integers, SequencesExt

CONSTANTS
  MaxElements,  \* MAX_SVG_ELEMENTS
  MaxNesting    \* MAX_SVG_NESTING_DEPTH

ASSUME SvgLimitsAssumption == MaxElements \in Nat /\ MaxNesting \in Nat

\* FoldLeft, with arguments that TLC evaluates once: a bound variable holds a
\* value where an operator's parameter holds an expression.
Once(F(_), x) == CHOOSE r \in {F(y) : y \in {x}} : TRUE

Scan(step(_, _), start, seq) ==
  LET From(s) == LET run[i \in 0..Len(s)] ==
                       IF i = 0 THEN start ELSE Once(LAMBDA acc : step(acc, s[i]), run[i - 1])
                 IN run[Len(s)]
  IN Once(From, seq)

\* is_dangerous_href, names_an_external_resource: all but the resources that are
\* allowed.
IsDangerous(resource) == resource \notin {"empty", "fragment", "raster"}

\* A piece of CSS: [p |-> its class, of |-> the resource it names or the keyword
\* class of an at-rule, spells |-> its text decodes to something holding "url("].
Piece(p, of, spells) == [p |-> p, of |-> of, spells |-> spells]
Word == Piece("word", "none", FALSE)
Space == Piece("space", "none", FALSE)
EmptyUrl == Piece("url", "empty", FALSE)
Replacement == <<Word>>

PieceKinds ==
  {"word", "space", "string", "comment", "at", "(", ")", "block", "endblock", "semicolon", "ur", "l(", "url", "xurl(",
   "image-set(", "decoy"}

Resources == {"none", "empty", "fragment", "raster", "svgdata", "external", "bad", "allowed", "import"}

\* Only a string, a comment and the argument of a url( have a text of their own.
Pieces ==
  {piece \in [p : PieceKinds, of : Resources, spells : BOOLEAN] :
     piece.spells => piece.p \in {"string", "comment", "url"}}

\* Tokens of a text read as one stylesheet: pieces of a name that touch are one
\* name, an escaped name takes in what touches it.
LexStep(css, piece) ==
  IF css # <<>> /\ Last(css).p = "ur" /\ piece.p \in {"l(", "decoy"}
  THEN Append(Front(css), IF piece.p = "l(" THEN Piece("url", piece.of, FALSE) ELSE piece)
  ELSE Append(css, piece)

Lex(text) == Scan(LexStep, <<>>, text)

\* end_of_at_rule: the rule ends at a semicolon outside a block, where its block
\* ends, or before the end of the block around it.
AtRuleStep(acc, piece) ==
  CASE piece.p = "block" -> [acc EXCEPT !.rule = @ + 1]
    [] piece.p = "endblock" /\ acc.rule = 0 -> [acc EXCEPT !.rule = -1, !.out = Append(@, piece)]
    [] piece.p = "endblock" /\ acc.rule = 1 -> [acc EXCEPT !.rule = -1]
    [] piece.p = "endblock" /\ acc.rule > 1 -> [acc EXCEPT !.rule = @ - 1]
    [] piece.p = "semicolon" /\ acc.rule = 0 -> [acc EXCEPT !.rule = -1]
    [] OTHER -> acc

Put(acc, pieces) == [acc EXCEPT !.out = @ \o pieces]

\* Mutant: nothing is left where a rule was dropped, so its neighbours join.
DropAtRuleJoining(acc) == [acc EXCEPT !.rule = 0]

\* An at-rule that is not allowed goes whole; a space takes its place.
DropAtRule(acc) == [Put(acc, <<Space>>) EXCEPT !.rule = 0]

\* A string, a comment and a url( are kept, emptied or replaced.
KeptString(piece, fetched) ==
  IF (fetched /\ IsDangerous(piece.of)) \/ piece.spells THEN Piece("string", "empty", FALSE) ELSE piece

KeptUrl(piece) ==   \* "bad" is an argument that does not parse
  IF piece.of # "bad" /\ ~IsDangerous(piece.of) /\ ~piece.spells THEN piece ELSE EmptyUrl

\* sanitize_css, one token.  parens holds TRUE for each open parenthesis in
\* which a string is a URL; rule is the block depth inside a dropped at-rule.
CssToken(acc, piece) ==
  CASE piece.p = "string"  -> Put(acc, <<KeptString(piece, TRUE \in Range(acc.parens))>>)
    [] piece.p = "comment" -> Put(acc, <<[piece EXCEPT !.spells = FALSE]>>)
    [] piece.p = "at"      -> IF piece.of = "allowed" THEN Put(acc, <<piece>>) ELSE DropAtRule(acc)
    [] piece.p \in {"(", "l("} -> [Put(acc, <<piece>>) EXCEPT !.parens = Append(@, FALSE)]
    [] piece.p = ")" -> [Put(acc, <<piece>>) EXCEPT !.parens = IF @ = <<>> THEN @ ELSE Front(@)]
    [] piece.p = "image-set(" -> [Put(acc, <<piece>>) EXCEPT !.parens = Append(@, TRUE)]
    [] piece.p = "url"   -> Put(acc, <<KeptUrl(piece)>>)
    [] piece.p = "decoy" -> Put(acc, <<Space>>)   \* an escaped name holding "url("
    [] piece.p = "xurl(" -> [Put(acc, <<Word, Space, Piece("(", "none", FALSE)>>) EXCEPT !.parens = Append(@, FALSE)]
    [] OTHER -> Put(acc, <<piece>>)

CssStep(acc, piece) == IF acc.rule >= 0 THEN AtRuleStep(acc, piece) ELSE CssToken(acc, piece)

SanitizeCss(text) == Scan(CssStep, [out |-> <<>>, parens |-> <<>>, rule |-> -1], Lex(text)).out

\* mentions_css_resource: decoded, the text spells a function that fetches.
MentionsResource(text) ==
  \E piece \in Range(Lex(text)) : piece.p \in {"url", "xurl(", "image-set(", "decoy"} \/ piece.spells

\* DeclaredEntities::resolve, on attribute values and text alike.
Resolve(entities, ref) == IF ref \in DOMAIN entities THEN entities[ref] ELSE Replacement

AttributeValue(attr, entities) == IF attr.ref = "none" THEN attr.text ELSE Resolve(entities, attr.ref)

\* What an href names: the resource its first word spells.  A text that starts
\* with anything else, a url( included, is read as a path; the white space that
\* is trimmed from its ends is left out.
NamedBy(text) ==
  IF text = <<>> THEN "empty" ELSE IF text[1].p = "word" THEN text[1].of ELSE "external"

\* sanitize_attributes, one attribute.
SanitizedAttribute(attr, entities) ==
  LET text == AttributeValue(attr, entities)
      Holding(t) == <<[key |-> attr.key, ref |-> "none", text |-> t]>>
  IN IF attr.key \in {"malformed", "handler", "xml:base"} THEN <<>>
     ELSE IF attr.key = "href" /\ IsDangerous(NamedBy(text)) THEN <<>>
     ELSE IF attr.key = "style" \/ MentionsResource(text) THEN Holding(SanitizeCss(text))
     ELSE Holding(text)

SanitizeAttributes(attrs, entities) ==
  LET Step(out, attr) == out \o SanitizedAttribute(attr, entities) IN Scan(Step, <<>>, attrs)

----------------------------------------------------------------------------
(* The event loop.  open is the reader's own count of unclosed elements:   *)
(* an end tag that matches nothing is a reader error.                      *)

\* An event of the reader, with the fields of its class.
IsEntities(entities) == \A name \in DOMAIN entities : entities[name] \in Seq(Pieces)

IsEvent(e) ==
  /\ e.ev \in {"start", "empty"} =>
       /\ e = [ev |-> e.ev, name |-> e.name, attrs |-> e.attrs] /\ e.attrs \in Seq(Range(e.attrs))
       /\ \A attr \in Range(e.attrs) : attr.text \in Seq(Pieces)
  /\ e.ev = "text" => e.text \in Seq(Pieces)
  /\ e.ev = "doctype" => IsEntities(e.entities)

SanitizeStart == [at |-> 0, out |-> <<>>, skip |-> 0, sheet |-> FALSE, text |-> <<>>, nested |-> 0,
           depth |-> 0, count |-> 0, open |-> 0, entities |-> <<>>, error |-> "none"]

Write(acc, event) == [acc EXCEPT !.out = Append(@, event)]
Refuse(acc, error) == [acc EXCEPT !.error = error]

\* Inside an element that is dropped with everything under it.
SkipEvent(acc, e) ==
  [acc EXCEPT !.skip = CASE e.ev = "start" -> @ + 1 [] e.ev = "end" -> @ - 1 [] OTHER -> @]

\* Inside <style>: the text is gathered whole and sanitized at the end tag.
StyleEvent(acc, e) ==
  CASE e.ev = "start" -> [acc EXCEPT !.nested = @ + 1]
    [] e.ev = "end" /\ acc.nested > 0 -> [acc EXCEPT !.nested = @ - 1]
    [] e.ev = "end" /\ acc.nested = 0 ->
         LET css == SanitizeCss(acc.text)
             closed == [acc EXCEPT !.sheet = FALSE, !.text = <<>>, !.depth = IF @ = 0 THEN 0 ELSE @ - 1]
         IN Write(IF css = <<>> THEN closed ELSE Write(closed, [ev |-> "text", text |-> css]), e)
    [] e.ev = "text" /\ acc.nested = 0 -> [acc EXCEPT !.text = @ \o e.text]
    [] e.ev = "ref" /\ acc.nested = 0 ->
         [acc EXCEPT !.text = @ \o (IF e.name = "char" THEN <<Word>> ELSE Resolve(acc.entities, e.name))]
    [] OTHER -> acc

ElementEvent(acc, e) ==
  LET counted == [acc EXCEPT !.count = @ + 1, !.depth = IF e.ev = "start" THEN @ + 1 ELSE @]
  IN CASE e.name = "malformed" -> Refuse(acc, "DecodeFailed")
       [] e.name = "forbidden" -> [acc EXCEPT !.skip = IF e.ev = "start" THEN 1 ELSE 0]
       [] OTHER ->
            IF counted.count > MaxElements \/ counted.depth > MaxNesting
            THEN Refuse(acc, "LimitExceeded")
            ELSE Write([counted EXCEPT !.sheet = e.ev = "start" /\ e.name = "style", !.nested = 0],
                       [e EXCEPT !.attrs = SanitizeAttributes(@, acc.entities)])

PlainEvent(acc, e) ==
  CASE e.ev \in {"start", "empty"} -> ElementEvent(acc, e)
    [] e.ev = "end" -> Write([acc EXCEPT !.depth = IF @ = 0 THEN 0 ELSE @ - 1], e)
    [] e.ev = "ref" -> Write(acc, IF e.name = "char" THEN e
                                  ELSE [ev |-> "text", text |-> Resolve(acc.entities, e.name)])
    [] e.ev = "pi" -> acc
    [] e.ev = "doctype" -> IF e.unsafe THEN Refuse(acc, "DecodeFailed")
                           ELSE Write([acc EXCEPT !.entities = e.entities], e)
    [] OTHER -> Write(acc, e)

SanitizeEvent(acc, e) ==
  LET open == CASE e.ev = "start" -> acc.open + 1 [] e.ev = "end" -> acc.open - 1 [] OTHER -> acc.open
      a == [acc EXCEPT !.open = open, !.at = @ + 1]
  IN IF acc.error # "none" THEN acc
     ELSE IF open < 0 THEN Refuse(acc, "DecodeFailed")
     ELSE IF acc.skip > 0 THEN SkipEvent(a, e)
     ELSE IF acc.sheet THEN StyleEvent(a, e)
     ELSE PlainEvent(a, e)

\* svg_root_element: past the prolog, the first element is <svg>.
RootIsSvg(events) ==
  LET elements == SelectSeq(events, LAMBDA e : e.ev \in {"start", "empty"})
      first == SelectInSeq(events, LAMBDA e : e.ev \in {"start", "empty", "text", "end", "ref"})
  IN elements # <<>> /\ elements[1].name = "svg" /\ events[first].ev \in {"start", "empty"}

\* sanitize_svg.
Sanitize(events) ==
  LET end == Scan(SanitizeEvent, SanitizeStart, events)
  IN IF end.error # "none" THEN [ok |-> FALSE, error |-> end.error, doc |-> <<>>]
     ELSE IF ~RootIsSvg(end.out) THEN [ok |-> FALSE, error |-> "DecodeFailed", doc |-> <<>>]
     ELSE [ok |-> TRUE, error |-> "none", doc |-> end.out]
=============================================================================
