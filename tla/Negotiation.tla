----------------------------- MODULE Negotiation -----------------------------
(***************************************************************************)
(* Choosing a representation (src/adapters/server/negotiate.rs) and        *)
(* writing it out (response.rs): which format an Accept header gets, what  *)
(* the client already has, and the headers the answer carries.             *)
(*                                                                         *)
(* An Accept header is the sequence of its segments, each [range, q]: the  *)
(* range is "any", "image", the name of an image type or "other", and q is *)
(* in thousandths, with NoQ for a weight that does not parse.  A blank     *)
(* segment is "blank".                                                     *)
(***************************************************************************)
EXTENDS Options, FiniteSets

NoQ == -1

----------------------------------------------------------------------------
(* Reading the header.                                                     *)

\* parse_accept_range: AVIF, GIF and TIFF are ranges no server format answers.
Specificity(range) ==
  CASE range = "any"   -> 0
    [] range = "image" -> 1
    [] OTHER           -> 2

Recognised(range) == range \in {"any", "image", "jpeg", "png", "webp", "bmp", "svg"}

\* parse_accept_segment: a weight that is not in 0..=1 drops the segment.
AcceptPreferences(accept) ==
  {[range |-> accept[i].range, q |-> accept[i].q, specificity |-> Specificity(accept[i].range)] :
     i \in {k \in DOMAIN accept : Recognised(accept[k].range) /\ accept[k].q \in 0..1000}}

HadAnySegment(accept) == \E i \in DOMAIN accept : accept[i].range # "blank"

\* accept_range_matches
RangeMatches(range, type) == range \in {"any", "image", type}

\* The order two matches are compared in: weight, then how precisely it names.
Beats(a, b) == a.q > b.q \/ (a.q = b.q /\ a.specificity > b.specificity)

Nothing == [q |-> 0, specificity |-> 0]

\* match_accept_preferences: the best of the ranges that match, not the most
\* specific of them.
MatchPreferences(type, preferences) ==
  LET matches == {[q |-> p.q, specificity |-> p.specificity] :
                    p \in {r \in preferences : RangeMatches(r.range, type)}} \cup {Nothing}
  IN CHOOSE m \in matches : \A n \in matches : ~Beats(n, m)

----------------------------------------------------------------------------
(* The candidates, in the server's order.                                  *)

Base(image) == IF image.alpha THEN <<"webp", "png", "jpeg">> ELSE <<"webp", "jpeg", "png">>
BaseTypes == {"webp", "png", "jpeg"}
Has(s, t) == \E i \in DOMAIN s : s[i] = t

\* Where a type stands first.
FirstAt(s, t) == CHOOSE i \in DOMAIN s : s[i] = t /\ \A j \in DOMAIN s : s[j] = t => i <= j

\* The base types in the order of the preference, the ones it leaves out after them.
Ordered(all) ==
  CHOOSE s \in [1..3 -> BaseTypes] :
    \A i, j \in 1..3 : i < j => FirstAt(all, s[i]) < FirstAt(all, s[j])

\* preferred_output_media_types: an input outside the base list goes first.
PreferredOutputs(image, preference) ==
  LET ordered == Ordered(preference \o Base(image))
  IN IF Has(ordered, image.type) THEN ordered ELSE <<image.type>> \o ordered

\* Mutant: a later candidate that is as good replaces an earlier one.
LastOfBest(outputs, preferences) ==
  LET match == [i \in DOMAIN outputs |-> MatchPreferences(outputs[i], preferences)]
      best == {i \in DOMAIN outputs : \A j \in DOMAIN outputs : ~Beats(match[j], match[i])}
  IN LET i == CHOOSE i \in best : \A j \in best : i >= j
     IN [type |-> outputs[i], q |-> match[i].q, specificity |-> match[i].specificity]

\* The loop of negotiate_output_format: only a better match replaces the
\* candidate found first.
FirstOfBest(outputs, preferences) ==
  LET match == [i \in DOMAIN outputs |-> MatchPreferences(outputs[i], preferences)]
      best == {i \in DOMAIN outputs : \A j \in DOMAIN outputs : ~Beats(match[j], match[i])}
  IN LET i == CHOOSE i \in best : \A j \in best : i <= j
     IN [type |-> outputs[i], q |-> match[i].q, specificity |-> match[i].specificity]

\* negotiate_output_format: "none" keeps the default, "refused" is the 406.
NegotiateOutputFormat(accept, image, preference) ==
  LET preferences == AcceptPreferences(accept)
      best == FirstOfBest(PreferredOutputs(image, preference), preferences)
  IN CASE ~HadAnySegment(accept)                       -> "none"
       [] HadAnySegment(accept) /\ preferences = {}    -> "refused"
       [] preferences # {} /\ best.q = 0               -> "refused"
       [] preferences # {} /\ best.q > 0 /\ best.specificity = 0 -> "none"
       [] OTHER                                        -> best.type

----------------------------------------------------------------------------
(* The answer.                                                             *)

\* if_none_match_matches: header is a set of tags; "star" matches any.
IfNoneMatchMatches(header, etag) == header \cap {"star", etag} # {}

\* build_image_response_headers: the ones a cache in front acts on.
ImageHeaders(type, policy, acceptMayVary) ==
  [cacheControl |-> IF policy = "public" THEN "public" ELSE "no-store",
   vary |-> IF acceptMayVary THEN {"Accept"} ELSE {},
   sandbox |-> type = "svg"]

\* accepts_encoding: the first item that names gzip or `*` decides.
AcceptsGzip(items) ==
  LET naming == {i \in DOMAIN items : items[i].name \in {"gzip", "*"}}
  IN /\ naming # {}
     /\ items[CHOOSE i \in naming : \A j \in naming : i <= j].q # 0

\* is_compressible_content_type: problems, JSON and the metrics text.
Compressible(kind) == kind \in {"json", "problem", "text"}

\* write_response: `long` is a body of at least MIN_COMPRESS_BYTES that
\* shrinks.  The length a HEAD declares is that of the GET's body.
WriteResponse(answer, isHead, acceptsGzip) ==
  LET compressed == acceptsGzip /\ answer.long /\ Compressible(answer.kind)
  IN [status |-> answer.status,
      length |-> IF compressed THEN "gzip" ELSE answer.kind,
      body |-> IF isHead THEN "empty" ELSE IF compressed THEN "gzip" ELSE answer.kind,
      vary |-> answer.vary
                 \cup (IF acceptsGzip /\ Compressible(answer.kind) THEN {"Accept-Encoding"} ELSE {}),
      close |-> answer.close]
=============================================================================
