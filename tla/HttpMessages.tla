---------------------------- MODULE HttpMessages ----------------------------
(***************************************************************************)
(* The texts of code/devcore/uhttp: how api.c builds a request or a        *)
(* response and how parser.c reads it, while it comes in piece by piece.   *)
(*                                                                         *)
(* A text is a sequence of parts: the words of a line, CRLF, the bytes of  *)
(* a body.  The first line and each header line are one part: spaces and   *)
(* colons are where the builder put them.                                  *)
(***************************************************************************)
EXTENDS Naturals, SequencesExt, Ranks

CONSTANTS UHTTP_MAX_HEADER_SIZE,   \* in parts
          UHTTP_MAX_BODY_SIZE,
          MAX_HEADERS,
          MaxBody,                 \* bound: bytes of a body
          MaxExtra                 \* bound: headers the application adds

(* There is room for the length of a response, its second header. *)
ASSUME HttpAssumption ==
  /\ UHTTP_MAX_HEADER_SIZE \in Nat /\ UHTTP_MAX_BODY_SIZE \in Nat
  /\ MAX_HEADERS \in Nat /\ MAX_HEADERS >= 2
  /\ MaxBody \in Nat /\ MaxExtra \in Nat

VARIABLES message,    \* what was built; fixed
          arrived     \* how many parts of its text have come in

hvars == <<message, arrived>>

Methods == {"GET", "POST", "UNKNOWN"}
CRLF == [crlf |-> TRUE]
Byte(i) == [byte |-> i]
Header(k, v) == [key |-> k, value |-> v]

(* Headers of the application; "Length" stands for Content-Length. *)
Extras == UNION {[1 .. n -> {Header("A", 1), Header("B", 2)}] : n \in 0 .. MaxExtra}

(* uhttp_create_request and uhttp_create_response, with _sheaders *)
Requests  == [kind : {"request"}, method : Methods, path : {"short", "long"},
              headers : Extras, body : 0 .. MaxBody]
Responses == [kind : {"response"}, status_code : {200, 404}, headers : Extras, body : 0 .. MaxBody]

-----------------------------------------------------------------------------
Lines(hs) == [i \in 1 .. (2 * Len(hs)) |-> IF i % 2 = 1 THEN hs[(i + 1) \div 2] ELSE CRLF]
Body(n)   == [i \in 1 .. n |-> Byte(i)]

(* uhttp_build_request: the headers, in this order. *)
RequestHeaders(req) == <<Header("Length", req.body)>> \o req.headers

(* Mutant of ResponseHeaders: the length is the last header. *)
ResponseHeadersLengthLast(resp) ==
  <<Header("Type", 0), Header("Connection", 0)>> \o resp.headers \o <<Header("Length", resp.body)>>

(* uhttp_build_response: the headers, in this order. *)
ResponseHeaders(resp) ==
  <<Header("Type", 0), Header("Length", resp.body), Header("Connection", 0)>> \o resp.headers

BuildRequest(req) ==
  <<[method |-> req.method, path |-> req.path], CRLF>>
     \o Lines(RequestHeaders(req)) \o <<CRLF>> \o Body(req.body)

BuildResponse(resp) ==
  <<[status_code |-> resp.status_code], CRLF>>
     \o Lines(ResponseHeaders(resp)) \o <<CRLF>> \o Body(resp.body)

Build(m) == IF m.kind = "request" THEN BuildRequest(m) ELSE BuildResponse(m)

-----------------------------------------------------------------------------
(* find_sequence: the first place in data at which words begin, or 0. *)
FindSequence(data, words) ==
  LET at == {i \in 1 .. Len(data) : IsPrefix(words, SubSeq(data, i, Len(data)))}
  IN  IF at = {} THEN 0 ELSE CHOOSE i \in at : \A j \in at : i <= j

(***************************************************************************)
(* parse_headers: lines that end in CRLF are taken as long as there is     *)
(* room.  The region it is given stops before the CRLF of the last line.   *)
(***************************************************************************)
TakenHeaders(region) ==
  LET ends == {i \in DOMAIN region : region[i] = CRLF}
      n    == Cardinality(ends)
  IN  [l \in 1 .. (IF n < MAX_HEADERS THEN n ELSE MAX_HEADERS) |-> region[Nth(ends, l) - 1]]

Lengths(hs) == {i \in DOMAIN hs : hs[i].key = "Length"}

(* parse_content_length: a value above the limit is an error. *)
LengthsValid(hs) == \A i \in Lengths(hs) : hs[i].value <= UHTTP_MAX_BODY_SIZE

(* The last one counts. *)
ContentLength(hs) ==
  IF Lengths(hs) = {} THEN 0
  ELSE hs[CHOOSE i \in Lengths(hs) : \A j \in Lengths(hs) : j <= i].value

Verdict(v) == [verdict |-> v]
Parsed(first, hs, body) == [verdict |-> "OK", first |-> first, headers |-> hs, body |-> body]

(* What follows parse_headers in both parsers; n bytes of body are due. *)
ParseBody(parts, n) ==
  IF Len(parts.rest) < n THEN Verdict("INCOMPLETE")
  ELSE Parsed(parts.first, parts.hs, SubSeq(parts.rest, 1, n))

(* Mutant of NoHeaderEnd: what has no end of header yet is refused. *)
NoHeaderEndError(data) == Verdict("ERROR")

NoHeaderEnd(data) ==
  IF Len(data) >= UHTTP_MAX_HEADER_SIZE THEN Verdict("ERROR") ELSE Verdict("INCOMPLETE")

(* A text that has an end of header: its first line, headers and rest. *)
Parts(data) ==
  LET end      == FindSequence(data, <<CRLF, CRLF>>)
      head     == SubSeq(data, 1, end - 1)
      line_end == FindSequence(head, <<CRLF>>)
  IN  [first |-> data[1], line_end |-> line_end,
       hs    |-> TakenHeaders(SubSeq(head, line_end + 1, Len(head))),
       rest  |-> SubSeq(data, end + 2, Len(data))]

HasHeaderEnd(data) == FindSequence(data, <<CRLF, CRLF>>) # 0

(* uhttp_parse_request: a body is read for a POST request only. *)
ParseRequest(data) ==
  LET p == Parts(data)
  IN  CASE data = << >> -> Verdict("ERROR")
        [] data # << >> /\ ~HasHeaderEnd(data) -> NoHeaderEnd(data)
        [] HasHeaderEnd(data) ->
             IF p.line_end = 0 \/ p.first.path = "long" \/ ~LengthsValid(p.hs)
             THEN Verdict("ERROR")
             ELSE ParseBody(p, IF p.first.method = "POST" THEN ContentLength(p.hs) ELSE 0)

(* uhttp_parse_response *)
ParseResponse(data) ==
  LET p == Parts(data)
  IN  CASE data = << >> -> Verdict("ERROR")
        [] data # << >> /\ ~HasHeaderEnd(data) -> NoHeaderEnd(data)
        [] HasHeaderEnd(data) ->
             IF p.line_end = 0 \/ ~LengthsValid(p.hs) THEN Verdict("ERROR")
             ELSE ParseBody(p, ContentLength(p.hs))

Parse(data) == IF message.kind = "request" THEN ParseRequest(data) ELSE ParseResponse(data)

-----------------------------------------------------------------------------
HInit == message \in Requests \cup Responses /\ arrived = 0

(* More of the text comes in, any number of parts at once. *)
Arrive(n) ==
  /\ arrived + n <= Len(Build(message))
  /\ arrived' = arrived + n
  /\ UNCHANGED message

HNext == \E n \in 1 .. Len(Build(message)) : Arrive(n)

HSpec == HInit /\ [][HNext]_hvars

-----------------------------------------------------------------------------
Text    == Build(message)
SoFar   == SubSeq(Text, 1, arrived)
Complete == arrived = Len(Text)

(* Messages within the limits of the parser. *)
Fits ==
  /\ FindSequence(Text, <<CRLF, CRLF>>) + 1 <= UHTTP_MAX_HEADER_SIZE
  /\ message.body <= UHTTP_MAX_BODY_SIZE
  /\ message.kind = "request" => message.path = "short"

(***************************************************************************)
(* The parser waits for what is not there yet, and says the same of a text *)
(* however it was cut: no beginning of a message that fits is an error,    *)
(* and what was once read as a whole is not read otherwise later.          *)
(***************************************************************************)
WaitsForTheRest ==
  Fits /\ arrived > 0 =>
    /\ Parse(SoFar).verdict # "ERROR"
    /\ Parse(SoFar).verdict = "OK" => Parse(SoFar) = Parse(Text)

(***************************************************************************)
(* A response, and a POST request that has a header besides its length,    *)
(* come out with their body, and with the headers but the last as far as   *)
(* there was room.                                                         *)
(***************************************************************************)
RoundTrip ==
  Fits /\ Complete /\ (message.kind = "response" \/ message.headers # << >>) =>
    LET hs == IF message.kind = "request" THEN RequestHeaders(message) ELSE ResponseHeaders(message)
    IN  /\ Parse(Text).verdict = "OK"
        /\ message.kind = "response" \/ message.method = "POST" =>
             Parse(Text).body = Body(message.body)
        /\ IsPrefix(Parse(Text).headers, Front(hs))
        /\ Len(Parse(Text).headers) = IF Len(hs) - 1 < MAX_HEADERS THEN Len(hs) - 1 ELSE MAX_HEADERS
=============================================================================
