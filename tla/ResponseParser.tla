--------------------------- MODULE ResponseParser ---------------------------
(***************************************************************************)
(* HttpResponceParser of src/mumu/http/http_parser.cc over the machine of  *)
(* httpclient_parser.rl: a response that arrives in pieces, then the heads *)
(* of chunks, for which execute begins anew when its flag says so.  Cells, *)
(* tokens and what a callback is given of them are those of HttpSession.   *)
(***************************************************************************)
EXTENDS HttpSession

CONSTANTS
  Responses,     \* records with tokens, version and length
  ChunkSizes,    \* pairs of hexadecimal digits
  MaxChunks      \* bound

ASSUME ResponseAssumption ==
  /\ ChunkSizes \subseteq (0..15) \X (0..15)
  /\ \A r \in Responses :
       /\ r.tokens \in {SubSeq(<<"version", "status", "reason", "name", "value">>, 1, n) : n \in {3, 5}}
       /\ r.version \in {"1.0", "1.1"} /\ r.length \in Nat
       /\ Len(r.tokens) = 3 => r.length = 0

VARIABLES
  m_parser,      \* the machine, its content_len and chunks_done
  m_response,    \* m_data and m_error
  incoming,      \* the response, the chunks so far and the size of the one that comes
  read,          \* cells of the response, or of the chunk's head, given to execute
  torn           \* history: tokens of each that were cut, "flag" if execute was told wrong
responseVars == <<m_parser, m_response, incoming, read, torn>>

Untold == -1
ResponseInit ==
  /\ incoming \in [response : Responses, chunks : {0}, size : {<<>>}]
  /\ m_parser = [cs |-> "start", content_len |-> Untold, chunks_done |-> FALSE]
  /\ m_response = [version |-> "1.1", status |-> "whole", reason |-> "whole", length |-> 0, error |-> FALSE]
  /\ read = 0 /\ torn = [response |-> {}, chunk |-> {}]

(* The version is compared with "HTTP/1.1" and with "HTTp/1.0". *)
ResponseVersion(r, given) ==
  IF given = "empty" \/ (given = "whole" /\ r.version = "1.1") THEN "1.1" ELSE "invalid"
Answered(r, data, from, to) ==
  LET done(name) == {i \in TokenAt(r, name) : StopCell(r, i) \in from + 1 .. to}
      of(name, old) == IF done(name) = {} THEN old ELSE Given(r, CHOOSE i \in done(name) : TRUE, from)
      version == IF done("version") = {} THEN data.version ELSE ResponseVersion(r, of("version", "none"))
  IN [version |-> IF version = "invalid" THEN data.version ELSE version,
      status  |-> of("status", data.status),
      reason  |-> of("reason", data.reason),
      length  |-> IF done("value") # {} /\ \A i \in TokenAt(r, "name") : FirstCell(r, i) > from
                  THEN r.length ELSE data.length,
      error   |-> data.error \/ version = "invalid"]

HasError == m_parser.cs = "error" \/ m_response.error
ExecuteHead(to) ==
  LET r == incoming.response
  IN /\ incoming.size = <<>> /\ m_parser.cs # "final" /\ ~HasError
     /\ to \in read + 1 .. HeadEnd(r) /\ read' = to
     /\ m_response' = Answered(r, m_response, read, to)
     /\ m_parser' = [m_parser EXCEPT !.cs = IF to = HeadEnd(r) THEN "final" ELSE "inside"]
     /\ torn' = [torn EXCEPT !.response = @ \cup Cut(r, to)]
     /\ UNCHANGED incoming

(* The reader has had the body so far; the head of the next chunk comes. *)
NextChunk ==
  /\ m_parser.cs = "final" /\ ~m_parser.chunks_done /\ ~HasError
  /\ incoming.chunks < MaxChunks
  /\ \E size \in ChunkSizes : incoming' = [incoming EXCEPT !.chunks = @ + 1, !.size = size]
  /\ read' = 0 /\ torn' = [torn EXCEPT !.chunk = {}]
  /\ UNCHANGED <<m_parser, m_response>>

SizeOf(digits) == 16 * digits[1] + digits[2]
ChunkHead == [tokens |-> <<"size">>]
(* strtol from the mark: a size that was cut is its last digit, or whatever comes behind it. *)
SizesRead(given) ==
  CASE given = "whole" -> {SizeOf(incoming.size)}
    [] given = "tail"  -> {incoming.size[2]}
    [] OTHER           -> {0} \cup {SizeOf(size) : size \in ChunkSizes}
ExecuteChunk(chunck, to) ==
  LET begun == IF chunck THEN [cs |-> "start", content_len |-> Untold, chunks_done |-> FALSE] ELSE m_parser
      fails == begun.cs = "final" \/ (chunck /\ read = 2)   \* a head cannot follow, or begin with its end
  IN /\ incoming.size # <<>> /\ ~HasError /\ read < 3 /\ to \in read + 1 .. 3
     /\ IF fails THEN m_parser' = [begun EXCEPT !.cs = "error"]
        ELSE IF to < 3 THEN m_parser' = [begun EXCEPT !.cs = "inside"]
        ELSE \E size \in SizesRead(Given(ChunkHead, 1, read)) :
               m_parser' = [cs |-> "final", content_len |-> size, chunks_done |-> size <= 0]
     /\ read' = IF fails THEN read ELSE to
     /\ torn' = [torn EXCEPT !.chunk = @ \cup Cut(ChunkHead, to) \cup IF chunck = (read = 0) THEN {} ELSE {"flag"}]
     /\ UNCHANGED <<m_response, incoming>>

ResponseNext ==
  \/ NextChunk
  \/ \E to \in 1..16 : ExecuteHead(to) \/ \E chunck \in BOOLEAN : ExecuteChunk(chunck, to)

ResponseSpec == ResponseInit /\ [][ResponseNext]_responseVars

-----------------------------------------------------------------------------
ResponseTypeOK ==
  /\ m_parser.cs \in {"start", "inside", "final", "error"} /\ m_parser.content_len \in Int
  /\ read \in 0..HeadEnd(incoming.response) /\ incoming.chunks \in 0..MaxChunks

(* The response that was parsed is the one that came, but for tokens that a piece cut and for
   version 1.0, which is refused; chunks leave it as it is; the size of a chunk is the one that
   came, and the last chunk the one of size 0, unless the size was cut, which makes another size
   of it, or the end of the body; and the machine fails only on a size that was cut, or when it
   was told to begin anew in the middle, or to go on at a new head (http_parser.cc:238-245). *)
ResponseIntact ==
  LET r == incoming.response
      ended == m_parser.cs = "final" \/ incoming.size # <<>>
  IN /\ m_response.error => r.version # "1.1" \/ "version" \in torn.response
     /\ ended /\ ~m_response.error =>
          /\ m_response.version = r.version \/ "versionEnd" \in torn.response
          /\ m_response.status = "whole" \/ "status" \in torn.response
          /\ m_response.reason = "whole" \/ "reason" \in torn.response
          /\ m_response.length = r.length \/ {"name", "value"} \cap torn.response # {}
     /\ incoming.size # <<>> /\ m_parser.cs = "final" /\ read = 3 =>
          \/ m_parser.content_len = SizeOf(incoming.size) /\ m_parser.chunks_done = (SizeOf(incoming.size) = 0)
          \/ "size" \in torn.chunk
     /\ m_parser.cs = "error" => "flag" \in torn.chunk

(* A message is handed on as it came, however the reads cut it, but for the named exceptions: a
   request to its servlet, a response and the sizes of its chunks to the caller of execute
   (http_session.cc:24-76, http_parser.cc:238-245). *)
MessagesIntact == RequestIntact /\ ResponseIntact
=============================================================================
