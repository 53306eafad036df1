---------------------------- MODULE HttpMessage -----------------------------
(***************************************************************************)
(* HttpRequest and HttpResponce of src/mumu/http/http.cc: a message is put *)
(* together by its setters and dumped as lines; a reader of HTTP on the    *)
(* other side takes the last line of a name, and as much body as           *)
(* content-length tells.  Names that differ in case are one name, as       *)
(* CaseInsensitiveLess has it.                                             *)
(***************************************************************************)
EXTENDS Integers, Sequences, SequencesExt, FiniteSetsExt

CONSTANTS
  HeaderNames, HeaderValues,  \* "connection" and "content-length" among the names
  Bodies                      \* lengths of bodies

ASSUME MessageAssumption ==
  /\ {"connection", "content-length", "connect-length", "location"} \subseteq HeaderNames
  /\ IsFiniteSet(HeaderNames) /\ Bodies \subseteq Nat /\ Bodies \subseteq HeaderValues

VARIABLES
  message,  \* the members of the object
  wire      \* what dump() wrote, or Unsent

messageVars == <<message, wire>>

NoValue == -1
CloseValue == -2
KeepValue == -3
Values == HeaderValues \cup {NoValue, CloseValue, KeepValue}
Unsent == [lines |-> <<>>, body |-> 0, sent |-> FALSE]

NewMessage(kind) ==
  [kind |-> kind, m_status |-> "OK", m_close |-> TRUE, m_websocket |-> FALSE, m_body |-> 0,
   m_headers |-> [n \in HeaderNames |-> NoValue]]

MessageInit == wire = Unsent /\ \E kind \in {"request", "response"} : message = NewMessage(kind)

SetHeader(n, v) == message' = [message EXCEPT !.m_headers[n] = v]
DelHeader(n) == message' = [message EXCEPT !.m_headers[n] = NoValue]
SetBody(b) == message' = [message EXCEPT !.m_body = b]
SetClose(c) == message' = [message EXCEPT !.m_close = c]
SetWebsocket(w) == message' = [message EXCEPT !.m_websocket = w]
(* setCookie of a response only fills a stream of its own. *)
SetRedirect(v) ==
  /\ message.kind = "response"
  /\ message' = [message EXCEPT !.m_status = "FOUND", !.m_headers["location"] = v]

(* The header lines, in the order of the map, with "connection" left to m_close unless it is a websocket. *)
HeaderLines(m) ==
  LET told == {n \in HeaderNames : m.m_headers[n] # NoValue /\ (m.m_websocket \/ n # "connection")}
  IN [i \in 1..Len(SetToSeq(told)) |-> <<SetToSeq(told)[i], m.m_headers[SetToSeq(told)[i]]>>]
ConnectionLine(m) == IF m.m_websocket THEN <<>> ELSE <<<<"connection", IF m.m_close THEN CloseValue ELSE KeepValue>>>>
LengthLine(m, name) == IF m.m_body = 0 THEN <<>> ELSE <<<<name, m.m_body>>>>

DumpRequest(m) == ConnectionLine(m) \o HeaderLines(m) \o LengthLine(m, "connect-length")
DumpResponse(m) == HeaderLines(m) \o ConnectionLine(m) \o LengthLine(m, "content-length")

Dump ==
  /\ wire' = [lines |-> IF message.kind = "request" THEN DumpRequest(message) ELSE DumpResponse(message),
              body |-> message.m_body, sent |-> TRUE]
  /\ UNCHANGED message

MessageNext ==
  /\ ~wire.sent
  /\ \/ UNCHANGED wire /\
        \/ \E n \in HeaderNames : DelHeader(n) \/ \E v \in HeaderValues : SetHeader(n, v)
        \/ \E b \in Bodies : SetBody(b)
        \/ \E c \in BOOLEAN : SetClose(c) \/ SetWebsocket(c)
        \/ \E v \in HeaderValues : SetRedirect(v)
     \/ Dump

MessageSpec == MessageInit /\ [][MessageNext]_messageVars

-----------------------------------------------------------------------------
MessageTypeOK ==
  /\ message.m_headers \in [HeaderNames -> Values] /\ message.m_body \in Bodies
  /\ message.m_status \in {"OK", "FOUND"} /\ {message.m_close, message.m_websocket, wire.sent} \subseteq BOOLEAN
  /\ \A i \in DOMAIN wire.lines : wire.lines[i] \in HeaderNames \X Values

(* The reader. *)
ReadHeader(n) ==
  IF \E i \in DOMAIN wire.lines : wire.lines[i][1] = n
  THEN LET last == CHOOSE i \in DOMAIN wire.lines :
                     wire.lines[i][1] = n /\ \A j \in DOMAIN wire.lines : j > i => wire.lines[j][1] # n
       IN wire.lines[last][2]
  ELSE NoValue
BodyTold == LET told == ReadHeader("content-length") IN IF told = NoValue THEN 0 ELSE told

(* What was set is read on the other side: every header, whether the connection closes, and the
   length of the body, of a response whatever content-length was set by hand before, of a request
   only if it was set to the length of the body (HttpRequest::dump writes "connect-length").
   A length set by hand and no body is for the caller to avoid. *)
MessagesRead ==
  wire.sent =>
    /\ \A n \in HeaderNames \ {"connection", "content-length", "connect-length"} :
         ReadHeader(n) = message.m_headers[n]
    /\ ReadHeader("connection") = IF message.m_websocket THEN message.m_headers["connection"]
                                    ELSE IF message.m_close THEN CloseValue ELSE KeepValue
    /\ \/ message.kind = "response" /\ wire.body # 0
       \/ message.m_headers["content-length"] = (IF wire.body = 0 THEN NoValue ELSE wire.body)
       => BodyTold = wire.body
=============================================================================
