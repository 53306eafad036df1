---------------------------- MODULE HttpSession -----------------------------
(***************************************************************************)
(* A connection of src/mumu/http: handleClient reads a request, answers it *)
(* and closes.  The request arrives in pieces; every piece is parsed as it *)
(* comes (http_session.cc:24-50), and the Ragel machine keeps its state    *)
(* but not the marks where a token began (http11_parser.rl:283-286), so a  *)
(* token that a read cuts loses what came before.  The mark of the query   *)
(* alone is not reset: it stays an offset into a piece that is gone.       *)
(* Bytes are abstracted to cells: a token is its first byte, its other     *)
(* bytes and the delimiter behind it, whose arrival makes the machine call *)
(* back with the token.                                                    *)
(***************************************************************************)
EXTENDS Integers, Sequences, FiniteSets, SequencesExt

CONSTANTS
  Conns,
  Requests,    \* what peers may send: records with tokens, method, version, length and body
  Methods,     \* HTTP_METHOD_MAP
  TailOf,      \* of a method: what charsToHttpMethod makes of it without its first bytes
  Arrivals,    \* bound: after how many cells what has arrived may pause
  BuffSize,    \* s_http_request_buffer_size, in cells
  MaxInt,      \* the largest length that an int holds
  IoThreads    \* threads of m_ioWorker

ASSUME SessionAssumption ==
  /\ Arrivals \subseteq Nat /\ BuffSize \in Nat \ {0} /\ MaxInt \in Nat \ {0} /\ IoThreads \in Nat \ {0}
  /\ TailOf \in [Methods -> Methods \cup {"invalid"}] /\ "invalid" \notin Methods
  /\ \A r \in Requests :
       /\ \E uri \in {<<>>, <<"query">>, <<"fragment">>, <<"query", "fragment">>},
             header \in {<<>>, <<"name", "value">>} :
            /\ r.tokens = <<"method", "path">> \o uri \o <<"version">> \o header
            /\ header = <<>> => r.length = 0        \* no header declares a length
       /\ r.method \in Methods /\ r.version \in {"1.0", "1.1"}
       /\ r.length \in Nat /\ r.body \in Nat

VARIABLES
  session,   \* of each connection: its fiber's place and what it has read
  ioQueue,   \* connections whose fiber waits for a thread of m_ioWorker
  arrived,   \* of each connection: cells in the kernel's buffer or read from it
  finished,  \* connections whose peer sends no more
  request    \* of each connection: the request its peer sends

sessionVars == <<session, ioQueue, arrived, finished, request>>

(* Where the cells of a request are. *)
FirstCell(r, i) == 3 * i - 2
StopCell(r, i) == 3 * i
HeadEnd(r) == 3 * Len(r.tokens) + 1
Total(r) == HeadEnd(r) + r.body
TokenAt(r, name) == {i \in DOMAIN r.tokens : r.tokens[i] = name}

(* The parts of a request that the callbacks set, with HttpRequest's defaults; and what
   is left of query_start, if the query began behind the first byte of its piece. *)
Unset == [method |-> "GET", path |-> "default", query |-> "none", fragment |-> "none",
          version |-> "1.1", length |-> 0, error |-> FALSE, behind |-> FALSE]
Fresh == [pc |-> "none", taken |-> 0, head |-> Unset, left |-> 0, body |-> 0, cuts |-> {}]

SessionInit ==
  /\ session = [c \in Conns |-> Fresh] /\ ioQueue = <<>>
  /\ arrived = [c \in Conns |-> 0] /\ finished = {}
  /\ request \in [Conns -> Requests]

Running == {c \in Conns : session[c].pc \in {"recv", "body", "handle", "send", "close"}}

(* schedule of handleClient by the accepting fiber, then a thread takes it. *)
Arrive(c) ==
  /\ session[c].pc = "none"
  /\ session' = [session EXCEPT ![c].pc = "queued"]
  /\ ioQueue' = Append(ioQueue, c)
  /\ UNCHANGED <<arrived, finished, request>>

Resume ==
  /\ ioQueue # <<>> /\ Cardinality(Running) < IoThreads
  /\ LET c == Head(ioQueue) IN
     session' = [session EXCEPT ![c].pc =
                   CASE @ \in {"queued", "woken_recv"} -> "recv"
                     [] @ = "woken_body" -> "body" [] @ = "woken_send" -> "send"
                     [] @ = "timed_out" -> "close"]
  /\ ioQueue' = Tail(ioQueue)
  /\ UNCHANGED <<arrived, finished, request>>

Goto(c, pc) == session' = [session EXCEPT ![c].pc = pc] /\ UNCHANGED <<ioQueue, arrived, finished, request>>
Available(c) == arrived[c] - session[c].taken

GivenLate(r, i, from) ==       \* mutant: a token that begins the piece counts as cut
  IF FirstCell(r, i) > from + 1 THEN "whole" ELSE IF StopCell(r, i) = from + 1 THEN "empty" ELSE "tail"
(* What a callback is given of token i when the piece begins behind cell `from`. *)
Given(r, i, from) ==
  IF FirstCell(r, i) > from THEN "whole" ELSE IF StopCell(r, i) = from + 1 THEN "empty" ELSE "tail"

(* What on_request_query may be given.  Of a query whose first byte came in an earlier
   piece it gets the bytes of this one from the old offset on; when there are fewer before
   the delimiter, the length wraps and std::string throws.  How many bytes a cell stands
   for is open, so both may happen unless one of the two counts is 0. *)
QueriesGiven(r, head, from, to) ==
  LET done == {i \in TokenAt(r, "query") : StopCell(r, i) \in from + 1 .. to}
      given == Given(r, CHOOSE i \in done : TRUE, from)
  IN IF done = {} THEN {head.query}
     ELSE IF given = "whole" \/ ~head.behind THEN {given}
     ELSE IF given = "empty" THEN {"thrown"} ELSE {"tail", "empty", "thrown"}

Method(r, given) ==
  IF given = "whole" THEN r.method ELSE IF given = "empty" THEN "invalid" ELSE TailOf[r.method]

(* strncmp with the length of the token: nothing left of it compares equal to HTTP/1.1. *)
Version(r, given) ==
  IF given = "whole" THEN r.version ELSE IF given = "empty" THEN "1.1" ELSE "invalid"

(* http_parser_execute over the cells from+1..to, with the callbacks of the tokens whose
   delimiter is among them.  A field whose name began in an earlier piece is dropped or
   kept under another name. *)
Parsed(r, head, from, to, query) ==
  LET done(name) == {i \in TokenAt(r, name) : StopCell(r, i) \in from + 1 .. to}
      of(name) == Given(r, CHOOSE i \in done(name) : TRUE, from)
      method  == IF done("method") = {} THEN head.method ELSE Method(r, of("method"))
      version == IF done("version") = {} THEN head.version ELSE Version(r, of("version"))
      kept(new, old) == IF new = "invalid" THEN old ELSE new
  IN [method  |-> kept(method, head.method),
      path    |-> IF done("path") = {} THEN head.path ELSE of("path"),
      query   |-> query,
      fragment |-> IF done("fragment") = {} THEN head.fragment ELSE of("fragment"),
      version |-> kept(version, head.version),
      length  |-> IF done("value") # {} /\ \A i \in TokenAt(r, "name") : FirstCell(r, i) > from
                  THEN r.length ELSE head.length,
      error   |-> head.error \/ "invalid" \in {method, version},
      behind  |-> head.behind \/ \E i \in TokenAt(r, "query") : FirstCell(r, i) \in from + 2 .. to]

(* History: the tokens that a read which ends at `to` leaves incomplete; a version of
   which only the delimiter is missing is told apart. *)
Cut(r, to) ==
  {IF r.tokens[i] = "version" /\ StopCell(r, i) = to + 1 THEN "versionEnd" ELSE r.tokens[i] :
     i \in {j \in DOMAIN r.tokens : to \in FirstCell(r, j) .. StopCell(r, j) - (IF r.tokens[j] = "name" THEN 0 ELSE 1)}}

(* int length = getcontentLength(), which is 64 bits wide. *)
AsInt(v) == ((v + MaxInt + 1) % (2 * (MaxInt + 1))) - (MaxInt + 1)

(* What recvRequest makes of a piece that ends at `to`.  An exception of the parser
   leaves recvRequest and handleClient, and the fiber ends with its session, whose
   destructor closes the socket. *)
AfterPiece(r, s, to, query) ==
  LET upto == IF to < HeadEnd(r) THEN to ELSE HeadEnd(r)
      head == Parsed(r, s.head, s.taken, upto, query)
      int  == IF AsInt(head.length) > 0 THEN AsInt(head.length) ELSE 0
      rest == to - upto
  IN [s EXCEPT !.taken = to, !.head = head, !.cuts = @ \cup Cut(r, to),
               !.pc = IF head.error \/ query = "thrown" THEN "close"
                      ELSE IF to < HeadEnd(r) THEN "recv"
                      ELSE IF int > rest THEN "body" ELSE "handle",
               !.left = IF int > rest THEN int - rest ELSE 0,
               !.body = IF int > rest THEN rest ELSE int]

(* A call parks, or it parks when the timer of its time-out has fired already and found
   nothing to cancel, so that none will come (hook.cc:117 and 127). *)
Park(c, parked, missed) == \E pc \in {parked, missed} : session' = [session EXCEPT ![c].pc = pc]

(* read() of recvRequest: a piece of what has arrived, the end of the stream, or park. *)
Recv(c) ==
  LET s == session[c]
      r == request[c]
      to == s.taken + (IF Available(c) < BuffSize THEN Available(c) ELSE BuffSize)
      upto == IF to < HeadEnd(r) THEN to ELSE HeadEnd(r)
  IN /\ s.pc = "recv"
     /\ \/ /\ to > s.taken
           /\ \E query \in QueriesGiven(r, s.head, s.taken, upto) :
                session' = [session EXCEPT ![c] = AfterPiece(r, s, to, query)]
        \/ to = s.taken /\ c \notin finished /\ Park(c, "parked_recv", "missed_recv")
        \/ \* read returns 0: nothing to parse, no error, the loop goes on
           to = s.taken /\ c \in finished /\ UNCHANGED session
     /\ UNCHANGED <<ioQueue, arrived, finished, request>>

(* readFixSize for the rest of the body; the end of the stream closes. *)
ReadBody(c) ==
  LET s == session[c]
      n == IF Available(c) < s.left THEN Available(c) ELSE s.left
  IN /\ s.pc = "body"
     /\ \/ /\ n > 0
           /\ session' = [session EXCEPT ![c] =
                [s EXCEPT !.taken = @ + n, !.left = @ - n, !.body = @ + n,
                          !.pc = IF n = s.left THEN "handle" ELSE "body"]]
        \/ n = 0 /\ c \notin finished /\ Park(c, "parked_body", "missed_body")
        \/ n = 0 /\ c \in finished /\ session' = [session EXCEPT ![c].pc = "close"]
     /\ UNCHANGED <<ioQueue, arrived, finished, request>>

(* The servlet, then sendResponse, which parks while the peer does not read: SO_RCVTIMEO
   is set on an accepted socket, SO_SNDTIMEO is not. *)
Handle(c) == session[c].pc = "handle" /\ Goto(c, "send")
SendResponse(c) ==
  /\ session[c].pc = "send"
  /\ \/ Goto(c, "close")
     \/ Goto(c, "parked_send")

(* m_close of an HttpRequest is true whatever its headers say: one request, then close. *)
CloseSession(c) == session[c].pc = "close" /\ Goto(c, "closed")

(* epoll reports the socket, or the timer of SO_RCVTIMEO fires. *)
Schedule(c, pc) ==
  /\ session' = [session EXCEPT ![c].pc = pc]
  /\ ioQueue' = Append(ioQueue, c)
  /\ UNCHANGED <<arrived, finished, request>>
Readable(c) == Available(c) > 0 \/ c \in finished
Wake(c) ==
  \/ session[c].pc \in {"parked_recv", "missed_recv"} /\ Readable(c) /\ Schedule(c, "woken_recv")
  \/ session[c].pc \in {"parked_body", "missed_body"} /\ Readable(c) /\ Schedule(c, "woken_body")
  \/ session[c].pc = "parked_send" /\ Schedule(c, "woken_send")

TimeoutOfHead(c) == session[c].pc = "parked_recv" /\ Schedule(c, "timed_out")   \* mutant: none for the body
Timeout(c) == session[c].pc \in {"parked_recv", "parked_body"} /\ Schedule(c, "timed_out")

(* The peer. *)
PeerSends(c) ==
  /\ c \notin finished
  /\ \E n \in (Arrivals \cap 1 .. Total(request[c])) \cup {Total(request[c])} :
       n > arrived[c] /\ arrived' = [arrived EXCEPT ![c] = n]
  /\ UNCHANGED <<session, ioQueue, finished, request>>
PeerShuts(c) ==
  /\ c \notin finished
  /\ finished' = finished \cup {c}
  /\ UNCHANGED <<session, ioQueue, arrived, request>>

SessionStep(c) ==
  Recv(c) \/ ReadBody(c) \/ Handle(c) \/ SendResponse(c) \/ CloseSession(c)
SessionNext ==
  \/ Resume
  \/ \E c \in Conns : SessionStep(c) \/ Wake(c) \/ Timeout(c) \/ PeerSends(c) \/ PeerShuts(c)

(* Threads go on, the kernel reports and timers fire; nothing is asked of a peer,
   who may never read the response. *)
SessionFairness ==
  /\ WF_sessionVars(Resume)
  /\ \A c \in Conns : /\ WF_sessionVars(SessionStep(c)) /\ WF_sessionVars(Timeout(c))

Spins(c) == session[c].pc = "recv" /\ Available(c) = 0 /\ c \in finished

-----------------------------------------------------------------------------
(* Types. *)
SessionTypeOK ==
  /\ \A c \in Conns :
       /\ session[c].pc \in {"none", "queued", "recv", "parked_recv", "missed_recv", "woken_recv",
                             "body", "parked_body", "missed_body", "woken_body", "timed_out",
                             "handle", "send", "parked_send", "woken_send", "close", "closed"}
       /\ session[c].taken <= arrived[c] /\ arrived[c] <= Total(request[c])
       /\ session[c].head.method \in Methods /\ session[c].left \in Nat /\ session[c].body \in Nat
  /\ ToSet(ioQueue) \subseteq Conns /\ finished \subseteq Conns /\ request \in [Conns -> Requests]
  /\ Cardinality(Running) <= IoThreads

(* A servlet is handed the request the peer sent, however the reads cut it, but for what
   follows from the marks: a method cut is refused or, if its end is a method too, taken
   for that one (UNLOCK for LOCK); a path and a fragment keep their end; a query keeps
   its end, a part of it or nothing; a version that lacks only the line end counts as
   1.1, and is refused when cut elsewhere; a content-length cut anywhere, from its name
   on, is not there.  What was not sent is not there either. *)
HandedAsSent ==
  \A c \in Conns :
    LET s == session[c]
        r == request[c]
        Sent(name) == IF TokenAt(r, name) = {} THEN "none" ELSE "whole"
    IN s.pc = "handle" =>
         /\ s.head.method = r.method \/ ("method" \in s.cuts /\ s.head.method = TailOf[r.method])
         /\ s.head.path = "whole" \/ "path" \in s.cuts
         /\ s.head.query = Sent("query") \/ "query" \in s.cuts
         /\ s.head.fragment = Sent("fragment") \/ "fragment" \in s.cuts
         /\ s.head.version = r.version \/ "versionEnd" \in s.cuts
         /\ s.head.length = r.length \/ s.cuts \cap {"name", "value"} # {}

(* No request is refused, with an error of the parser or by the exception of
   on_request_query, unless a read cut its method, its query or its version. *)
RefusedWhenCut ==
  \A c \in Conns :
    LET s == session[c]
    IN s.head.error \/ s.head.query = "thrown" => s.cuts \cap {"method", "query", "version"} # {}

(* The body it is handed is as long as the content-length it is handed, however much of
   it came with the head, and is shorter only for a length that an int does not hold. *)
BodyAsDeclared ==
  \A c \in Conns :
    LET s == session[c]
    IN s.pc = "handle" => s.body = s.head.length \/ (s.head.length > MaxInt /\ s.body < s.head.length)

(* Every accepted connection is closed in the end.  Exceptions: a peer that shuts before
   its head is complete (read gives 0, which recvRequest takes for no data: the fiber
   spins and keeps its thread, http_session.cc:30), enough of those to hold every thread,
   a peer that does not read its response, and one that sends no more to a read whose
   time-out was missed. *)
SessionEnds ==
  \A c \in Conns :
    (session[c].pc # "none") ~>
      \/ session[c].pc \in {"closed", "parked_send", "missed_recv", "missed_body"}
      \/ Spins(c)
      \/ Cardinality({d \in Conns : Spins(d)}) >= IoThreads

(* The request a servlet is handed is the one that was sent, head and body, and every
   request is handed on, but for the named cuts. *)
RequestIntact == HandedAsSent /\ RefusedWhenCut /\ BodyAsDeclared
=============================================================================
