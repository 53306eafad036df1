----------------------------- MODULE MCLibrary ------------------------------
(***************************************************************************)
(* The parts of the library that do not run on the scheduler, in one       *)
(* instance each: a behaviour is one part's, which `piece` names; the      *)
(* others stay in their initial state.                                     *)
(***************************************************************************)
EXTENDS ByteArray, TypedBytes, FdTable, ContextTable, ConfigVar, LogText,
        ServletDispatch, ResponseParser, HttpMessage, NetAddress, TextCodec, ConfigText, Configuration,
        SystemObjects, TLC

CONSTANTS b1, b2, h1, h2, t1, t2, w1, w2, u1, u2, s1, s2   \* model values

VARIABLE piece
fileVars == <<shownVars, registryVars>>
clientVars == <<threadVars, responseVars>>
supportVars == <<transferVars, appenderVars, clientVars, logsReadVars>>
libVars == <<piece, baVars, tbVars, fdVars, tableVars, cvVars, logVars, patternVars, dispatchVars,
             sessionVars, messageVars, sockVars, addressVars, fsVars, codecVars, fileVars, supportVars>>

MCBirths == (2 :> 1) @@ (3 :> 2) @@ (4 :> 1)

File1 == [file |-> "f1", format |-> "none"]
File2 == [file |-> "f2", format |-> "own"]
File2Bad == [file |-> "f2", format |-> "bad"]
Def(level, format, appenders) ==
  [level |-> level, format |-> format, appenders |-> appenders, defined |-> TRUE]
Logs(root, system) == [n \in LoggerNames |-> IF n = "root" THEN root ELSE system]
MCSettings ==
  {Logs(NoDef, Def(2, "plain", <<File1>>)),
   Logs(Def(1, "none", <<File1>>), Def(3, "bad", <<File1, File2>>)),
   Logs(Def(2, "plain", <<File1, File2Bad>>), NoDef),
   Logs(NoDef, NoDef)}

(* Values around the powers of two of some widths, the ends of the range, and strings of which
   one is longer than a stringF16 can say. *)
TestedBits == {4}
MCAround(bits) ==
  {0, 1, 2^bits - 1} \cup UNION {{2^w - 1, 2^w, 2^w + 1} : w \in {w \in TestedBits : w < bits}}
MCStrings == {<<>>, <<3>>, <<5, 6>>, [i \in 1..TbByte^2 + 1 |-> 1]}
MCTbValues(type) ==
  CASE type \in DOMAIN FixedBytes -> MCAround(3 * FixedBytes[type])
    [] type \in Signed ->
         {v - 2^(VarintBits[type] - 1) : v \in MCAround(VarintBits[type])} \cup {-2, -1, 0, 1}
    [] type \in DOMAIN VarintBits \ Signed -> MCAround(VarintBits[type])
    [] OTHER -> MCStrings

MCMatches(glob, path) == glob = "/*" \/ (glob = "/api/*" /\ path = "/api/x")

MCRequest(uri, header, method, version, length, body) ==
  [tokens |-> <<"method", "path">> \o uri \o <<"version">> \o header,
   method |-> method, version |-> version, length |-> length, body |-> body]
MCHeader == <<"name", "value">>
MCRequests ==
  {MCRequest(<<>>, MCHeader, "UNLOCK", "1.0", 2, 2), MCRequest(<<"query">>, <<>>, "GET", "1.1", 0, 0),
   MCRequest(<<"fragment">>, MCHeader, "GET", "1.1", 4, 1),
   MCRequest(<<"query", "fragment">>, <<>>, "GET", "1.0", 0, 0),
   MCRequest(<<>>, MCHeader, "GET", "1.1", 9, 3), MCRequest(<<>>, MCHeader, "GET", "1.0", 2, 3)}
MCResponse(tokens, version, length) ==
  [tokens |-> SubSeq(<<"version", "status", "reason", "name", "value">>, 1, tokens),
   version |-> version, length |-> length]
MCResponses == {MCResponse(3, "1.1", 0), MCResponse(5, "1.1", 2), MCResponse(5, "1.0", 2)}
MCChunkSizes == {<<0, 0>>, <<1, 0>>, <<1, 1>>}
MCTailOf == [m \in Methods |-> IF m = "UNLOCK" THEN "LOCK" ELSE "invalid"]

MCPaths == {<<"a">>, <<"a", "b">>, <<"a", "b", "x">>, <<"a", "c">>, <<"d">>}
MCTree(there) == [p \in MCPaths |-> IF p \in DOMAIN there THEN there[p] ELSE "none"]
MCFull == (<<"a">> :> "dir") @@ (<<"a", "b">> :> "dir") @@ (<<"a", "b", "x">> :> "old") @@ (<<"a", "c">> :> "old")
MCTrees == {MCTree(<<>>), MCTree(MCFull), MCTree([MCFull EXCEPT ![<<"a", "b", "x">>] = "sock"]),
            MCTree(<<"a">> :> "old")}
MCCall(o, path, from) == [op |-> o, path |-> path, from |-> from]
MCCalls ==
  {MCCall("Mkdir", <<"a", "b">>, <<>>), MCCall("Open", <<"a", "b", "x">>, <<>>), MCCall("Open", <<"a", "c">>, <<>>),
   MCCall("Mkdir", <<"a", "b", "x">>, <<>>), MCCall("Open", <<"a", "b">>, <<>>),
   MCCall("Rm", <<"a">>, <<>>), MCCall("Rm", <<"a", "b">>, <<>>), MCCall("Symlink", <<"a", "c">>, <<"d">>),
   MCCall("Mv", <<"d">>, <<"a", "b">>), MCCall("Mv", <<"a", "c">>, <<"a", "b", "x">>),
   MCCall("Mv", <<"a", "c">>, <<"a", "c">>)}

MCBase64Texts ==
  UNION {[1..m -> {0, 5, -1, -2}] : m \in 0..5} \cup [1..8 -> {5, -1}]
MCReplacements ==
  {<<<<14>>, <<>>>>, <<<<14>>, <<3, 3>>>>, <<<<14>>, <<14, 14>>>>, <<<<3, 14>>, <<14>>>>, <<<<14, 14>>, <<5>>>>}
MCScalars == {[is |-> "scalar", v |-> "x", number |-> FALSE], [is |-> "scalar", v |-> "7", number |-> TRUE],
              [is |-> "null"]}
MCContainers(nodes) ==
  {[is |-> "sequence", of |-> s] : s \in BoundedSeq(nodes, 2)}
  \cup {[is |-> "map", of |-> m] : m \in UNION {[keys -> nodes] : keys \in SUBSET {"j", "k"}}}
MCJsonNodes == MCScalars \cup MCContainers(MCScalars) \cup MCContainers(MCContainers({[is |-> "null"], [is |-> "scalar", v |-> "x", number |-> FALSE]}))
MCDelimiters == {{14}, {3, 14}}

LogAppenders ==
  {[type |-> type, file |-> file, level |-> 2, formatter |-> "none"] :
     type \in {"FileLogAppender", "StdoutLogAppender", "SyslogAppender", "none"}, file \in {"none", "f"}}
LogNodes(names, levels, formatters, appenders) ==
  [name : names, level : levels, formatter : formatters, appenders : BoundedSeq(appenders, 2)]
MCLogTexts ==
  {<<n>> : n \in LogNodes({"none", "a"}, {NoLevel, 2, 9}, {"none", "x"}, LogAppenders)}
  \cup {<<n, m>> : n, m \in LogNodes({"none", "a", "b"}, {2, 3}, {"none"}, {[type |-> "StdoutLogAppender", file |-> "none", level |-> 0, formatter |-> "none"]})}

MCKnownItems == {<<"d">>}
MCFamilyOf == (1 :> "v4") @@ (2 :> "v6")

IntType == [c |-> "int"]
StringType == [c |-> "string"]
Of(c, e) == [c |-> c, e |-> e]
Containers == {"vector", "list"}
MCTypedValues ==
  {<<IntType, "1">>, <<StringType, "">>}
  \cup {<<Of(c, IntType), v>> : c \in Containers, v \in BoundedSeq({"1", "2"}, 2)}
  \cup {<<Of(c, StringType), v>> : c \in Containers, v \in BoundedSeq({"x", ""}, 2)}
  \cup {<<Of("set", IntType), v>> : v \in SUBSET {"1", "2"}}
  \cup {<<Of("map", IntType), v>> : v \in UNION {[keys -> {"1", "2"}] : keys \in SUBSET {"j", "k"}}}
  \cup {<<Of(c, Of("map", IntType)), <<"k" :> "1", "j" :> "2">>>> : c \in Containers}
  \cup {<<Of("set", Of("vector", IntType)), {<<"1">>, <<"2">>}>>}
  \cup {<<Of("map", Of(c, IntType)), "k" :> <<"1", "2">>>> : c \in Containers}
MCDefaults(type) == IF type.c = "int" THEN "1" ELSE <<>>
MCTypesOf(name) ==
  CASE name = <<"a">> -> {Of("map", IntType)} [] name = <<"c">> -> {Of("vector", IntType)} [] OTHER -> {IntType}
MapOf(entries) == [is |-> "map", of |-> entries]
ListOf(nodes) == [is |-> "sequence", of |-> nodes]
Key(name, node) == [key |-> name, node |-> node]
(* a name that is there twice, a branch that is not valid, values that their types refuse *)
MCYamlFiles ==
  {MapOf(<<Key(<<"a", "b">>, ScalarNode("2")), Key(<<"a">>, MapOf(<<Key(<<"b">>, ScalarNode("1"))>>)),
           Key(<<"c">>, ListOf(<<ScalarNode("1"), ScalarNode("2")>>))>>),
   MapOf(<<Key(<<"c">>, ScalarNode("2")), Key(<<"a">>, MapOf(<<Key(<<"b">>, ScalarNode("x"))>>)),
           Key(<<"A">>, MapOf(<<Key(<<"b">>, ScalarNode("2"))>>))>>),
   MapOf(<<Key(<<"a">>, ListOf(<<ScalarNode("2")>>)), Key(<<"c">>, MapOf(<<Key(<<"b">>, ScalarNode("1"))>>))>>)}
MCLowerOf(part) == IF part = "A" THEN "a" ELSE part
MCSettingNames == {<<"a">>, <<"a", "b">>, <<"c">>, <<"A", "b">>}

(* Swapping every pair of interchangeable values at once maps each piece to itself: bytes and
   objects are only copied and compared, and neither threads nor objects are chosen by order. *)
Paired == {b1, b2, h1, h2, t1, t2, w1, w2, u1, u2, s1, s2}
Swap(a, b) == (a :> b) @@ (b :> a)
Swapped == Swap(b1, b2) @@ Swap(h1, h2) @@ Swap(t1, t2) @@ Swap(w1, w2) @@ Swap(u1, u2) @@ Swap(s1, s2)
Symmetry == {[v \in Paired |-> IF swap THEN Swapped[v] ELSE v] : swap \in BOOLEAN}

Pieces == {"bytes", "typed", "fds", "contexts", "config", "logs", "patterns", "routes", "request",
           "messages", "sockets", "addresses", "files", "codecs", "conversions", "registry",
           "definitions", "transfers", "appenders", "threads", "responses"}
(* A piece that is not the one of the behaviour has one initial state. *)
LibraryInit ==
  /\ piece \in Pieces
  /\ BaInit /\ (piece = "bytes" \/ m_baseSize = 1)
  /\ CvInit /\ (piece = "config" \/ m_val = 1)
  /\ FsInit /\ (piece = "files" \/ tree = MCTree(<<>>))
  /\ MessageInit /\ (piece = "messages" \/ message.kind = "request")
  /\ ResponseInit /\ (piece = "responses" \/ incoming.response = MCResponse(5, "1.1", 2))
  /\ SessionInit /\ (piece = "request" \/ request = [c \in Conns |-> MCRequest(<<"query">>, <<>>, "GET", "1.1", 0, 0)])
  /\ TransferInit /\ (piece = "transfers" \/ (transfer.kind = "read" /\ transfer.size = 2 /\ transfer.speed = 1
                                              /\ now = 0 /\ strm.left = 0))
  /\ TbInit /\ FdInit /\ TableInit /\ LogInit /\ DispatchInit /\ SockInit /\ AddressInit /\ PatternInit
  /\ CodecInit /\ ShownInit /\ RegistryInit /\ AppenderInit /\ ThreadInit /\ LogsReadInit

coreVars == <<baVars, tbVars, fdVars, tableVars, cvVars>>
textVars == <<logVars, patternVars, dispatchVars, sessionVars, messageVars>>
worldVars == <<sockVars, addressVars, fsVars, codecVars, fileVars>>
hostVars == <<worldVars, supportVars>>

LibraryNext ==
  \/ piece = "bytes" /\ BaNext
     /\ UNCHANGED <<piece, tbVars, fdVars, tableVars, cvVars, textVars, hostVars>>
  \/ piece = "typed" /\ TbNext
     /\ UNCHANGED <<piece, baVars, fdVars, tableVars, cvVars, textVars, hostVars>>
  \/ piece = "fds" /\ FdNext
     /\ UNCHANGED <<piece, baVars, tbVars, tableVars, cvVars, textVars, hostVars>>
  \/ piece = "contexts" /\ TableNext
     /\ UNCHANGED <<piece, baVars, tbVars, fdVars, cvVars, textVars, hostVars>>
  \/ piece = "config" /\ CvNext
     /\ UNCHANGED <<piece, baVars, tbVars, fdVars, tableVars, textVars, hostVars>>
  \/ piece = "logs" /\ LogNext
     /\ UNCHANGED <<piece, patternVars, dispatchVars, sessionVars, messageVars, coreVars, hostVars>>
  \/ piece = "patterns" /\ FormatterInit
     /\ UNCHANGED <<piece, logVars, dispatchVars, sessionVars, messageVars, coreVars, hostVars>>
  \/ piece = "routes" /\ DispatchNext
     /\ UNCHANGED <<piece, logVars, patternVars, sessionVars, messageVars, coreVars, hostVars>>
  \/ piece = "request" /\ (SessionNext \/ \E c \in Conns : Arrive(c))
     /\ UNCHANGED <<piece, logVars, patternVars, dispatchVars, messageVars, coreVars, hostVars>>
  \/ piece = "messages" /\ MessageNext
     /\ UNCHANGED <<piece, logVars, patternVars, dispatchVars, sessionVars, coreVars, hostVars>>
  \/ piece = "sockets" /\ SockNext
     /\ UNCHANGED <<piece, addressVars, fsVars, codecVars, fileVars, supportVars, coreVars, textVars>>
  \/ piece = "addresses" /\ AddressNext
     /\ UNCHANGED <<piece, sockVars, fsVars, codecVars, fileVars, supportVars, coreVars, textVars>>
  \/ piece = "files" /\ FsNext
     /\ UNCHANGED <<piece, sockVars, addressVars, codecVars, fileVars, supportVars, coreVars, textVars>>
  \/ piece = "codecs" /\ CodecNext
     /\ UNCHANGED <<piece, sockVars, addressVars, fsVars, fileVars, supportVars, coreVars, textVars>>
  \/ piece = "conversions" /\ ToStringFromString
     /\ UNCHANGED <<piece, sockVars, addressVars, fsVars, codecVars, registryVars, supportVars, coreVars, textVars>>
  \/ piece = "registry" /\ RegistryNext
     /\ UNCHANGED <<piece, sockVars, addressVars, fsVars, codecVars, shownVars, supportVars, coreVars, textVars>>
  \/ piece = "definitions" /\ ReadLogs
     /\ UNCHANGED <<piece, transferVars, appenderVars, clientVars, patternVars, dispatchVars, sessionVars,
                    messageVars, worldVars, coreVars>>
  \/ piece = "transfers" /\ TransferNext
     /\ UNCHANGED <<piece, appenderVars, clientVars, logsReadVars, worldVars, coreVars, textVars>>
  \/ piece = "appenders" /\ AppenderNext
     /\ UNCHANGED <<piece, transferVars, clientVars, logsReadVars, worldVars, coreVars, textVars>>
  \/ piece = "threads" /\ ThreadNext
     /\ UNCHANGED <<piece, transferVars, appenderVars, responseVars, logsReadVars, worldVars, coreVars, textVars>>
  \/ piece = "responses" /\ ResponseNext
     /\ UNCHANGED <<piece, transferVars, appenderVars, threadVars, logsReadVars, worldVars, coreVars, textVars>>

LibrarySpec == LibraryInit /\ [][LibraryNext]_libVars

-----------------------------------------------------------------------------
(* Every variable of a part has its type, in the behaviours of that part; in those of the others
   it has its initial value. *)
LibraryTypeOK ==
  CASE piece = "bytes" -> BaTypeOK
    [] piece = "typed" -> TbTypeOK
    [] piece = "fds" -> FdTypeOK
    [] piece = "contexts" -> TableTypeOK
    [] piece = "config" -> CvTypeOK
    [] piece = "logs" -> LogTypeOK
    [] piece = "patterns" -> PatternTypeOK
    [] piece = "routes" -> DispatchTypeOK
    [] piece = "request" -> SessionTypeOK
    [] piece = "messages" -> MessageTypeOK
    [] piece = "sockets" -> SockTypeOK
    [] piece = "addresses" -> AddressTypeOK
    [] piece = "files" -> FsTypeOK
    [] piece = "codecs" -> CodecTypeOK
    [] piece \in {"conversions", "registry"} -> ShownTypeOK /\ RegistryTypeOK
    [] piece = "definitions" -> LogsReadTypeOK
    [] piece = "transfers" -> TransferTypeOK
    [] piece = "appenders" -> AppenderTypeOK
    [] piece = "threads" -> ThreadTypeOK
    [] piece = "responses" -> ResponseTypeOK

(* What one side writes in text, the other reads: the pattern of a logger is cut into its items
   and nothing is lost, an IPv6 address is read back from its text and its subnet has the bits of
   the prefix, a dumped message tells the reader what was set, what base64, hexadecimal, URL and
   JSON encoders write is decoded to what was given, and the pieces of a split, trimmed or
   replaced text make it up again, and a setting that is written out is read as itself, but for
   the named exceptions (LogFormatter::init, IPv6Address::insert, HttpResponce::dump,
   base64encode, StringUtil::UrlEncode, split, LexcalCast). *)
TextsReadBack == PatternsRead /\ AddressesRead /\ MessagesRead /\ CodecsRead /\ SettingsReadBack
                 /\ DefinesReadBack /\ DumpAsConfigured
=============================================================================
