------------------------------- MODULE LogText -------------------------------
(***************************************************************************)
(* The texts of src/mumu/log.cc.  LogFormatter::init cuts a pattern, a     *)
(* sequence of characters, into texts, items %name and %name{format}, and  *)
(* errors.  The definitions of loggers are YAML: the casts of a LogDefine, *)
(* the "logs" setting that is a set of them, and toYamlString of loggers   *)
(* and appenders.  A field that is not there is "none", a level NoLevel; a *)
(* level is its number, 0 when it is unknown, and OddLevel for any other   *)
(* word.                                                                   *)
(***************************************************************************)
EXTENDS LogConfig

CONSTANTS
  Letters, Signs,   \* characters: isalpha, and others than these, %, { and }
  KnownItems,       \* names of s_format_items, sequences of letters
  MaxPattern        \* bound: length of a pattern

ASSUME LogPatternAssumption == MaxPattern \in Nat /\ KnownItems \subseteq Seq(Letters)

VARIABLES m_pattern, m_items, m_error, formatted

patternVars == <<m_pattern, m_items, m_error, formatted>>

Characters == Letters \cup Signs \cup {"%", "{", "}"}
Text(s) == [kind |-> "text", str |-> s, fmt |-> <<>>]
Item(s, f) == [kind |-> "item", str |-> s, fmt |-> f]
ErrorText == [kind |-> "error", str |-> <<>>, fmt |-> <<>>]
FlushedNot(nstr) == <<>>    \* mutant: the text before an item is dropped
Flushed(nstr) == IF nstr = <<>> THEN <<>> ELSE <<Text(nstr)>>
ItemOf(s, f) == IF s \in KnownItems THEN Item(s, f) ELSE ErrorText

(* The inner loop: a name goes on to a sign or a brace that opens ('}' is taken for a part of
   the name), a format to the brace that closes. *)
FirstFrom(p, n, set) ==
  IF \E k \in n..Len(p) : p[k] \in set
  THEN CHOOSE k \in n..Len(p) : p[k] \in set /\ \A j \in n..(k - 1) : p[j] \notin set
  ELSE Len(p) + 1
ReadItem(p, i) ==
  LET stop == FirstFrom(p, i + 1, Signs \cup {"%", "{"})
      close == FirstFrom(p, stop + 1, {"}"})
      braced == stop <= Len(p) /\ p[stop] = "{"
  IN [str |-> SubSeq(p, i + 1, stop - 1),
      fmt |-> IF braced THEN SubSeq(p, stop + 1, close - 1) ELSE <<>>,
      unclosed |-> braced /\ close > Len(p),
      next |-> IF braced THEN close + 1 ELSE stop]

(* The outer loop, from position i with the text nstr not yet pushed.  After "%%" it goes on at
   the second sign, and after an error at the character behind the sign. *)
RECURSIVE ItemsFrom(_, _, _)
ItemsFrom(p, i, nstr) ==
  LET item == ReadItem(p, i)
  IN CASE i > Len(p) -> Flushed(nstr)
       [] i <= Len(p) /\ p[i] # "%" -> ItemsFrom(p, i + 1, Append(nstr, p[i]))
       [] i < Len(p) /\ p[i] = "%" /\ p[i + 1] = "%" -> ItemsFrom(p, i + 1, Append(nstr, "%"))
       [] OTHER ->
            IF item.unclosed THEN <<ErrorText>> \o ItemsFrom(p, i + 1, nstr)
            ELSE Flushed(nstr) \o <<ItemOf(item.str, item.fmt)>> \o ItemsFrom(p, item.next, <<>>)

PatternInit == m_pattern = <<>> /\ m_items = <<>> /\ m_error = FALSE /\ formatted = FALSE

FormatterInit ==
  /\ ~formatted /\ formatted' = TRUE
  /\ m_pattern' \in SeqOf(Characters, MaxPattern)
  /\ m_items' = ItemsFrom(m_pattern', 1, <<>>)
  /\ m_error' = (\E i \in DOMAIN m_items' : m_items'[i] = ErrorText)

-----------------------------------------------------------------------------
PatternTypeOK ==
  /\ m_pattern \in Seq(Characters) /\ m_error \in BOOLEAN /\ formatted \in BOOLEAN
  /\ \A i \in DOMAIN m_items : m_items[i].kind \in {"text", "item", "error"}

(* How an item is written, and a list of them. *)
WrittenItem(x, braces) ==
  IF x.kind = "text" THEN x.str
  ELSE <<"%">> \o x.str \o (IF braces THEN <<"{">> \o x.fmt \o <<"}">> ELSE <<>>)
Writings(items) ==
  LET way(bs) == FlattenSeq([i \in DOMAIN items |-> WrittenItem(items[i], i \in bs)])
  IN {way(bs) : bs \in {b \in SUBSET DOMAIN items : \A i \in DOMAIN items : items[i].fmt # <<>> => i \in b}}

(* Every text of the pattern that is not part of an item is kept, in its place: without an error,
   the pattern is a writing of what was read from it. *)
NothingInvented == formatted /\ ~m_error => m_pattern \in Writings(m_items)

(* A pattern made of known items, each in braces or followed by a sign, of texts
   without '%', is read without an error. *)
EndsName(p, k) == k > Len(p) \/ p[k] \in Signs \cup {"%"}
WellFormedAt(p, i) ==
  \E s \in KnownItems :
    LET k == i + 1 + Len(s)
    IN /\ k - 1 <= Len(p) /\ SubSeq(p, i + 1, k - 1) = s
       /\ EndsName(p, k) \/ (p[k] = "{" /\ \E c \in (k + 1)..Len(p) : p[c] = "}")
KnownIsRead ==
  formatted /\ (\A i \in DOMAIN m_pattern : m_pattern[i] = "%" => WellFormedAt(m_pattern, i)) => ~m_error

PatternsRead == NothingInvented /\ KnownIsRead

-----------------------------------------------------------------------------
(* Definitions. *)
CONSTANTS
  LogTexts,    \* values of the setting in a file: sequences of nodes
  OddLevel

VARIABLE logsRead  \* the text that was read last
logsReadVars == <<logsRead>>

NoLevel == -1
LevelOf(text) == IF text \in {NoLevel, OddLevel} THEN 0 ELSE text
LevelText(level) == IF level = 0 THEN NoLevel ELSE level

(* An appender needs a type that is known, and a file if it is one; its level is not read. *)
IsAppender(a) ==
  \/ a.type = "FileLogAppender" /\ a.file # "none"
  \/ a.type = "StdoutLogAppender"
AppenderDefine(a) ==
  [type |-> a.type, file |-> IF a.type = "FileLogAppender" THEN a.file ELSE "none", level |-> 0, formatter |-> a.formatter]
HasName(n) == n.name # "none"       \* the cast throws without a name
DefineOf(n) ==
  LET read == SelectSeq(n.appenders, IsAppender)
  IN [name |-> n.name, level |-> LevelOf(n.level), formatter |-> n.formatter,
      appenders |-> [i \in DOMAIN read |-> AppenderDefine(read[i])]]

TextOf(d) ==
  [name |-> d.name, level |-> LevelText(d.level), formatter |-> d.formatter,
   appenders |-> [i \in DOMAIN d.appenders |->
     LET a == d.appenders[i]
     IN [type |-> a.type, file |-> IF a.type = "FileLogAppender" THEN a.file ELSE "none",
         level |-> LevelText(a.level), formatter |-> a.formatter]]]

(* The set: one node that throws and the setting keeps its value; of two definitions with one
   name, which is all that operator< compares, the first is in. *)
Refuses(nodes) == \E i \in DOMAIN nodes : ~HasName(nodes[i])
LogsOf(nodes) ==
  {DefineOf(nodes[i]) : i \in {k \in DOMAIN nodes : \A j \in 1..(k - 1) : nodes[j].name # nodes[k].name}}

(* toYamlString: the formatter of a logger always, of an appender when it is its own.  Only the
   appender the root begins with has a level: the listener gives all others the level 0. *)
DumpOf(n) ==
  [name |-> n, level |-> LevelText(logger[n].level), formatter |-> logger[n].format,
   appenders |-> [i \in DOMAIN logger[n].appenders |->
     LET a == logger[n].appenders[i]
     IN [type |-> IF a.file = "stdout" THEN "StdoutLogAppender" ELSE "FileLogAppender",
         file |-> IF a.file = "stdout" THEN "none" ELSE a.file,
         level |-> IF a.file = "stdout" THEN 1 ELSE NoLevel, formatter |-> a.own]]]

LogsReadInit == logsRead = <<>>
ReadLogs == logsRead = <<>> /\ logsRead' \in LogTexts /\ UNCHANGED logVars

-----------------------------------------------------------------------------
LogsReadTypeOK == logsRead = <<>> \/ logsRead \in LogTexts

(* What is read of a definition is read again from its own text; the appenders are those of
   the text that are complete, in their order; and a name is defined once. *)
DefinesReadBack ==
  logsRead # <<>> /\ ~Refuses(logsRead) =>
    /\ \A d \in LogsOf(logsRead) : DefineOf(TextOf(d)) = d
    /\ \A d, e \in LogsOf(logsRead) : d.name = e.name => d = e
    /\ \A i \in DOMAIN logsRead : \E d \in LogsOf(logsRead) : d.name = logsRead[i].name
    /\ \A d \in LogsOf(logsRead) : \A i \in DOMAIN logsRead :
         DefineOf(logsRead[i]) = d =>
           \E f \in [DOMAIN d.appenders -> DOMAIN logsRead[i].appenders] :
             /\ \A j, k \in DOMAIN d.appenders : j < k => f[j] < f[k]
             /\ \A j \in DOMAIN d.appenders :
                  logsRead[i].appenders[f[j]].type = d.appenders[j].type /\ d.appenders[j].type \in {"FileLogAppender", "StdoutLogAppender"}

(* The loggers, dumped between two updates and read as a setting, are what was configured: with
   the formatter the logger has where the definition gave none or a bad one, and without those
   of appenders that are bad.  The exceptions are those of AsConfigured. *)
DumpAsConfigured ==
  Working = {} =>
    \A n \in LoggerNames \ mixed :
      LET read == DefineOf(DumpOf(n))
          def == defs[n]
      IN def.defined =>
           /\ read.level = def.level
           /\ read.formatter = IF def.format \in BadFormats \cup {"none"} THEN logger[n].format ELSE def.format
           /\ Len(read.appenders) = Len(def.appenders)
           /\ \A i \in DOMAIN def.appenders :
                read.appenders[i].file = def.appenders[i].file /\ read.appenders[i].formatter = Own(def.appenders[i])
=============================================================================
