----------------------------- MODULE LogConfig ------------------------------
(***************************************************************************)
(* The loggers of src/mumu/log.cc while the listener of the "logs" setting *)
(* rebuilds them: setLevel, setFormatter, clearAppender and one            *)
(* addAppender for each appender are separate critical sections, and       *)
(* messages are logged between them.  Two threads may set the value at the *)
(* same time: their listeners run at once, and m_val keeps either value    *)
(* (ConfigVar).                                                            *)
(***************************************************************************)
EXTENDS Integers, Sequences, SequencesExt

CONSTANTS
  Updaters,     \* threads that set the value
  LoggerNames,  \* "root" among them
  LogSettings,  \* values of the setting: a definition, or NoDef, for each name
  LogLevels,    \* levels of messages
  BadFormats,   \* formatters that LogFormatter refuses
  MaxUpdates    \* bound: changes of the setting

(* Formatters and files that the settings name. *)
Formats ==
  UNION {{new[n].format} \cup {new[n].appenders[i].format : i \in DOMAIN new[n].appenders} :
           new \in LogSettings, n \in LoggerNames}
LogFiles ==
  UNION {{new[n].appenders[i].file : i \in DOMAIN new[n].appenders} : new \in LogSettings, n \in LoggerNames}
LogDefines == [level : Nat, format : Formats, appenders : Seq([file : LogFiles, format : Formats]),
               defined : BOOLEAN]

ASSUME LogAssumption ==
  /\ "root" \in LoggerNames /\ LogLevels \subseteq Nat \ {0} /\ MaxUpdates \in Nat
  /\ LogSettings \subseteq [LoggerNames -> LogDefines]

VARIABLES
  logger,    \* of each name: m_level, m_formatter and m_appenders
  defs,      \* m_val: the definitions
  update,    \* of each updater: its value, the names it has to go, its place in one of them
  updates,
  mixed      \* history: loggers whose definition two updates were changing at once

logVars == <<logger, defs, update, updates, mixed>>

NoDef == [level |-> 0, format |-> "none", appenders |-> <<>>, defined |-> FALSE]
Still == [pc |-> "out", new |-> <<>>, todo |-> {}, name |-> "root", left |-> <<>>]
Working == {u \in Updaters : update[u].pc # "out"}

(* The root logger writes to stdout; another one has no appender and writes there too. *)
LogInit ==
  /\ logger = [n \in LoggerNames |->
       [level |-> 1, format |-> "default",
        appenders |-> IF n = "root" THEN <<[file |-> "stdout", own |-> "none", format |-> "default"]>>
                      ELSE <<>>]]
  /\ defs = [n \in LoggerNames |-> NoDef]
  /\ update = [u \in Updaters |-> Still] /\ updates = 0 /\ mixed = {}

Changed(new) == {n \in LoggerNames : new[n] # defs[n]}

ChangeLogs(u, new) ==
  /\ update[u].pc = "out" /\ new # defs /\ updates < MaxUpdates /\ updates' = updates + 1
  /\ update' = [update EXCEPT ![u] = [pc |-> "next", new |-> new, todo |-> Changed(new), name |-> "root",
                                      left |-> <<>>]]
  /\ mixed' = IF Working = {} THEN mixed
              ELSE mixed \cup Changed(new) \cup UNION {Changed(update[w].new) : w \in Working}
  /\ UNCHANGED <<logger, defs>>

At(u, pc) == update[u].pc = pc /\ UNCHANGED <<updates, defs, mixed>>
Moves(u, pc) == update' = [update EXCEPT ![u].pc = pc]
DefOf(u) == update[u].new[update[u].name]

(* A definition that differs: those of the new value before the names that are gone. *)
NextDef(u) ==
  \E n \in update[u].todo :
    LET new == update[u].new IN
    /\ At(u, "next") /\ (new[n].defined \/ \A k \in update[u].todo : ~new[k].defined)
    /\ update' = [update EXCEPT ![u] = [pc |-> "level", new |-> new, todo |-> @.todo \ {n}, name |-> n,
                                        left |-> new[n].appenders]]
    /\ UNCHANGED logger

(* The listener returns and setValue assigns. *)
AssignLogs(u) ==
  /\ update[u].pc = "next" /\ update[u].todo = {}
  /\ defs' = update[u].new
  /\ update' = [update EXCEPT ![u] = Still]
  /\ UNCHANGED <<logger, updates, mixed>>

SetLevel(u) ==
  /\ At(u, "level")
  /\ logger' = [logger EXCEPT ![update[u].name].level = DefOf(u).level]
  /\ Moves(u, IF DefOf(u).format = "none" THEN "clear" ELSE "format")

FollowedByNone(log, f) == [log EXCEPT !.format = f]   \* mutant: appenders keep theirs
(* A bad formatter is refused; the appenders without one of their own follow. *)
Followed(log, f) ==
  [log EXCEPT !.format = f,
     !.appenders = [i \in DOMAIN @ |-> IF @[i].own = "none" THEN [@[i] EXCEPT !.format = f] ELSE @[i]]]
SetFormatter(u) ==
  LET n == update[u].name
      f == DefOf(u).format
  IN /\ At(u, "format")
     /\ logger' = IF f \in BadFormats THEN logger ELSE [logger EXCEPT ![n] = Followed(@, f)]
     /\ Moves(u, "clear")

ClearAppender(u) ==
  /\ At(u, "clear")
  /\ logger' = [logger EXCEPT ![update[u].name].appenders = <<>>]
  /\ Moves(u, "add")

(* An appender gets its own formatter if that is a good one, or else its logger's. *)
Own(a) == IF a.format \in BadFormats THEN "none" ELSE a.format
AppenderOf(log, a) ==
  [file |-> a.file, own |-> Own(a), format |-> IF Own(a) = "none" THEN log.format ELSE Own(a)]
AddAppender(u) ==
  LET n == update[u].name
      left == update[u].left
  IN /\ At(u, "add")
     /\ IF left = <<>>
        THEN Moves(u, "next") /\ UNCHANGED logger
        ELSE /\ logger' = [logger EXCEPT ![n].appenders = Append(@, AppenderOf(logger[n], Head(left)))]
             /\ update' = [update EXCEPT ![u].left = Tail(@)]

LogNext ==
  \E u \in Updaters : \/ \E new \in LogSettings : ChangeLogs(u, new)
                      \/ NextDef(u) \/ AssignLogs(u)
                      \/ SetLevel(u) \/ SetFormatter(u) \/ ClearAppender(u) \/ AddAppender(u)

LogSpec == LogInit /\ [][LogNext]_logVars

(* Logger::log: the appenders a message reaches. *)
Reached(n, level) ==
  LET of(k) == IF level >= logger[k].level THEN ToSet(logger[k].appenders) ELSE {}
  IN IF level < logger[n].level THEN {}
     ELSE IF logger[n].appenders = <<>> THEN of("root") ELSE of(n)

-----------------------------------------------------------------------------
(* Types. *)
LogTypeOK ==
  /\ \A n \in LoggerNames : /\ logger[n].level \in Nat
                            /\ \A i \in DOMAIN logger[n].appenders :
                                 DOMAIN logger[n].appenders[i] = {"file", "own", "format"}
  /\ defs \in LogSettings \cup {[n \in LoggerNames |-> NoDef]}
  /\ \A u \in Updaters : /\ update[u].pc \in {"out", "next", "level", "format", "clear", "add"}
                         /\ update[u].todo \subseteq LoggerNames /\ update[u].name \in LoggerNames
  /\ updates \in 0..MaxUpdates /\ mixed \subseteq LoggerNames

(* An appender without a formatter of its own writes with its logger's, whichever
   updates interleave with the setFormatter that changes it (log.cc:291-302, 366-375). *)
FormatsFollow ==
  \A n \in LoggerNames : \A i \in DOMAIN logger[n].appenders :
    LET a == logger[n].appenders[i] IN a.format = IF a.own = "none" THEN logger[n].format ELSE a.own

(* When no update runs, a logger is what its definition says: level, formatter,
   appenders in their order, each once.  mixed names the exception: two updates that
   overlapped may have left the appenders of both, and m_val the other value. *)
AsConfigured ==
  Working = {} =>
    \A n \in LoggerNames \ mixed :
      LET log == logger[n]
          def == defs[n]
      IN def.defined =>
           /\ log.level = def.level
           /\ def.format \notin BadFormats \cup {"none"} => log.format = def.format
           /\ Len(log.appenders) = Len(def.appenders)
           /\ \A i \in DOMAIN def.appenders : log.appenders[i] = AppenderOf(log, def.appenders[i])

(* A message that passes the old level and the new one is written somewhere, all
   through an update: while its logger has no appenders the root's take it.  The root
   itself is silent between its clearAppender and addAppender (log.cc:869-889). *)
NotSilenced ==
  \A n \in LoggerNames, v \in LogLevels :
    (/\ \A d \in {defs[n]} \cup {update[u].new[n] : u \in Working} : v >= d.level
     /\ v >= logger["root"].level /\ logger["root"].appenders # <<>>
     /\ n \notin mixed)
    => Reached(n, v) # {}

(* Reconfiguration ends in what was asked for and loses no message on the way. *)
LogsFollow == FormatsFollow /\ AsConfigured /\ NotSilenced
=============================================================================
