---------------------------- MODULE FileAppender ----------------------------
(***************************************************************************)
(* FileLogAppender of src/mumu/log.cc: a file that it appends lines to and *)
(* opens again after three seconds, while others rename the file, take its *)
(* directory away, or fill the disk.  The stream is std::ofstream as the   *)
(* code uses it: open of a stream that is open fails, and only a stream    *)
(* that is good is closed.                                                 *)
(***************************************************************************)
EXTENDS Integers, Sequences

CONSTANTS MaxSeconds, MaxFiles   \* bounds: the clock, and files made at the path

VARIABLES
  clock,        \* event->getTime(), in seconds
  place,        \* what is at m_filename: the file, and whether it can be opened
  files,        \* files made so far
  stream,       \* m_filestream: good, and the file it has open, 0 for none
  m_lastTime,
  lines,        \* the last message: its time, and the file it is in, 0 for none
  away          \* history: when the path was last renamed or could not be opened; a write failed
appenderVars == <<clock, place, files, stream, m_lastTime, lines, away>>

OpenIn == [good |-> TRUE, file |-> place.file]
AppenderInit ==
  /\ clock = 3 /\ files = 1 /\ m_lastTime = 0
  /\ place = [file |-> 1, there |-> TRUE] /\ stream = [good |-> TRUE, file |-> 1]
  /\ lines = [time |-> 0, file |-> 1] /\ away = [since |-> 0, failed |-> FALSE]

(* reopen: close if the stream is good, then open with ios::app. *)
Reopen(s) ==
  IF ~s.good /\ s.file # 0 THEN s
  ELSE IF place.there THEN OpenIn ELSE [good |-> FALSE, file |-> 0]

(* log: a message, with the stream opened again when three seconds have gone; the write may
   fail, on a disk that is full. *)
LogLine(fails) ==
  LET reopens == clock >= m_lastTime + 3
      s == IF reopens THEN Reopen(stream) ELSE stream
      written == s.good /\ ~fails
  IN /\ m_lastTime' = IF reopens THEN clock ELSE m_lastTime
     /\ stream' = [s EXCEPT !.good = written]
     /\ lines' = [time |-> clock, file |-> IF written THEN s.file ELSE 0]
     /\ away' = [away EXCEPT !.failed = @ \/ (s.good /\ fails)]
     /\ UNCHANGED <<clock, place, files>>

Tick == clock < MaxSeconds /\ clock' = clock + 1 /\ UNCHANGED <<place, files, stream, m_lastTime, lines, away>>
(* The file is renamed, and the next open makes another one; its directory goes and comes. *)
Rotate ==
  /\ files < MaxFiles /\ place.there
  /\ files' = files + 1 /\ place' = [place EXCEPT !.file = files + 1]
  /\ away' = [away EXCEPT !.since = clock]
  /\ UNCHANGED <<clock, stream, m_lastTime, lines>>
Away ==
  /\ place' = [place EXCEPT !.there = ~@] /\ away' = [away EXCEPT !.since = clock]
  /\ UNCHANGED <<clock, files, stream, m_lastTime, lines>>

AppenderNext == LogLine(TRUE) \/ LogLine(FALSE) \/ Tick \/ Rotate \/ Away

AppenderSpec == AppenderInit /\ [][AppenderNext]_appenderVars

-----------------------------------------------------------------------------
AppenderTypeOK ==
  /\ clock \in 3..MaxSeconds /\ m_lastTime \in 0..MaxSeconds /\ files \in 1..MaxFiles
  /\ place.file \in 1..files /\ stream.file \in 0..files /\ lines.file \in 0..files

(* A line is in the file at the path, if the path has been the same and could be opened for
   three seconds: an open that failed, or a file that was renamed, is made up for.  A write
   that failed is not: the stream is not good, so it is not closed, so it cannot be opened,
   and no line is written any more (log.cc:449-453). *)
LinesKept ==
  /\ lines.time = clock /\ place.there /\ clock >= away.since + 3 /\ ~away.failed => lines.file = place.file
  /\ away.failed => ~stream.good /\ lines.file = 0
=============================================================================
