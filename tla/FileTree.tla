------------------------------ MODULE FileTree ------------------------------
(***************************************************************************)
(* FSUtil of src/mumu/util.cc: Mkdir, OpenForWrite, Rm, Mv and Symlink,    *)
(* one system call a step, by several threads on one tree (two appenders   *)
(* that open log files in a new directory).  A path is the sequence of its *)
(* names; what rename, rmdir and the others do is the kernel's.  No path   *)
(* that is asked for goes through a link.                                  *)
(***************************************************************************)
EXTENDS Integers, Sequences, SequencesExt

CONSTANTS
  FsThreads,
  FsNames,   \* names of files
  FsPaths,   \* paths that may exist, with all their parents but the root
  FsTrees,   \* trees to begin with
  FsCalls    \* calls: [op, path, from]

Nothing == "none"
FsKinds == {Nothing, "dir", "sock", "link", "old", "new"}
(* What is there is in directories, all the way down. *)
Standing(tr) == \A p, q \in FsPaths : IsStrictPrefix(p, q) /\ tr[q] # Nothing => tr[p] = "dir"

ASSUME FileTreeAssumption ==
  /\ FsThreads # {}
  /\ FsPaths \subseteq Seq(FsNames)
  /\ \A p \in FsPaths : p # <<>> /\ \A k \in 1..Len(p) : SubSeq(p, 1, k) \in FsPaths
  /\ \A tr \in FsTrees : tr \in [FsPaths -> FsKinds] /\ Standing(tr)
  /\ \A c \in FsCalls : /\ c.op \in {"Mkdir", "Open", "Rm", "Mv", "Symlink"} /\ c.path \in FsPaths
                        /\ c.op = "Mv" => c.from \in FsPaths

VARIABLES
  tree,        \* of each path: what is there
  fsCall,      \* of each thread: its call, or NoCall
  fsAt,        \* of each thread: its place, how much of the path Mkdir has seen, the calls of Rm
  fsAnswer,    \* of each thread: what its call returned
  before,      \* history: the tree when the thread's call began
  overlapped,  \* history: threads whose call ran while another one did
  lostRace     \* history: threads that found a directory made since they looked

fsVars == <<tree, fsCall, fsAt, fsAnswer, before, overlapped, lostRace>>

(* st_mode & S_IFDIR is not 0 of a socket (S_IFSOCK contains that bit) *)
LooksLikeDir == {"dir", "sock"}
NoCall == [op |-> "none", path |-> <<>>, from |-> <<>>]
Creating == {"Mkdir", "Open"}

Exists(tr, p) == p = <<>> \/ tr[p] # Nothing
IsDir(tr, p) == p = <<>> \/ tr[p] = "dir"
Children(tr, p) == {q \in FsPaths : Front(q) = p /\ tr[q] # Nothing}
CanOpen(tr, p) == IsDir(tr, Front(p)) /\ tr[p] \notin LooksLikeDir
CanMake(tr, p) == IsDir(tr, Front(p)) /\ tr[p] = Nothing
CanRename(tr, from, to) ==
  /\ tr[from] # Nothing /\ IsDir(tr, Front(to)) /\ ~IsStrictPrefix(from, to)
  /\ \/ tr[to] = Nothing \/ from = to
     \/ tr[from] = "dir" /\ tr[to] = "dir" /\ Children(tr, to) = {}
     \/ tr[from] # "dir" /\ tr[to] # "dir"
Renamed(tr, from, to) ==
  [q \in FsPaths |->
     IF IsPrefix(to, q)
     THEN LET s == from \o SubSeq(q, Len(to) + 1, Len(q)) IN IF s \in FsPaths THEN tr[s] ELSE Nothing
     ELSE IF IsPrefix(from, q) THEN Nothing ELSE tr[q]]

FsAt(pc, depth, path, frames) == [pc |-> pc, depth |-> depth, path |-> path, frames |-> frames]
RmFrame(path, left, ret) == [path |-> path, left |-> left, ret |-> ret]
FsOut == FsAt("out", 0, <<>>, <<>>)

FsInit ==
  /\ tree \in FsTrees
  /\ fsCall = [t \in FsThreads |-> NoCall] /\ fsAt = [t \in FsThreads |-> FsOut]
  /\ fsAnswer = [t \in FsThreads |-> TRUE]
  /\ before = tree /\ overlapped = {} /\ lostRace = {}

FsRunning == {t \in FsThreads : fsAt[t].pc \notin {"out", "done"}}
FsMoves(t, at) == fsAt' = [fsAt EXCEPT ![t] = at]
FsGoes(t, pc) == FsMoves(t, FsAt(pc, fsAt[t].depth, fsAt[t].path, fsAt[t].frames)) /\ UNCHANGED fsAnswer
FsEnds(t, ok) ==
  FsMoves(t, FsAt("done", 0, <<>>, <<>>)) /\ fsAnswer' = [fsAnswer EXCEPT ![t] = ok]
FsIs(t, pc) == fsAt[t].pc = pc /\ UNCHANGED <<fsCall, before, overlapped>>

FsBegin(t) ==
  /\ fsAt[t].pc = "out"
  /\ \E c \in FsCalls :
       /\ fsCall' = [fsCall EXCEPT ![t] = c]
       /\ FsMoves(t, FsAt(CASE c.op = "Mkdir" -> "lstat" [] c.op = "Open" -> "open" [] OTHER -> "rm",
                          0, c.path, <<>>))
  /\ before' = IF FsRunning = {} THEN tree ELSE before
  /\ overlapped' = IF FsRunning = {} THEN overlapped ELSE overlapped \cup FsRunning \cup {t}
  /\ UNCHANGED <<tree, fsAnswer, lostRace>>

-----------------------------------------------------------------------------
Dirname(p) == Front(p)
(* What Mkdir makes: the call's path, or the directory of the file to open. *)
MkdirPath(t) == IF fsCall[t].op = "Open" THEN Dirname(fsCall[t].path) ELSE fsCall[t].path

MkdirEnds(t, ok) == IF fsCall[t].op = "Open" THEN FsGoes(t, "reopen") ELSE FsEnds(t, ok)
MkdirLooks(t, depth) == FsMoves(t, FsAt("access", depth, fsAt[t].path, <<>>)) /\ UNCHANGED fsAnswer

MkdirStat(t) ==
  /\ FsIs(t, "lstat") /\ UNCHANGED <<tree, lostRace>>
  /\ IF Exists(tree, MkdirPath(t)) THEN MkdirEnds(t, TRUE) ELSE MkdirLooks(t, 1)

MkdirPrefix(t) == SubSeq(MkdirPath(t), 1, fsAt[t].depth)
NextPrefix(t) ==
  IF fsAt[t].depth = Len(MkdirPath(t)) THEN MkdirEnds(t, TRUE) ELSE MkdirLooks(t, fsAt[t].depth + 1)

(* __mkdir looks for the directory, and makes it in a later call. *)
MkdirAccessNot(t) ==    \* mutant: mkdir without the look
  FsIs(t, "access") /\ UNCHANGED <<tree, lostRace>> /\ FsGoes(t, "mkdir")
MkdirAccess(t) ==
  /\ FsIs(t, "access") /\ UNCHANGED <<tree, lostRace>>
  /\ IF Exists(tree, MkdirPrefix(t)) THEN NextPrefix(t) ELSE FsGoes(t, "mkdir")

MkdirMake(t) ==
  LET p == MkdirPrefix(t)
  IN /\ FsIs(t, "mkdir")
     /\ IF CanMake(tree, p)
        THEN tree' = [tree EXCEPT ![p] = "dir"] /\ NextPrefix(t) /\ UNCHANGED lostRace
        ELSE /\ MkdirEnds(t, FALSE) /\ UNCHANGED tree
             /\ lostRace' = IF Exists(tree, p) THEN lostRace \cup {t} ELSE lostRace

(* OpenForWrite opens, truncating; after a failure it makes the directory, whatever
   Mkdir answers, and opens again. *)
OpenFile(t) ==
  LET p == fsCall[t].path
      opened == CanOpen(tree, p)
  IN /\ fsAt[t].pc \in {"open", "reopen"} /\ UNCHANGED <<fsCall, before, overlapped, lostRace>>
     /\ tree' = IF opened THEN [tree EXCEPT ![p] = "new"] ELSE tree
     /\ IF opened \/ fsAt[t].pc = "reopen" THEN FsEnds(t, opened)
        ELSE FsGoes(t, "lstat")

-----------------------------------------------------------------------------
(* A call of Rm returns to the loop that made it, which keeps the last answer only, or to
   its caller; Mv and Symlink go on when it is true. *)
InLast(frames, frame) == [frames EXCEPT ![Len(frames)] = frame]
RmReturns(t, ok, frames) ==
  LET frame == Last(frames)
  IN CASE frames # <<>> ->
            /\ FsMoves(t, FsAt("readdir", 0, <<>>, InLast(frames, RmFrame(frame.path, frame.left, ok))))
            /\ UNCHANGED fsAnswer
       [] frames = <<>> /\ fsCall[t].op # "Rm" /\ ok ->
            FsMoves(t, FsAt("rename", 0, <<>>, <<>>)) /\ UNCHANGED fsAnswer
       [] OTHER -> FsEnds(t, ok)

RmStat(t) ==
  LET p == fsAt[t].path
  IN /\ FsIs(t, "rm") /\ UNCHANGED <<tree, lostRace>>
     /\ IF ~Exists(tree, p) THEN RmReturns(t, TRUE, fsAt[t].frames)
        ELSE FsGoes(t, IF tree[p] \in LooksLikeDir THEN "opendir" ELSE "unlinkstat")

(* Unlink: true when the file has gone, then unlink. *)
UnlinkStat(t) ==
  /\ FsIs(t, "unlinkstat") /\ UNCHANGED <<tree, lostRace>>
  /\ IF Exists(tree, fsAt[t].path) THEN FsGoes(t, "unlink")
     ELSE RmReturns(t, TRUE, fsAt[t].frames)
Unlink(t) ==
  LET p == fsAt[t].path
      ok == tree[p] \notin {Nothing, "dir"}
  IN /\ FsIs(t, "unlink") /\ UNCHANGED lostRace
     /\ tree' = IF ok THEN [tree EXCEPT ![p] = Nothing] ELSE tree
     /\ RmReturns(t, ok, fsAt[t].frames)

(* The entries are read in one system call, with the first readdir. *)
RmOpendir(t) ==
  LET p == fsAt[t].path
  IN /\ FsIs(t, "opendir") /\ UNCHANGED <<tree, lostRace>>
     /\ IF tree[p] = "dir"
        THEN /\ FsMoves(t, FsAt("readdir", 0, <<>>,
                                 Append(fsAt[t].frames, RmFrame(p, Children(tree, p), TRUE))))
             /\ UNCHANGED fsAnswer
        ELSE RmReturns(t, FALSE, fsAt[t].frames)

RmEntry(t) ==
  LET frame == Last(fsAt[t].frames)
  IN /\ FsIs(t, "readdir") /\ UNCHANGED <<tree, fsAnswer, lostRace>>
     /\ \E q \in frame.left :
          FsMoves(t, FsAt("rm", 0, q,
                          InLast(fsAt[t].frames, RmFrame(frame.path, frame.left \ {q}, frame.ret))))

RmDir(t) ==
  LET frame == Last(fsAt[t].frames)
      ok == tree[frame.path] = "dir" /\ Children(tree, frame.path) = {}
  IN /\ FsIs(t, "readdir") /\ frame.left = {} /\ UNCHANGED lostRace
     /\ tree' = IF ok THEN [tree EXCEPT ![frame.path] = Nothing] ELSE tree
     /\ RmReturns(t, frame.ret /\ ok, Front(fsAt[t].frames))

Rename(t) ==
  LET to == fsCall[t].path
      from == fsCall[t].from
      ok == IF fsCall[t].op = "Mv" THEN CanRename(tree, from, to) ELSE CanMake(tree, to)
  IN /\ FsIs(t, "rename") /\ UNCHANGED lostRace /\ FsEnds(t, ok)
     /\ tree' = CASE ~ok -> tree [] ok /\ fsCall[t].op = "Mv" -> Renamed(tree, from, to)
                  [] OTHER -> [tree EXCEPT ![to] = "link"]

FsNext ==
  \E t \in FsThreads :
    \/ FsBegin(t) \/ MkdirStat(t) \/ MkdirAccess(t) \/ MkdirMake(t) \/ OpenFile(t)
    \/ RmStat(t) \/ UnlinkStat(t) \/ Unlink(t) \/ RmOpendir(t) \/ RmEntry(t) \/ RmDir(t) \/ Rename(t)

FsSpec == FsInit /\ [][FsNext]_fsVars

-----------------------------------------------------------------------------
FsTypeOK ==
  /\ tree \in [FsPaths -> FsKinds] /\ Standing(tree)
  /\ fsCall \in [FsThreads -> FsCalls \cup {NoCall}]
  /\ \A t \in FsThreads :
       /\ fsAt[t].pc \in {"out", "lstat", "access", "mkdir", "open", "reopen", "rm", "unlinkstat",
                          "unlink", "opendir", "readdir", "rename", "done"}
       /\ fsAt[t].depth \in 0..Len(MkdirPath(t))
       /\ \A i \in DOMAIN fsAt[t].frames : fsAt[t].frames[i].path \in FsPaths
  /\ fsAnswer \in [FsThreads -> BOOLEAN] /\ overlapped \cup lostRace \subseteq FsThreads

Ended(t) == fsAt[t].pc = "done"

(* What a call means that runs alone: the tree it leaves and its answer. *)
Made(tr, p) ==
  IF Exists(tr, p) THEN [tree |-> tr, ok |-> TRUE]
  ELSE LET blocked == \E q \in FsPaths : IsPrefix(q, p) /\ tr[q] \notin {Nothing, "dir"}
       IN [tree |-> IF blocked THEN tr
                    ELSE [q \in FsPaths |-> IF IsPrefix(q, p) THEN "dir" ELSE tr[q]],
           ok |-> ~blocked]
Removed(tr, p) ==
  LET kept(q) == \E s \in FsPaths : tr[s] = "sock" /\ IsPrefix(p, s) /\ IsPrefix(q, s)
  IN [tree |-> [q \in FsPaths |-> IF IsPrefix(p, q) /\ ~kept(q) THEN Nothing ELSE tr[q]], ok |-> ~kept(p)]
Meaning(c, tr) ==
  LET made == IF CanOpen(tr, c.path) THEN tr ELSE Made(tr, Dirname(c.path)).tree
      gone == Removed(tr, c.path)
  IN CASE c.op = "Mkdir" -> Made(tr, c.path)
       [] c.op = "Open" ->
            [tree |-> IF CanOpen(made, c.path) THEN [made EXCEPT ![c.path] = "new"] ELSE made,
             ok |-> CanOpen(made, c.path)]
       [] c.op = "Rm" \/ (c.op \in {"Mv", "Symlink"} /\ ~gone.ok) -> gone
       [] c.op = "Mv" /\ gone.ok ->
            IF CanRename(gone.tree, c.from, c.path)
            THEN [tree |-> Renamed(gone.tree, c.from, c.path), ok |-> TRUE]
            ELSE [tree |-> gone.tree, ok |-> FALSE]
       [] OTHER -> IF CanMake(gone.tree, c.path)
                   THEN [tree |-> [gone.tree EXCEPT ![c.path] = "link"], ok |-> TRUE]
                   ELSE [tree |-> gone.tree, ok |-> FALSE]

AloneMeans ==
  \A t \in FsThreads :
    Ended(t) /\ t \notin overlapped /\ FsRunning = {} /\ (\A u \in FsThreads \ {t} : fsAt[u].pc = "out")
      => [tree |-> tree, ok |-> fsAnswer[t]] = Meaning(fsCall[t], before)

(* Calls that only create do not disturb each other, but for a lost race: one that found the
   directory made between its access and its mkdir gives up the rest of the path.  Not all of
   them can fail for that. *)
CreatorsAgree ==
  (\A t \in FsThreads : Ended(t) /\ fsCall[t].op \in Creating) =>
    /\ \A t \in FsThreads : fsAnswer[t] => Exists(tree, fsCall[t].path)
    /\ \A t \in FsThreads \ lostRace : fsAnswer[t] = Meaning(fsCall[t], tree).ok
    /\ \E t \in FsThreads : t \notin lostRace \/ fsAnswer[t]

(* Calls that only remove leave nothing, whatever they answer: one that fails because another
   was faster has not left anything behind. *)
RemoversAgree ==
  (\A t \in FsThreads : Ended(t) /\ fsCall[t].op = "Rm") =>
    \A t \in FsThreads, q \in FsPaths :
      IsPrefix(fsCall[t].path, q) =>
        tree[q] = IF \E s \in FsPaths : tree[s] = "sock" /\ IsPrefix(q, s) THEN before[q] ELSE Nothing

(* A call of FSUtil that runs alone does to the tree, and answers, what it means; calls that
   create meet only in the race of Mkdir, and one of them wins it; calls that remove leave
   nothing between them (Mkdir, OpenForWrite, Rm, Mv, Symlink of util.cc). *)
FilesKept == AloneMeans /\ CreatorsAgree /\ RemoversAgree
=============================================================================
