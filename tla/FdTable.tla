------------------------------ MODULE FdTable -------------------------------
(***************************************************************************)
(* FdManager of src/mumu/fd_manager.cc and the calls of hook.cc that write *)
(* to it: socket and accept (which create an FdCtx for the new             *)
(* descriptor), close, fcntl, ioctl and setsockopt.  The threads of an     *)
(* IOManager have the hook enabled, others do not: for them socket, close  *)
(* and setsockopt go to the kernel alone, while accept, fcntl and ioctl    *)
(* use the table whoever calls.  The kernel gives a number again once it   *)
(* is closed, and `birth` counts the sockets that had a number.            *)
(***************************************************************************)
EXTENDS Integers, FiniteSets

CONSTANTS
  HookedThreads, PlainThreads,
  FdNumbers,     \* descriptors that may be open, a set of naturals
  InitialDatas,  \* m_datas.resize(64)
  MaxBirths,     \* bound: of each number, how many sockets have it
  Tuned          \* bound: numbers whose settings are changed

FdThreads == HookedThreads \cup PlainThreads
ASSUME FdTableAssumption == /\ FdNumbers \subseteq Nat \ {0, 1}
                            /\ InitialDatas \in Nat /\ MaxBirths \in [FdNumbers -> Nat]
                            /\ HookedThreads \cap PlainThreads = {}

VARIABLES
  birth,      \* of each number: how many sockets had it
  isOpen,     \* numbers in use
  kNonblock,  \* numbers whose O_NONBLOCK the kernel has set
  m_datas,    \* the slots of the table: an FdCtx, or NoCtx
  datasSize,  \* m_datas.size()
  doing,      \* of each thread: its place in a call, and the descriptor
  asked,      \* history: what the owner of a number asked for since it was opened, and
              \* whether the time-out went past the table
  leaked,     \* history: numbers closed by a thread that left the FdCtx behind
  fdDead      \* the index outside of the table whose use ended the program, or Alive

fdVars == <<birth, isOpen, kNonblock, m_datas, datasSize, doing, asked, leaked, fdDead>>

Out == [pc |-> "out", fd |-> -1]
Alive == -2
NoCtx == [birth |-> 0, user |-> FALSE, to |-> "none"]
NewCtx(fd) == [birth |-> birth[fd], user |-> FALSE, to |-> "none"]
TimeoutsSet == {"none", "some"}
NothingAsked == [nonblock |-> FALSE, by |-> "nobody", to |-> "none", past |-> FALSE]

FdGoto(t, pc, fd) ==
  doing' = [doing EXCEPT ![t] = IF pc = "out" THEN Out ELSE [pc |-> pc, fd |-> fd]]

FdInit ==
  /\ birth = [fd \in FdNumbers |-> 0] /\ isOpen = {} /\ kNonblock = {}
  /\ m_datas = [fd \in FdNumbers |-> NoCtx] /\ datasSize = InitialDatas
  /\ doing = [t \in FdThreads |-> Out]
  /\ asked = [fd \in FdNumbers |-> NothingAsked]
  /\ leaked = {} /\ fdDead = Alive

-----------------------------------------------------------------------------
(* get(fd) as far as its read lock goes.  The test `size < fd` lets fd = size through,
   and -1; what lies there is taken for no FdCtx, or ends the program. *)
Beyond(fd) == fd = -1 \/ fd = datasSize
Ctx(fd) == IF fd \in FdNumbers /\ fd < datasSize THEN m_datas[fd] ELSE NoCtx
Access(fd) == fdDead' \in (IF Beyond(fd) THEN {Alive, fd} ELSE {Alive})

(* The kernel's part of socket() and accept(): the lowest free number.  Without the hook
   socket() ends here; accept() goes on to get(fd, true) whoever calls it. *)
SocketF(t) ==
  LET free == {fd \in FdNumbers \ isOpen : birth[fd] < MaxBirths[fd]}
  IN \E fd \in free :
       /\ doing[t] = Out /\ \A g \in FdNumbers \ isOpen : fd <= g
       /\ birth' = [birth EXCEPT ![fd] = @ + 1] /\ isOpen' = isOpen \cup {fd}
       /\ kNonblock' = kNonblock \ {fd}
       /\ asked' = [asked EXCEPT ![fd] = NothingAsked]
       /\ \E call \in {"socket", "accept"} :
            FdGoto(t, IF t \in HookedThreads \/ call = "accept" THEN "lookup" ELSE "out", fd)
       /\ UNCHANGED <<m_datas, datasSize, leaked, fdDead>>

(* get(fd, true): under the read lock, *)
GetLookup(t) ==
  LET fd == doing[t].fd
  IN /\ doing[t].pc = "lookup" /\ Access(fd)
     /\ FdGoto(t, IF Ctx(fd) # NoCtx THEN "out" ELSE "create", fd)
     /\ UNCHANGED <<birth, isOpen, kNonblock, m_datas, datasSize, asked, leaked>>

(* and under the write lock; FdCtx::init makes the socket non-blocking. *)
GetCreate(t) ==
  LET fd == doing[t].fd
  IN /\ doing[t].pc = "create"
     /\ datasSize' = IF fd >= datasSize THEN (fd * 3) \div 2 ELSE datasSize
     /\ m_datas' = [g \in FdNumbers |-> IF g = fd THEN NewCtx(fd)
                                        ELSE IF g < datasSize' THEN m_datas[g] ELSE NoCtx]
     /\ kNonblock' = kNonblock \cup {fd}
     /\ FdGoto(t, "out", fd)
     /\ UNCHANGED <<birth, isOpen, asked, leaked, fdDead>>

(* close: del, which clears the slot, then close_f.  Nobody uses a descriptor that
   another thread is opening or closing; HookIO is about those who do. *)
Busy(fd) == \E t \in FdThreads : doing[t].fd = fd
FdDel(t) ==
  \E fd \in isOpen :
    /\ doing[t] = Out /\ ~Busy(fd)
    /\ IF t \in HookedThreads THEN Access(fd) ELSE UNCHANGED fdDead
    /\ FdGoto(t, "close", fd)
    /\ m_datas' = IF t \in HookedThreads THEN [m_datas EXCEPT ![fd] = NoCtx] ELSE m_datas
    /\ leaked' = IF m_datas'[fd] # NoCtx THEN leaked \cup {fd} ELSE leaked \ {fd}
    /\ UNCHANGED <<birth, isOpen, kNonblock, datasSize, asked>>

FdCloseF(t) ==
  /\ doing[t].pc = "close"
  /\ isOpen' = isOpen \ {doing[t].fd} /\ FdGoto(t, "out", -1)
  /\ UNCHANGED <<birth, kNonblock, m_datas, datasSize, asked, leaked, fdDead>>

-----------------------------------------------------------------------------
FcntlToKernel(fd, nonblock) ==      \* mutant: the kernel is told what the user asks
  /\ Access(fd)
  /\ asked' = [asked EXCEPT ![fd].nonblock = nonblock, ![fd].by = "fcntl"]
  /\ kNonblock' = (IF nonblock THEN kNonblock \cup {fd} ELSE kNonblock \ {fd})
  /\ m_datas' = IF Ctx(fd) = NoCtx THEN m_datas ELSE [m_datas EXCEPT ![fd].user = nonblock]
  /\ UNCHANGED <<birth, isOpen, datasSize, doing, leaked>>
(* fcntl(F_SETFL): the user's wish goes to the FdCtx, the socket stays non-blocking. *)
Fcntl(fd, nonblock) ==
  /\ Access(fd)
  /\ asked' = [asked EXCEPT ![fd].nonblock = nonblock, ![fd].by = "fcntl"]
  /\ IF Ctx(fd) = NoCtx
     THEN kNonblock' = (IF nonblock THEN kNonblock \cup {fd} ELSE kNonblock \ {fd}) /\ UNCHANGED m_datas
     ELSE kNonblock' = kNonblock \cup {fd} /\ m_datas' = [m_datas EXCEPT ![fd].user = nonblock]
  /\ UNCHANGED <<birth, isOpen, datasSize, doing, leaked>>

(* ioctl(FIONBIO): the wish goes to the FdCtx and to the kernel. *)
Ioctl(fd, nonblock) ==
  /\ Access(fd)
  /\ asked' = [asked EXCEPT ![fd].nonblock = nonblock, ![fd].by = "ioctl"]
  /\ kNonblock' = (IF nonblock THEN kNonblock \cup {fd} ELSE kNonblock \ {fd})
  /\ m_datas' = IF Ctx(fd) = NoCtx THEN m_datas ELSE [m_datas EXCEPT ![fd].user = nonblock]
  /\ UNCHANGED <<birth, isOpen, datasSize, doing, leaked>>

(* setsockopt of SO_RCVTIMEO or SO_SNDTIMEO: a thread without the hook tells the kernel
   alone, past the FdCtx. *)
SetSockOpt(t, fd, to) ==
  /\ asked' = [asked EXCEPT ![fd].to = to, ![fd].past = t \notin HookedThreads]
  /\ IF t \in HookedThreads
     THEN /\ Access(fd)
          /\ m_datas' = IF Ctx(fd) = NoCtx THEN m_datas ELSE [m_datas EXCEPT ![fd].to = to]
     ELSE UNCHANGED <<m_datas, fdDead>>
  /\ UNCHANGED <<birth, isOpen, kNonblock, datasSize, doing, leaked>>

(* do_io on a Socket that is closed already: m_sock is -1. *)
IoOnClosed(t) ==
  /\ t \in HookedThreads /\ Access(-1)
  /\ UNCHANGED <<birth, isOpen, kNonblock, m_datas, datasSize, doing, asked, leaked>>

FdNext ==
  /\ fdDead = Alive
  /\ \E t \in FdThreads :
       \/ SocketF(t) \/ GetLookup(t) \/ GetCreate(t) \/ FdDel(t) \/ FdCloseF(t)
       \/ doing[t] = Out /\ \/ IoOnClosed(t)
                            \/ \E fd \in isOpen \cap Tuned :
                                 /\ ~Busy(fd)
                                 /\ \/ \E nb \in BOOLEAN : Fcntl(fd, nb) \/ Ioctl(fd, nb)
                                    \/ \E to \in TimeoutsSet : SetSockOpt(t, fd, to)

FdSpec == FdInit /\ [][FdNext]_fdVars

-----------------------------------------------------------------------------
(* Types. *)
AskRecords == [nonblock : BOOLEAN, by : {"nobody", "fcntl", "ioctl"}, to : TimeoutsSet, past : BOOLEAN]
FdTypeOK ==
  /\ birth \in [FdNumbers -> Nat] /\ \A fd \in FdNumbers : birth[fd] <= MaxBirths[fd]
  /\ isOpen \subseteq FdNumbers /\ kNonblock \subseteq FdNumbers /\ leaked \subseteq FdNumbers
  /\ datasSize \in Nat /\ fdDead \in FdNumbers \cup {Alive, -1}
  /\ m_datas \in [FdNumbers -> [birth : Nat, user : BOOLEAN, to : TimeoutsSet]]
  /\ asked \in [FdNumbers -> AskRecords]
  /\ doing \in [FdThreads -> [pc : {"out", "lookup", "create", "close"}, fd : FdNumbers \cup {-1}]]

(* A socket with an FdCtx has one of its own, not that of an earlier socket of its
   number, unless a thread without the hook closed that one: socket() then takes what
   it finds in the slot (fd_manager.cc:105), with its flags and its time-outs. *)
OwnSettings ==
  \A fd \in isOpen : Ctx(fd) # NoCtx => Ctx(fd).birth = birth[fd] \/ fd \in leaked

(* The settings of a socket are what its owner last asked for, whoever else grows the
   table or opens and closes sockets meanwhile; but for a time-out that was last set by a
   thread without the hook, of which the FdCtx is not told (hook.cc:460-462). *)
SettingsKept ==
  \A fd \in isOpen : Ctx(fd) # NoCtx /\ Ctx(fd).birth = birth[fd] =>
    /\ Ctx(fd).user = asked[fd].nonblock
    /\ asked[fd].past \/ Ctx(fd).to = asked[fd].to

(* A hooked call that would park its fiber never blocks its thread in the kernel
   instead: what do_io takes for blocking is non-blocking in the kernel, unless
   ioctl(FIONBIO) with 0 told the kernel so (hook.cc:450-452, where fcntl keeps
   O_NONBLOCK), or the FdCtx is one that was left behind. *)
ThreadNeverBlocks ==
  \A fd \in isOpen : Ctx(fd) # NoCtx /\ ~Ctx(fd).user =>
    fd \in kNonblock \/ asked[fd].by = "ioctl" \/ fd \in leaked

(* A hooked socket(), or an accept() of any thread, left an FdCtx when it returned, which neither the
   growth of the table by another thread nor the close of another socket takes away. *)
CtxStays ==
  [][\A fd \in isOpen : Ctx(fd) # NoCtx /\ Ctx(fd)' = NoCtx =>
       \E t \in HookedThreads : doing'[t] = [pc |-> "close", fd |-> fd]]_fdVars

(* Only a descriptor beyond the 64 slots of a fresh table, or a Socket used after its
   close, makes get or del index outside of the table, and then exactly at its size
   (fd_manager.cc:100, 123); growth by other threads never opens a wider gap. *)
EdgeOnly == fdDead # Alive => fdDead = -1 \/ (fdDead >= InitialDatas /\ fdDead = datasSize)

(* The table and the kernel agree on every open socket, whatever threads do at once. *)
SettingsSound ==
  /\ [](OwnSettings /\ SettingsKept /\ ThreadNeverBlocks /\ EdgeOnly)
  /\ CtxStays
=============================================================================
