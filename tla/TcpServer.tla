----------------------------- MODULE TcpServer ------------------------------
(***************************************************************************)
(* The accepting side of src/mumu/tcp_server.cc: bind, start, stop, the    *)
(* fibers of startAccept and the task by which stop closes the sockets,    *)
(* all on the threads of m_acceptWorker.  A fiber of startAccept holds its *)
(* socket by a shared_ptr and ends only when it sees m_isStop between two  *)
(* accepts.  What the hooks do inside accept and close is told step by     *)
(* step, since stop closes sockets that fibers wait on.  m_socks itself is *)
(* not locked: start, bind and the closing tasks are taken one at a time.  *)
(***************************************************************************)
EXTENDS Integers, Sequences, FiniteSets

CONSTANTS
  Listeners,   \* sockets that bind may make
  Clients,     \* connections
  MaxStarts    \* bound: calls of start that start something

ASSUME TcpAssumption == MaxStarts \in Nat

VARIABLES
  m_isStop,
  m_socks,
  sock,       \* of each socket: unmade, open, cancelled (close is under way) or closed
  fiber,      \* fibers of startAccept, by the socket and the start they are from
  closers,    \* closing tasks that were scheduled and have not begun
  closer,     \* the running one: its place, its socket and those it has still to close
  client,     \* of each connection: away, at a socket (pending), accepted
  starts,
  orphans,    \* history: sockets in use that a failing bind dropped from m_socks
  restarted,  \* history: start was called while an earlier stop had not closed everything
  late        \* history: fibers that began to wait between the last cancelAll and the close

tcpVars == <<m_isStop, m_socks, sock, fiber, closers, closer, client, starts, orphans, restarted, late>>

Fibers == Listeners \X (1..MaxStarts)
Away == <<"away">>
Pending(s) == {c \in Clients : client[c] = <<"pending", s>>}
Resting == [pc |-> "none", at |-> {}, socks |-> {}]
Closing == closers > 0 \/ closer.pc # "none"
Alive(f) == fiber[f] \notin {"none", "ended"}
InUse(s) == \E f \in Fibers : f[1] = s /\ Alive(f)

TcpInit ==
  /\ m_isStop = TRUE /\ m_socks = {}
  /\ sock = [s \in Listeners |-> "unmade"]
  /\ fiber = [f \in Fibers |-> "none"]
  /\ closers = 0 /\ closer = Resting
  /\ client = [c \in Clients |-> Away]
  /\ starts = 0 /\ orphans = {} /\ restarted = FALSE /\ late = {}

(* bind of some addresses, of which some fail: then m_socks loses the sockets of
   earlier binds too, and those that nobody holds are closed by their destructor. *)
Bind(new, fails) ==
  /\ new # {} /\ \A s \in new : sock[s] = "unmade" /\ closer.pc = "none"
  /\ IF fails = {}
     THEN /\ m_socks' = m_socks \cup new
          /\ sock' = [s \in Listeners |-> IF s \in new THEN "open" ELSE sock[s]]
          /\ UNCHANGED orphans
     ELSE /\ m_socks' = {}
          /\ sock' = [s \in Listeners |->
                        IF s \in new \/ (s \in m_socks /\ ~InUse(s)) THEN "closed" ELSE sock[s]]
          /\ orphans' = orphans \cup {s \in m_socks : InUse(s)}
  /\ UNCHANGED <<m_isStop, fiber, closers, closer, client, starts, restarted, late>>

Start ==
  /\ m_isStop /\ starts < MaxStarts /\ closer.pc = "none"
  /\ m_isStop' = FALSE /\ starts' = starts + 1
  /\ fiber' = [f \in Fibers |-> IF f[1] \in m_socks /\ f[2] = starts + 1 THEN "loop" ELSE fiber[f]]
  /\ restarted' = (restarted \/ Closing \/ \E f \in Fibers : Alive(f))
  /\ UNCHANGED <<m_socks, sock, closers, closer, client, orphans, late>>

StopAlone ==          \* mutant: no task is scheduled
  /\ ~m_isStop /\ m_isStop' = TRUE
  /\ UNCHANGED <<m_socks, sock, fiber, closers, closer, client, starts, orphans, restarted, late>>
Stop ==
  /\ ~m_isStop
  /\ m_isStop' = TRUE /\ closers' = closers + 1
  /\ UNCHANGED <<m_socks, sock, fiber, closer, client, starts, orphans, restarted, late>>

FiberGoes(f, pc) ==
  /\ fiber' = [fiber EXCEPT ![f] = pc]
  /\ UNCHANGED <<m_isStop, m_socks, closers, closer, starts, orphans, restarted>>

(* while(!m_isStop); the last to hold a socket closes it. *)
Loop(f) ==
  /\ fiber[f] = "loop"
  /\ FiberGoes(f, IF m_isStop THEN "ended" ELSE "call")
  /\ sock' = [sock EXCEPT ![f[1]] =
       IF m_isStop /\ f[1] \notin m_socks /\ \A g \in Fibers \ {f} : g[1] = f[1] => ~Alive(g)
       THEN "closed" ELSE @]
  /\ UNCHANGED <<client, late>>

AcceptOnce(f, c) ==   \* mutant: the fiber serves one connection
  /\ fiber[f] \in {"call", "retry"} /\ sock[f[1]] \in {"open", "cancelled"} /\ c \in Pending(f[1])
  /\ client' = [client EXCEPT ![c] = <<"accepted", f[1]>>]
  /\ FiberGoes(f, "ended") /\ UNCHANGED <<sock, late>>
(* accept_f, in the first call or after a wake-up: a connection is handed to
   handleClient, an error starts the loop anew, EAGAIN leads to addEvent. *)
Accept(f, c) ==
  /\ fiber[f] \in {"call", "retry"} /\ sock[f[1]] \in {"open", "cancelled"} /\ c \in Pending(f[1])
  /\ client' = [client EXCEPT ![c] = <<"accepted", f[1]>>]
  /\ FiberGoes(f, "loop") /\ UNCHANGED <<sock, late>>
AcceptFails(f) ==
  /\ fiber[f] \in {"call", "retry"} /\ sock[f[1]] = "closed"
  /\ FiberGoes(f, "loop") /\ UNCHANGED <<sock, client, late>>
AcceptAgain(f) ==
  /\ fiber[f] \in {"call", "retry"} /\ sock[f[1]] \in {"open", "cancelled"} /\ Pending(f[1]) = {}
  /\ FiberGoes(f, "register") /\ UNCHANGED <<sock, client, late>>

(* addEvent: epoll refuses a closed descriptor; a second wait for it is asserted not to be. *)
Waiting(s) == {f \in Fibers : f[1] = s /\ fiber[f] = "parked"}
Register(f) ==
  /\ fiber[f] = "register"
  /\ FiberGoes(f, IF sock[f[1]] = "closed" THEN "loop"
                  ELSE IF Waiting(f[1]) = {} THEN "parked" ELSE "asserted")
  /\ late' = IF sock[f[1]] = "cancelled" THEN late \cup {f} ELSE late
  /\ UNCHANGED <<sock, client>>

(* epoll reports a pending connection while the socket is open. *)
Report(f) ==
  /\ fiber[f] = "parked" /\ Pending(f[1]) # {} /\ sock[f[1]] # "closed"
  /\ FiberGoes(f, "retry") /\ late' = late \ {f} /\ UNCHANGED <<sock, client>>

(* The task of stop: of each socket cancelAll, then close, which is the hook's cancelAll
   and then FdMgr's del with close_f; m_socks.clear() at the end. *)
CancelAll(s) ==
  fiber' = [f \in Fibers |-> IF f[1] = s /\ fiber[f] = "parked" THEN "retry" ELSE fiber[f]]
CloserGoes(pc, at, socks) ==
  /\ closer' = [pc |-> pc, at |-> at, socks |-> socks]
  /\ UNCHANGED <<m_isStop, client, starts, orphans, restarted>>

CloserBegins ==
  /\ closers > 0 /\ closer.pc = "none"
  /\ closers' = closers - 1 /\ CloserGoes("cancel", {}, m_socks)
  /\ UNCHANGED <<m_socks, sock, fiber, late>>
CloserCancels(s) ==
  /\ closer.pc = "cancel" /\ s \in closer.socks
  /\ CancelAll(s) /\ CloserGoes("close", {s}, closer.socks \ {s})
  /\ UNCHANGED <<m_socks, sock, closers, late>>
CloserCloses(s) ==
  /\ closer.pc = "close" /\ s \in closer.at
  /\ CancelAll(s) /\ sock' = [sock EXCEPT ![s] = "cancelled"]
  /\ CloserGoes("close_f", {s}, closer.socks)
  /\ UNCHANGED <<m_socks, closers, late>>
CloserClosed(s) ==
  /\ closer.pc = "close_f" /\ s \in closer.at
  /\ sock' = [sock EXCEPT ![s] = "closed"] /\ CloserGoes("cancel", {}, closer.socks)
  /\ UNCHANGED <<m_socks, fiber, closers, late>>
CloserKeeps ==        \* mutant: m_socks.clear() is missing
  /\ closer.pc = "cancel" /\ closer.socks = {}
  /\ CloserGoes("none", {}, {})
  /\ UNCHANGED <<m_socks, sock, fiber, closers, late>>
CloserClears ==
  /\ closer.pc = "cancel" /\ closer.socks = {}
  /\ m_socks' = {} /\ CloserGoes("none", {}, {})
  /\ UNCHANGED <<sock, fiber, closers, late>>
CloserStep ==
  \/ CloserBegins \/ CloserClears
  \/ \E s \in Listeners : CloserCancels(s) \/ CloserCloses(s) \/ CloserClosed(s)

(* A peer. *)
Connect(c, s) ==
  /\ client[c] = Away /\ sock[s] \in {"open", "cancelled"}
  /\ client' = [client EXCEPT ![c] = <<"pending", s>>]
  /\ UNCHANGED <<m_isStop, m_socks, sock, fiber, closers, closer, starts, orphans, restarted, late>>

FiberStep(f) == Loop(f) \/ AcceptFails(f) \/ AcceptAgain(f) \/ Register(f) \/ Report(f)
TcpStep ==
  \/ Start \/ Stop \/ CloserStep
  \/ \E new \in SUBSET Listeners : \E fails \in SUBSET new : Bind(new, fails)
  \/ \E f \in Fibers : FiberStep(f)
  \/ \E c \in Clients, s \in Listeners : Connect(c, s)

(* Fibers and tasks that were scheduled run, and epoll reports; nobody has to bind,
   start, stop or connect. *)
TcpFairness ==
  /\ WF_tcpVars(CloserStep)
  /\ \A f \in Fibers : /\ WF_tcpVars(FiberStep(f))
                       /\ WF_tcpVars(\E c \in Clients : Accept(f, c))

-----------------------------------------------------------------------------
(* Types. *)
TcpTypeOK ==
  /\ m_isStop \in BOOLEAN /\ m_socks \subseteq Listeners /\ closers \in 0..MaxStarts
  /\ sock \in [Listeners -> {"unmade", "open", "cancelled", "closed"}]
  /\ fiber \in [Fibers -> {"none", "loop", "call", "register", "parked", "retry", "asserted", "ended"}]
  /\ closer \in [pc : {"none", "cancel", "close", "close_f"},
                   at : SUBSET Listeners, socks : SUBSET Listeners]
  /\ client \in [Clients -> {Away} \cup ({"pending", "accepted"} \X Listeners)]
  /\ starts \in 0..MaxStarts /\ orphans \subseteq Listeners /\ restarted \in BOOLEAN
  /\ late \subseteq Fibers

(* While the server runs, its fibers wait on open sockets, one on each: none spins on a
   closed one and no addEvent meets the wait of another, which it asserts against.
   restarted names the exception: a start while sockets or fibers of the run before were
   left, for they see m_isStop FALSE again (tcp_server.cc:79-113). *)
RunsOnOpenSockets ==
  \A f \in Fibers :
    /\ fiber[f] = "asserted" => restarted
    /\ Alive(f) /\ ~m_isStop /\ sock[f[1]] = "closed" => restarted

(* After stop every fiber of startAccept ends, and with it what it holds.  Exceptions:
   a socket that a failing bind dropped from m_socks, which stop does not close; a fiber
   that began to wait between close's cancelAll and close_f, whom nobody wakes; and the
   restart of RunsOnOpenSockets. *)
StopEndsAccepting ==
  \A f \in Fibers :
    (m_isStop /\ Alive(f)) ~>
      (~Alive(f) \/ ~m_isStop \/ f[1] \in orphans \/ f \in late \/ restarted)

(* A connection is accepted as long as the server runs and a fiber serves its socket,
   whatever happens between EAGAIN and addEvent. *)
PendingAccepted ==
  \A c \in Clients, s \in Listeners :
    (client[c] = <<"pending", s>> /\ ~m_isStop /\ sock[s] = "open" /\ InUse(s)) ~>
      (client[c] # <<"pending", s>> \/ m_isStop \/ sock[s] # "open" \/ restarted)

(* Types, and the sockets of the fibers that run. *)
AcceptorsSound == TcpTypeOK /\ RunsOnOpenSockets
=============================================================================
