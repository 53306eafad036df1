---------------------------- MODULE Server_proofs ----------------------------
(***************************************************************************)
(* The fibers of startAccept run on open sockets, one on each, unless the  *)
(* server was started again too early, for any number of sockets, clients  *)
(* and starts, and whatever the sessions of HttpServer do meanwhile.  The  *)
(* messages those sessions hand on are the ones that came, a message is    *)
(* dumped as it was set, and addresses are read as they were written.      *)
(***************************************************************************)
EXTENDS HttpServer, ResponseParser, HttpMessage, NetAddress, SequenceTheorems, FiniteSetTheorems,
        WellFoundedInduction, TLAPS

(* Every closing task is owed to a stop, and every stop to a start. *)
StopsOfStarts == closers + (IF m_isStop THEN 0 ELSE 1) <= starts
(* What bind left in m_socks is open until a closing task runs. *)
SocksOpen == closer.pc = "none" => \A s \in m_socks : sock[s] = "open"
HeldMade == \A f \in Fibers : Alive(f) => sock[f[1]] # "unmade"
(* As long as nobody has started again too early there is one run at a time. *)
OneRun ==
  ~restarted =>
    /\ ~m_isStop => closers = 0 /\ closer.pc = "none"
    /\ \A f \in Fibers : Alive(f) => f[2] = starts

Places == {"none", "loop", "call", "register", "parked", "retry", "asserted", "ended"}
SockStates == {"unmade", "open", "cancelled", "closed"}
ClientStates == {Away} \cup ({"pending", "accepted"} \X Listeners)

AcceptInv ==
  TcpTypeOK /\ StopsOfStarts /\ SocksOpen /\ HeldMade /\ OneRun /\ RunsOnOpenSockets

LEMMA AcceptInitInv == TcpInit => AcceptInv
<1> SUFFICES ASSUME TcpInit PROVE AcceptInv
  OBVIOUS
<1>1. \A f \in Fibers : ~Alive(f) /\ fiber[f] = "none"
  BY DEF TcpInit, Alive
<1>2. closer = [pc |-> "none", at |-> {}, socks |-> {}]
  BY DEF TcpInit, Resting
<1>3. 0 \in 0..MaxStarts
  BY TcpAssumption
<1>4. client \in [Clients -> {Away} \cup ({"pending", "accepted"} \X Listeners)]
  BY DEF TcpInit
<1>5. fiber \in [Fibers -> {"none", "loop", "call", "register", "parked", "retry", "asserted", "ended"}]
  BY DEF TcpInit
<1>6. closer \in [pc : {"none", "cancel", "close", "close_f"},
                   at : SUBSET Listeners, socks : SUBSET Listeners]
  BY <1>2
<1>7. TcpTypeOK
  BY <1>3, <1>4, <1>5, <1>6 DEF TcpInit, TcpTypeOK
<1>8. StopsOfStarts /\ SocksOpen
  BY DEF TcpInit, StopsOfStarts, SocksOpen
<1>9. HeldMade /\ OneRun /\ RunsOnOpenSockets
  BY <1>1 DEF TcpInit, HeldMade, OneRun, RunsOnOpenSockets
<1> QED
  BY <1>7, <1>8, <1>9 DEF AcceptInv

(* A fiber is a socket and the start it is from. *)
LEMMA FiberParts == \A f \in Fibers : f[1] \in Listeners /\ f[2] \in 1..MaxStarts /\ f = <<f[1], f[2]>>
BY DEF Fibers

LEMMA BindInv ==
  ASSUME AcceptInv, NEW new \in SUBSET Listeners, NEW fails \in SUBSET new, Bind(new, fails)
  PROVE  AcceptInv'
<1>1. /\ \A s \in new : sock[s] = "unmade"
      /\ closer.pc = "none" /\ m_socks' \in {m_socks \cup new, {}}
      /\ sock' \in [Listeners -> {"unmade", "open", "cancelled", "closed"}]
      /\ UNCHANGED <<m_isStop, fiber, closers, closer, client, starts, restarted, late>>
  BY DEF Bind, AcceptInv, TcpTypeOK
<1>2. \A s \in Listeners : \/ sock'[s] = sock[s]
                           \/ s \in new
                           \/ s \in m_socks /\ ~InUse(s)
  BY DEF Bind
<1>3. \A s \in m_socks' : sock'[s] = "open"
  BY <1>1 DEF Bind, AcceptInv, SocksOpen, TcpTypeOK
<1>4. \A f \in Fibers : Alive(f) => sock'[f[1]] = sock[f[1]]
  BY <1>1, <1>2, FiberParts DEF AcceptInv, HeldMade, InUse
<1>5. TcpTypeOK'
  BY <1>1 DEF Bind, AcceptInv, TcpTypeOK
<1>6. (StopsOfStarts /\ SocksOpen /\ OneRun)'
  BY <1>1, <1>3 DEF AcceptInv, StopsOfStarts, SocksOpen, OneRun, Alive
<1>7. (HeldMade /\ RunsOnOpenSockets)'
  BY <1>1, <1>4 DEF AcceptInv, HeldMade, RunsOnOpenSockets, Alive
<1> QED
  BY <1>5, <1>6, <1>7 DEF AcceptInv

LEMMA StartInv == ASSUME AcceptInv, Start PROVE AcceptInv'
<1>1. /\ m_isStop /\ starts < MaxStarts /\ closer.pc = "none"
      /\ m_isStop' = FALSE /\ starts' = starts + 1
      /\ fiber' = [f \in Fibers |-> IF f[1] \in m_socks /\ f[2] = starts + 1 THEN "loop" ELSE fiber[f]]
      /\ restarted' = (restarted \/ Closing \/ \E f \in Fibers : Alive(f))
      /\ UNCHANGED <<m_socks, sock, closers, closer, client, orphans, late>>
  BY DEF Start
<1>2. closers \in Nat /\ starts \in Nat /\ closers <= starts /\ MaxStarts \in Nat
  BY <1>1, TcpAssumption DEF AcceptInv, TcpTypeOK, StopsOfStarts
<1>3. \A f \in Fibers : Alive(f)' => Alive(f) \/ (f[1] \in m_socks /\ f[2] = starts + 1)
  BY <1>1 DEF Alive
<1>4. ~restarted' => ~restarted /\ closers = 0 /\ closer.pc = "none" /\ \A f \in Fibers : ~Alive(f)
  <2>1. ~restarted' => ~restarted /\ ~Closing /\ ~ \E f \in Fibers : Alive(f)
    BY <1>1, Zenon
  <2>2. ~Closing => closers = 0
    BY <1>2 DEF Closing
  <2> QED
    BY <1>1, <2>1, <2>2, Zenon
<1>5. TcpTypeOK'
  <2>1. fiber' \in [Fibers -> {"none", "loop", "call", "register", "parked", "retry", "asserted", "ended"}]
    BY <1>1 DEF AcceptInv, TcpTypeOK
  <2>2. restarted' \in BOOLEAN
    BY <1>1 DEF AcceptInv, TcpTypeOK
  <2>3. starts' \in 0..MaxStarts
    BY <1>1, <1>2
  <2> QED
    BY <1>1, <2>1, <2>2, <2>3 DEF AcceptInv, TcpTypeOK
<1>6. StopsOfStarts' /\ SocksOpen'
  BY <1>1, <1>2 DEF AcceptInv, StopsOfStarts, SocksOpen
<1>7. HeldMade' /\ OneRun'
  BY <1>1, <1>3, <1>4 DEF AcceptInv, HeldMade, OneRun, SocksOpen
<1>8. RunsOnOpenSockets'
  <2> SUFFICES ASSUME NEW f \in Fibers, ~restarted'
               PROVE  fiber'[f] # "asserted" /\ (Alive(f)' => sock'[f[1]] # "closed")
    BY DEF RunsOnOpenSockets
  <2>1. fiber'[f] \in {"loop", fiber[f]} /\ ~Alive(f)
    BY <1>1, <1>4
  <2> QED
    BY <1>1, <1>3, <2>1 DEF AcceptInv, SocksOpen, Alive
<1> QED
  BY <1>5, <1>6, <1>7, <1>8 DEF AcceptInv

(* What a step of a fiber keeps: it may close a socket nobody lists, after stop, and it is
   asserted only after a restart. *)
LEMMA FiberInv ==
  ASSUME AcceptInv, NEW f \in Fibers, Alive(f), NEW q \in Places \ {"none"},
         fiber' = [fiber EXCEPT ![f] = q], q = "asserted" => restarted,
         UNCHANGED <<m_isStop, m_socks, closers, closer, starts, orphans, restarted>>,
         sock' \in [Listeners -> SockStates],
         \A s \in Listeners : sock'[s] = sock[s] \/ (sock'[s] = "closed" /\ m_isStop /\ s \notin m_socks),
         client' \in [Clients -> ClientStates], late' \subseteq Fibers
  PROVE  AcceptInv'
<1>1. fiber' \in [Fibers -> Places] /\ fiber'[f] = q /\ \A g \in Fibers \ {f} : fiber'[g] = fiber[g]
  BY DEF AcceptInv, TcpTypeOK, Places
<1>2. \A g \in Fibers : Alive(g)' => Alive(g)
  BY <1>1 DEF Alive
<1>3. TcpTypeOK'
  BY <1>1 DEF AcceptInv, TcpTypeOK, Places, SockStates, ClientStates
<1>4. StopsOfStarts' /\ SocksOpen'
  <2>1. StopsOfStarts'
    BY DEF AcceptInv, StopsOfStarts
  <2>2. SocksOpen'
    BY DEF AcceptInv, SocksOpen, TcpTypeOK
  <2> QED
    BY <2>1, <2>2
<1>5. HeldMade'
  BY <1>2, FiberParts DEF AcceptInv, HeldMade
<1>6. OneRun'
  BY <1>2 DEF AcceptInv, OneRun
<1>7. RunsOnOpenSockets'
  BY <1>1, <1>2, FiberParts DEF AcceptInv, RunsOnOpenSockets
<1> QED
  BY <1>3, <1>4, <1>5, <1>6, <1>7 DEF AcceptInv

(* Two fibers that live in one run wait on different sockets. *)
LEMMA WaitsAlone ==
  ASSUME AcceptInv, ~restarted, NEW f \in Fibers, NEW g \in Fibers, Alive(f), Alive(g), f[1] = g[1]
  PROVE  f = g
BY FiberParts DEF AcceptInv, OneRun

LEMMA LoopInv == ASSUME AcceptInv, NEW f \in Fibers, Loop(f) PROVE AcceptInv'
<1> DEFINE q == IF m_isStop THEN "ended" ELSE "call"
<1>1. q \in Places \ {"none"} /\ q # "asserted"
  BY DEF Places
<1>2. fiber[f] = "loop" /\ Alive(f)
  BY DEF Loop, Alive
<1>3. fiber' = [fiber EXCEPT ![f] = q]
  BY DEF Loop, FiberGoes
<1>4. UNCHANGED <<m_isStop, m_socks, closers, closer, starts, orphans, restarted>>
  BY DEF Loop, FiberGoes
<1>5. sock' \in [Listeners -> SockStates]
  BY FiberParts DEF Loop, AcceptInv, TcpTypeOK, SockStates
<1>6. \A s \in Listeners : sock'[s] = sock[s] \/ (sock'[s] = "closed" /\ m_isStop /\ s \notin m_socks)
  BY FiberParts DEF Loop, AcceptInv, TcpTypeOK
<1>7. client' \in [Clients -> ClientStates] /\ late' \subseteq Fibers
  BY DEF Loop, AcceptInv, TcpTypeOK, ClientStates
<1> HIDE DEF q
<1> QED
  BY <1>1, <1>2, <1>3, <1>4, <1>5, <1>6, <1>7, FiberInv

(* The steps of a fiber that leave the sockets alone. *)
LEMMA FiberGoesInv ==
  ASSUME AcceptInv, NEW f \in Fibers, Alive(f), NEW q \in Places \ {"none"}, FiberGoes(f, q),
         q = "asserted" => restarted, sock' = sock,
         client' \in [Clients -> ClientStates], late' \subseteq Fibers
  PROVE  AcceptInv'
<1>1. fiber' = [fiber EXCEPT ![f] = q]
  BY DEF FiberGoes
<1>2. UNCHANGED <<m_isStop, m_socks, closers, closer, starts, orphans, restarted>>
  BY DEF FiberGoes
<1>3. sock' \in [Listeners -> SockStates]
  BY DEF AcceptInv, TcpTypeOK, SockStates
<1>4. \A s \in Listeners : sock'[s] = sock[s] \/ (sock'[s] = "closed" /\ m_isStop /\ s \notin m_socks)
  OBVIOUS
<1> QED
  BY <1>1, <1>2, <1>3, <1>4, FiberInv

LEMMA AcceptsInv ==
  ASSUME AcceptInv, NEW f \in Fibers, \/ \E c \in Clients : Accept(f, c)
                                     \/ AcceptFails(f) \/ AcceptAgain(f) \/ Register(f) \/ Report(f)
  PROVE  AcceptInv'
<1>1. client \in [Clients -> ClientStates] /\ late \subseteq Fibers
  BY DEF AcceptInv, TcpTypeOK, ClientStates
<1>2. /\ "loop" \in Places \ {"none"} /\ "register" \in Places \ {"none"}
      /\ "parked" \in Places \ {"none"} /\ "retry" \in Places \ {"none"}
      /\ "asserted" \in Places \ {"none"}
  BY DEF Places
<1>3. ASSUME NEW c \in Clients, Accept(f, c) PROVE AcceptInv'
  <2>1. Alive(f) /\ FiberGoes(f, "loop") /\ sock' = sock /\ late' = late
    BY <1>3 DEF Accept, Alive
  <2>2. client' \in [Clients -> ClientStates]
    BY <1>1, <1>3, FiberParts DEF Accept, ClientStates
  <2> QED
    BY <1>1, <1>2, <2>1, <2>2, FiberGoesInv
<1>4. ASSUME AcceptFails(f) PROVE AcceptInv'
  <2>1. Alive(f) /\ FiberGoes(f, "loop") /\ sock' = sock /\ client' = client /\ late' = late
    BY <1>4 DEF AcceptFails, Alive
  <2> QED
    BY <1>1, <1>2, <2>1, FiberGoesInv
<1>5. ASSUME AcceptAgain(f) PROVE AcceptInv'
  <2>1. Alive(f) /\ FiberGoes(f, "register") /\ sock' = sock /\ client' = client /\ late' = late
    BY <1>5 DEF AcceptAgain, Alive
  <2> QED
    BY <1>1, <1>2, <2>1, FiberGoesInv
<1>6. ASSUME Register(f) PROVE AcceptInv'
  <2>1. Alive(f) /\ fiber[f] = "register" /\ sock' = sock /\ client' = client
    BY <1>6 DEF Register, Alive
  <2>2. late' \subseteq Fibers
    BY <1>1, <1>6 DEF Register
  <2>3. CASE FiberGoes(f, "loop")
    BY <1>1, <1>2, <2>1, <2>2, <2>3, FiberGoesInv
  <2>4. CASE FiberGoes(f, "parked")
    BY <1>1, <1>2, <2>1, <2>2, <2>4, FiberGoesInv
  <2>5. CASE FiberGoes(f, "asserted") /\ Waiting(f[1]) # {}
    <3>1. PICK g \in Fibers : g[1] = f[1] /\ fiber[g] = "parked"
      BY <2>5 DEF Waiting
    <3>2. Alive(g) /\ g # f
      BY <2>1, <3>1 DEF Alive
    <3>3. restarted
      BY <2>1, <3>1, <3>2, WaitsAlone
    <3> QED
      BY <1>1, <1>2, <2>1, <2>2, <2>5, <3>3, FiberGoesInv
  <2> QED
    BY <1>6, <2>3, <2>4, <2>5 DEF Register
<1>7. ASSUME Report(f) PROVE AcceptInv'
  <2>1. Alive(f) /\ FiberGoes(f, "retry") /\ sock' = sock /\ client' = client
    BY <1>7 DEF Report, Alive
  <2>2. late' \subseteq Fibers
    BY <1>1, <1>7 DEF Report
  <2> QED
    BY <1>1, <1>2, <2>1, <2>2, FiberGoesInv
<1> QED
  BY <1>3, <1>4, <1>5, <1>6, <1>7

LEMMA StopInv == ASSUME AcceptInv, Stop PROVE AcceptInv'
<1>1. /\ ~m_isStop /\ m_isStop' = TRUE /\ closers' = closers + 1
      /\ UNCHANGED <<m_socks, sock, fiber, closer, client, starts, orphans, restarted, late>>
  BY DEF Stop
<1>2. closers \in Nat /\ starts \in Nat /\ closers + 1 <= starts /\ starts <= MaxStarts /\ MaxStarts \in Nat
  BY <1>1, TcpAssumption DEF AcceptInv, TcpTypeOK, StopsOfStarts
<1>3. closers' \in 0..MaxStarts
  BY <1>1, <1>2
<1>4. TcpTypeOK'
  BY <1>1, <1>3 DEF AcceptInv, TcpTypeOK
<1>5. StopsOfStarts'
  BY <1>1, <1>2 DEF StopsOfStarts
<1>6. SocksOpen' /\ HeldMade' /\ OneRun' /\ RunsOnOpenSockets'
  BY <1>1 DEF AcceptInv, SocksOpen, HeldMade, OneRun, RunsOnOpenSockets, Alive
<1> QED
  BY <1>4, <1>5, <1>6 DEF AcceptInv

(* What a step of the closing task keeps: it runs after a stop, so no run has open sockets
   to lose; a fiber it wakes goes on to accept again. *)
LEMMA CloserInv ==
  ASSUME AcceptInv, closers > 0 \/ closer.pc # "none", TcpTypeOK',
         closers' <= closers, SocksOpen',
         UNCHANGED <<m_isStop, starts, orphans, restarted>>,
         \A f \in Fibers : fiber'[f] = fiber[f] \/ (fiber[f] = "parked" /\ fiber'[f] = "retry"),
         \A s \in Listeners : sock'[s] = sock[s] \/ sock'[s] \in {"cancelled", "closed"}
  PROVE  AcceptInv'
<1>1. \A f \in Fibers : /\ Alive(f)' => Alive(f)
                        /\ fiber'[f] = "asserted" => fiber[f] = "asserted"
  BY DEF Alive
<1>2. closers \in Nat /\ closers' \in Nat /\ starts \in Nat
  BY TcpAssumption DEF AcceptInv, TcpTypeOK
<1>3. StopsOfStarts'
  <2> DEFINE n == IF m_isStop THEN 0 ELSE 1
  <2>1. closers + n <= starts /\ n \in Nat
    BY DEF AcceptInv, StopsOfStarts
  <2> HIDE DEF n
  <2>2. \A a, b, c, d \in Nat : a <= b /\ b + c <= d => a + c <= d
    OBVIOUS
  <2>3. closers' <= closers
    OBVIOUS
  <2>4. closers' + n <= starts
    BY <1>2, <2>1, <2>2, <2>3, Zenon
  <2> QED
    BY <2>4 DEF StopsOfStarts, n
<1>4. ~restarted => m_isStop
  <2> SUFFICES ASSUME ~restarted, ~m_isStop PROVE FALSE
    OBVIOUS
  <2>1. closers = 0 /\ closer.pc = "none"
    BY DEF AcceptInv, OneRun
  <2> QED
    BY <2>1
<1>5. HeldMade'
  BY <1>1, FiberParts DEF AcceptInv, HeldMade
<1>6. OneRun'
  BY <1>1, <1>4 DEF AcceptInv, OneRun
<1>7. RunsOnOpenSockets'
  BY <1>1, <1>4 DEF AcceptInv, RunsOnOpenSockets
<1> QED
  BY <1>3, <1>5, <1>6, <1>7 DEF AcceptInv

LEMMA CloserStepInv == ASSUME AcceptInv, CloserStep PROVE AcceptInv'
<1>1. closers \in Nat /\ closers <= MaxStarts /\ MaxStarts \in Nat
  BY TcpAssumption DEF AcceptInv, TcpTypeOK
<1>2. ASSUME CloserBegins PROVE AcceptInv'
  <2>1. /\ closers > 0 /\ closers' = closers - 1 /\ closer' = [pc |-> "cancel", at |-> {}, socks |-> m_socks]
        /\ UNCHANGED <<m_isStop, client, starts, orphans, restarted, m_socks, sock, fiber, late>>
    BY <1>2 DEF CloserBegins, CloserGoes
  <2>2. closers' \in 0..MaxStarts /\ closers' <= closers
    BY <1>1, <2>1
  <2>3. TcpTypeOK'
    BY <2>1, <2>2 DEF AcceptInv, TcpTypeOK
  <2>4. SocksOpen'
    BY <2>1 DEF SocksOpen
  <2> QED
    BY <2>1, <2>2, <2>3, <2>4, CloserInv
<1>3. ASSUME CloserClears PROVE AcceptInv'
  <2>1. /\ closer.pc = "cancel" /\ closer' = [pc |-> "none", at |-> {}, socks |-> {}] /\ m_socks' = {}
        /\ UNCHANGED <<m_isStop, client, starts, orphans, restarted, sock, fiber, closers, late>>
    BY <1>3 DEF CloserClears, CloserGoes
  <2>2. TcpTypeOK'
    BY <2>1 DEF AcceptInv, TcpTypeOK
  <2>3. SocksOpen'
    BY <2>1 DEF SocksOpen
  <2> QED
    BY <1>1, <2>1, <2>2, <2>3, CloserInv
<1>4. ASSUME NEW s \in Listeners PROVE CancelAll(s) /\ AcceptInv =>
        /\ fiber' \in [Fibers -> Places]
        /\ \A f \in Fibers : fiber'[f] = fiber[f] \/ (fiber[f] = "parked" /\ fiber'[f] = "retry")
  BY DEF CancelAll, AcceptInv, TcpTypeOK, Places
<1>5. ASSUME NEW s \in Listeners, CloserCancels(s) PROVE AcceptInv'
  <2>1. /\ closer.pc = "cancel" /\ closer' = [pc |-> "close", at |-> {s}, socks |-> closer.socks \ {s}]
        /\ CancelAll(s)
        /\ UNCHANGED <<m_isStop, client, starts, orphans, restarted, m_socks, sock, closers, late>>
    BY <1>5 DEF CloserCancels, CloserGoes
  <2>2. closer.socks \ {s} \subseteq Listeners
    BY DEF AcceptInv, TcpTypeOK
  <2>3. TcpTypeOK'
    BY <1>4, <2>1, <2>2 DEF AcceptInv, TcpTypeOK, Places
  <2>4. SocksOpen'
    BY <2>1 DEF SocksOpen
  <2> QED
    BY <1>1, <1>4, <2>1, <2>3, <2>4, CloserInv
<1>6. ASSUME NEW s \in Listeners, CloserCloses(s) PROVE AcceptInv'
  <2>1. /\ closer.pc = "close" /\ closer' = [pc |-> "close_f", at |-> {s}, socks |-> closer.socks]
        /\ CancelAll(s) /\ sock' = [sock EXCEPT ![s] = "cancelled"]
        /\ UNCHANGED <<m_isStop, client, starts, orphans, restarted, m_socks, closers, late>>
    BY <1>6 DEF CloserCloses, CloserGoes
  <2>2. closer.socks \subseteq Listeners
    BY DEF AcceptInv, TcpTypeOK
  <2>3. TcpTypeOK'
    BY <1>4, <2>1, <2>2 DEF AcceptInv, TcpTypeOK, Places
  <2>4. SocksOpen'
    BY <2>1 DEF SocksOpen
  <2>5. \A l \in Listeners : sock'[l] = sock[l] \/ sock'[l] \in {"cancelled", "closed"}
    BY <2>1 DEF AcceptInv, TcpTypeOK
  <2> QED
    BY <1>1, <1>4, <2>1, <2>3, <2>4, <2>5, CloserInv
<1>7. ASSUME NEW s \in Listeners, CloserClosed(s) PROVE AcceptInv'
  <2>1. /\ closer.pc = "close_f" /\ closer' = [pc |-> "cancel", at |-> {}, socks |-> closer.socks]
        /\ sock' = [sock EXCEPT ![s] = "closed"]
        /\ UNCHANGED <<m_isStop, client, starts, orphans, restarted, m_socks, fiber, closers, late>>
    BY <1>7 DEF CloserClosed, CloserGoes
  <2>2. closer.socks \subseteq Listeners
    BY DEF AcceptInv, TcpTypeOK
  <2>3. TcpTypeOK'
    BY <2>1, <2>2 DEF AcceptInv, TcpTypeOK
  <2>4. SocksOpen'
    BY <2>1 DEF SocksOpen
  <2>5. \A l \in Listeners : sock'[l] = sock[l] \/ sock'[l] \in {"cancelled", "closed"}
    BY <2>1 DEF AcceptInv, TcpTypeOK
  <2> QED
    BY <1>1, <2>1, <2>3, <2>4, <2>5, CloserInv
<1> QED
  BY <1>2, <1>3, <1>5, <1>6, <1>7 DEF CloserStep

LEMMA ConnectInv ==
  ASSUME AcceptInv, NEW c \in Clients, NEW s \in Listeners, Connect(c, s) PROVE AcceptInv'
<1>1. /\ client' = [client EXCEPT ![c] = <<"pending", s>>]
      /\ UNCHANGED <<m_isStop, m_socks, sock, fiber, closers, closer, starts, orphans, restarted, late>>
  BY DEF Connect
<1>2. client' \in [Clients -> ClientStates]
  BY <1>1 DEF AcceptInv, TcpTypeOK, ClientStates
<1>3. TcpTypeOK'
  BY <1>1, <1>2 DEF AcceptInv, TcpTypeOK, ClientStates
<1>4. StopsOfStarts' /\ SocksOpen' /\ HeldMade' /\ OneRun' /\ RunsOnOpenSockets'
  BY <1>1 DEF AcceptInv, StopsOfStarts, SocksOpen, HeldMade, OneRun, RunsOnOpenSockets, Alive
<1> QED
  BY <1>3, <1>4 DEF AcceptInv

LEMMA StutterInv == AcceptInv /\ UNCHANGED tcpVars => AcceptInv'
BY DEF AcceptInv, TcpTypeOK, StopsOfStarts, SocksOpen, HeldMade, OneRun, RunsOnOpenSockets,
       Alive, Fibers, tcpVars

LEMMA TcpStepInv == AcceptInv /\ TcpStep => AcceptInv'
<1> SUFFICES ASSUME AcceptInv, TcpStep PROVE AcceptInv'
  OBVIOUS
<1>1. CASE \E new \in SUBSET Listeners : \E fails \in SUBSET new : Bind(new, fails)
  BY <1>1, BindInv
<1>2. CASE Start \/ Stop \/ CloserStep
  BY <1>2, StartInv, StopInv, CloserStepInv
<1>3. CASE \E f \in Fibers : FiberStep(f)
  BY <1>3, LoopInv, AcceptsInv DEF FiberStep
<1>4. CASE \E c \in Clients, s \in Listeners : Connect(c, s)
  BY <1>4, ConnectInv
<1> QED
  BY <1>1, <1>2, <1>3, <1>4 DEF TcpStep

(* tcp_server.cc:30-113 with http_server.cc: whatever binds, starts, stops, connections and
   sessions follow one another, the fibers of a running server wait on open sockets and one
   on each, unless the server was started again while the run before was not gone. *)
THEOREM AcceptorsCorrect == ServerSpec => []AcceptorsSound
<1>1. ServerInit => AcceptInv
  BY AcceptInitInv DEF ServerInit
<1>2. AcceptInv /\ [ServerNext]_<<tcpVars, sessionVars>> => AcceptInv'
  <2> SUFFICES ASSUME AcceptInv, [ServerNext]_<<tcpVars, sessionVars>> PROVE AcceptInv'
    OBVIOUS
  <2>1. CASE \E f \in Fibers, c \in Clients : AcceptConnection(f, c)
    BY <2>1, AcceptsInv DEF AcceptConnection
  <2>2. CASE TcpStep /\ UNCHANGED sessionVars
    BY <2>2, TcpStepInv
  <2>3. CASE UNCHANGED tcpVars
    BY <2>3, StutterInv
  <2> QED
    BY <2>1, <2>2, <2>3 DEF ServerNext
<1>3. AcceptInv => AcceptorsSound
  BY DEF AcceptInv, AcceptorsSound
<1> QED
  BY <1>1, <1>2, <1>3, PTL DEF ServerSpec

-----------------------------------------------------------------------------
(* The records of HttpSession. *)
HeadRecords == [method : Methods \cup {"GET"}, path : {"default", "whole", "empty", "tail"},
                query : {"none", "whole", "empty", "tail", "thrown"},
                fragment : {"none", "whole", "empty", "tail"},
                version : {"1.0", "1.1"}, length : Nat, error : BOOLEAN, behind : BOOLEAN]
ReadingHead == {"none", "queued", "recv", "parked_recv", "missed_recv", "woken_recv"}
ReadingBody == {"body", "parked_body", "missed_body", "woken_body"}
InQueue == {"queued", "woken_recv", "woken_body", "woken_send", "timed_out"}
SessionPlaces == ReadingHead \cup ReadingBody \cup InQueue \cup {"handle", "send", "parked_send", "close", "closed"}
RequestTokens == {"method", "path", "query", "fragment", "version", "name", "value"}
PartNames == RequestTokens \cup {"versionEnd"}
SessionRecords == [pc : SessionPlaces, taken : Nat, head : HeadRecords, left : Nat, body : Nat, cuts : SUBSET PartNames]

(* What is true of the parts of a request once their delimiters have been parsed; a part that
   a read cut is named. *)
Passed(r, name, at) == \E i \in TokenAt(r, name) : StopCell(r, i) <= at
MethodGiven(r, method, cuts) == method = r.method \/ ("method" \in cuts /\ method = TailOf[r.method])
PathGiven(path, cuts) == path = "whole" \/ "path" \in cuts
QueryGiven(query, cuts) == query = "whole" \/ "query" \in cuts
FragmentGiven(fragment, cuts) == fragment = "whole" \/ "fragment" \in cuts
VersionGiven(r, version, cuts) == version = r.version \/ "versionEnd" \in cuts
LengthGiven(r, length, cuts) == length = r.length \/ cuts \cap {"name", "value"} # {}
PartsGiven(r, head, cuts, at) ==
  /\ Passed(r, "method", at) => MethodGiven(r, head.method, cuts)
  /\ Passed(r, "path", at) => PathGiven(head.path, cuts)
  /\ IF Passed(r, "query", at) THEN QueryGiven(head.query, cuts) ELSE head.query = "none"
  /\ IF Passed(r, "fragment", at) THEN FragmentGiven(head.fragment, cuts) ELSE head.fragment = "none"
  /\ Passed(r, "version", at) => VersionGiven(r, head.version, cuts)
  /\ IF Passed(r, "value", at) THEN LengthGiven(r, head.length, cuts) ELSE head.length = 0

(* A request is refused for a part that a read has cut. *)
Refusal(head) == head.error \/ head.query = "thrown"
RefusedNamed(head, cuts) == Refusal(head) => cuts \cap {"method", "query", "version"} # {}

(* While the head is read, every delimiter that was passed has left its part, and every token that
   the last read cut is named. *)
HeadRead(r, s) ==
  /\ s.taken < HeadEnd(r) /\ ~s.head.error /\ Cut(r, s.taken) \subseteq s.cuts
  /\ PartsGiven(r, s.head, s.cuts, s.taken)

(* The int that recvRequest makes of a content-length. *)
Declared(v) == IF AsInt(v) > 0 THEN AsInt(v) ELSE 0

(* What is true of a connection by itself, at each place of its fiber. *)
SessionSound(r, s) ==
  /\ RefusedNamed(s.head, s.cuts)
  /\ s.pc \in ReadingHead => HeadRead(r, s)
  /\ s.pc \in ReadingBody \cup {"handle"} => PartsGiven(r, s.head, s.cuts, HeadEnd(r))
  /\ s.pc \in ReadingBody => s.body + s.left = Declared(s.head.length)
  /\ s.pc = "handle" => s.body = Declared(s.head.length)

(* A connection is in the queue once, and only while it waits there. *)
QueueSound ==
  /\ ioQueue \in Seq(Conns)
  /\ \A i \in 1 .. Len(ioQueue) : session[ioQueue[i]].pc \in InQueue
  /\ \A i, j \in 1 .. Len(ioQueue) : ioQueue[i] = ioQueue[j] => i = j

SessionInv ==
  /\ session \in [Conns -> SessionRecords] /\ \A c \in Conns : SessionSound(request[c], session[c])
  /\ arrived \in [Conns -> Nat] /\ request \in [Conns -> Requests] /\ QueueSound

(* What the proofs use of the order of the tokens of a request. *)
InOrder(t) ==
  /\ Len(t) \in Nat /\ DOMAIN t = 1 .. Len(t)
  /\ \A i \in DOMAIN t : t[i] \in RequestTokens
  /\ \A name \in {"method", "path", "version"} : \E i \in DOMAIN t : t[i] = name
  /\ \A i, j \in DOMAIN t : t[i] = "name" /\ t[j] = "value" => j = i + 1

LEMMA TokensOf ==
  ASSUME NEW r \in Requests
  PROVE  /\ InOrder(r.tokens) /\ r.method \in Methods /\ r.method # "invalid" /\ r.version \in {"1.0", "1.1"}
         /\ r.length \in Nat /\ r.body \in Nat
         /\ TokenAt(r, "value") = {} => r.length = 0
<1>1. PICK uri \in {<<>>, <<"query">>, <<"fragment">>, <<"query", "fragment">>},
           header \in {<<>>, <<"name", "value">>} :
              /\ r.tokens = <<"method", "path">> \o uri \o <<"version">> \o header
              /\ header = <<>> => r.length = 0
  BY SessionAssumption
<1> DEFINE t == r.tokens
           n == Len(uri)
           m == Len(header)
<1>2. /\ uri \in Seq(RequestTokens) /\ n \in {0, 1, 2} /\ \A i \in 1 .. n : uri[i] \in {"query", "fragment"}
      /\ header \in Seq(RequestTokens) /\ m \in {0, 2} /\ (m = 2 => header[1] = "name" /\ header[2] = "value")
      /\ m = 0 => header = <<>>
  <2>1. uri \in Seq(RequestTokens) /\ n \in {0, 1, 2} /\ \A i \in 1 .. n : uri[i] \in {"query", "fragment"}
    <3>1. CASE uri = <<>>
      BY <3>1 DEF RequestTokens
    <3>2. CASE uri = <<"query">>
      BY <3>2 DEF RequestTokens
    <3>3. CASE uri = <<"fragment">>
      BY <3>3 DEF RequestTokens
    <3>4. CASE uri = <<"query", "fragment">>
      BY <3>4 DEF RequestTokens
    <3> QED
      BY <1>1, <3>1, <3>2, <3>3, <3>4
  <2>2. /\ header \in Seq(RequestTokens) /\ m \in {0, 2} /\ (m = 2 => header[1] = "name" /\ header[2] = "value")
        /\ m = 0 => header = <<>>
    <3>1. CASE header = <<>>
      BY <3>1 DEF RequestTokens
    <3>2. CASE header = <<"name", "value">>
      BY <3>2 DEF RequestTokens
    <3> QED
      BY <1>1, <3>1, <3>2
  <2> QED
    BY <2>1, <2>2
<1>3. /\ t \in Seq(RequestTokens) /\ Len(t) = 3 + n + m
      /\ t[1] = "method" /\ t[2] = "path" /\ t[3 + n] = "version"
      /\ \A i \in 1 .. n : t[2 + i] = uri[i]
      /\ \A i \in 1 .. m : t[3 + n + i] = header[i]
  BY <1>1, <1>2 DEF RequestTokens
<1> HIDE DEF n, m, t
<1>4. Len(t) \in Nat /\ DOMAIN t = 1 .. Len(t) /\ \A i \in DOMAIN t : t[i] \in RequestTokens
  BY <1>3
<1>5. \A name \in {"method", "path", "version"} : \E i \in DOMAIN t : t[i] = name
  <2>1. 1 \in DOMAIN t /\ 2 \in DOMAIN t /\ 3 + n \in DOMAIN t
    BY <1>2, <1>3, <1>4
  <2> QED
    BY <1>3, <2>1
<1>6. \A i \in DOMAIN t : (t[i] = "name" => m = 2 /\ i = 4 + n) /\ (t[i] = "value" => m = 2 /\ i = 5 + n)
  <2> TAKE i \in DOMAIN t
  <2>1. \/ i \in {1, 2, 3 + n}
        \/ i - 2 \in 1 .. n /\ i = 2 + (i - 2)
        \/ m = 2 /\ i \in {4 + n, 5 + n}
    <3>1. i \in 1 .. 3 + n + m /\ n \in {0, 1, 2} /\ m \in {0, 2}
      BY <1>2, <1>3, <1>4
    <3> QED
      BY <3>1
  <2>2. CASE i \in {1, 2, 3 + n}
    BY <1>3, <2>2
  <2>3. CASE i - 2 \in 1 .. n /\ i = 2 + (i - 2)
    <3>1. t[i] = uri[i - 2]
      BY <1>3, <2>3
    <3> QED
      BY <1>2, <2>3, <3>1
  <2>4. CASE m = 2 /\ i \in {4 + n, 5 + n}
    <3>1. t[4 + n] = "name" /\ t[5 + n] = "value"
      <4>1. 1 \in 1 .. m /\ 2 \in 1 .. m /\ 3 + n + 1 = 4 + n /\ 3 + n + 2 = 5 + n
        BY <1>2, <2>4
      <4> QED
        BY <1>2, <1>3, <2>4, <4>1
    <3> QED
      BY <2>4, <3>1
  <2> QED
    BY <2>1, <2>2, <2>3, <2>4
<1>7. TokenAt(r, "value") = {} => r.length = 0
  <2>1. m = 2 => 5 + n \in DOMAIN t /\ t[5 + n] = "value"
    <3> SUFFICES ASSUME m = 2 PROVE 5 + n \in DOMAIN t /\ t[5 + n] = "value"
      OBVIOUS
    <3>1. 2 \in 1 .. m /\ 3 + n + 2 = 5 + n /\ 5 + n \in DOMAIN t
      BY <1>2, <1>3, <1>4
    <3> QED
      BY <1>2, <1>3, <3>1
  <2>2. m = 2 => 5 + n \in TokenAt(r, "value")
    BY <2>1 DEF TokenAt, t
  <2> QED
    BY <1>1, <1>2, <2>2
<1>8. InOrder(t)
  BY <1>2, <1>4, <1>5, <1>6 DEF InOrder
<1> QED
  BY <1>7, <1>8, SessionAssumption DEF t

(* A read that ends within a token names it. *)
LEMMA CutToken ==
  ASSUME NEW r, DOMAIN r.tokens = 1 .. Len(r.tokens), Len(r.tokens) \in Nat,
         NEW i \in 1 .. Len(r.tokens), NEW to \in Nat
  PROVE  /\ to = 3 * i - 2 => r.tokens[i] \in Cut(r, to)
         /\ to = 3 * i - 1 => (IF r.tokens[i] = "version" THEN "versionEnd" ELSE r.tokens[i]) \in Cut(r, to)
         /\ to = 3 * i /\ r.tokens[i] = "name" => "name" \in Cut(r, to)
<1> DEFINE broken == {j \in DOMAIN r.tokens :
                        to \in FirstCell(r, j) .. StopCell(r, j) - (IF r.tokens[j] = "name" THEN 0 ELSE 1)}
           Name(j) == IF r.tokens[j] = "version" /\ StopCell(r, j) = to + 1 THEN "versionEnd" ELSE r.tokens[j]
<1>1. \A j \in broken : Name(j) \in Cut(r, to)
  BY DEF Cut
<1>2. i \in Nat /\ FirstCell(r, i) = 3 * i - 2 /\ StopCell(r, i) = 3 * i
  BY DEF FirstCell, StopCell
<1>3. /\ to \in {3 * i - 2, 3 * i - 1} => i \in broken
      /\ to = 3 * i /\ r.tokens[i] = "name" => i \in broken
  BY <1>2
<1>4. /\ to = 3 * i - 2 => Name(i) = r.tokens[i]
      /\ to = 3 * i - 1 => Name(i) = IF r.tokens[i] = "version" THEN "versionEnd" ELSE r.tokens[i]
      /\ r.tokens[i] = "name" => Name(i) = "name"
  BY <1>2
<1> HIDE DEF broken, Name
<1> QED
  BY <1>1, <1>3, <1>4

LEMMA CutNames ==
  ASSUME NEW r \in Requests
  PROVE  /\ \A to \in Nat : Cut(r, to) \subseteq PartNames
         /\ Cut(r, 0) = {}
<1>1. DOMAIN r.tokens = 1 .. Len(r.tokens) /\ Len(r.tokens) \in Nat
      /\ \A i \in DOMAIN r.tokens : r.tokens[i] \in RequestTokens
  BY TokensOf DEF InOrder
<1>2. \A to \in Nat : Cut(r, to) \subseteq PartNames
  BY <1>1 DEF Cut, PartNames
<1>3. Cut(r, 0) = {}
  BY <1>1 DEF Cut, FirstCell, StopCell
<1> QED
  BY <1>2, <1>3

(* Of a token that is there once, the delimiters a piece holds are none or its own. *)
LEMMA TokenPassed ==
  ASSUME NEW r, NEW name, NEW k \in 1 .. 5, TokenAt(r, name) = {k}, NEW from, NEW to
  PROVE  /\ {i \in TokenAt(r, name) : StopCell(r, i) \in from + 1 .. to}
                = IF 3 * k \in from + 1 .. to THEN {k} ELSE {}
         /\ 3 * k \in from + 1 .. to =>
              (CHOOSE i \in {i \in TokenAt(r, name) : StopCell(r, i) \in from + 1 .. to} : TRUE) = k
<1>1. {i \in TokenAt(r, name) : StopCell(r, i) \in from + 1 .. to}
         = IF 3 * k \in from + 1 .. to THEN {k} ELSE {}
  BY DEF StopCell
<1>2. (CHOOSE i \in {k} : TRUE) = k
  OBVIOUS
<1> QED
  BY <1>1, <1>2

(* The callback of a token is given all of it, or what the read before left, and then the token is
   among those that read cut. *)
LEMMA TokenGiven ==
  ASSUME NEW r \in Requests, NEW name, NEW from \in Nat, NEW i \in TokenAt(r, name), StopCell(r, i) > from
  PROVE  /\ Given(r, i, from) \in {"whole", "empty", "tail"}
         /\ name # "version" /\ Given(r, i, from) # "whole" => name \in Cut(r, from)
         /\ name = "version" /\ Given(r, i, from) = "empty" => "versionEnd" \in Cut(r, from)
         /\ name = "version" /\ Given(r, i, from) = "tail" => "version" \in Cut(r, from)
<1>1. /\ DOMAIN r.tokens = 1 .. Len(r.tokens) /\ Len(r.tokens) \in Nat /\ i \in 1 .. Len(r.tokens)
      /\ r.tokens[i] = name
  BY TokensOf DEF InOrder, TokenAt
<1>2. /\ from = 3 * i - 2 => name \in Cut(r, from)
      /\ from = 3 * i - 1 => (IF name = "version" THEN "versionEnd" ELSE name) \in Cut(r, from)
  BY <1>1, CutToken
<1>3. /\ Given(r, i, from) \in {"whole", "empty", "tail"}
      /\ Given(r, i, from) = "tail" => from = 3 * i - 2
      /\ Given(r, i, from) = "empty" => from = 3 * i - 1
  BY <1>1 DEF Given, FirstCell, StopCell
<1> QED
  BY <1>2, <1>3

(* The tokens of one name whose delimiter a piece holds, and what their callback is given. *)
Ended(r, name, from, to) == {i \in TokenAt(r, name) : StopCell(r, i) \in from + 1 .. to}
GivenOf(r, name, from, to) == Given(r, CHOOSE i \in Ended(r, name, from, to) : TRUE, from)

LEMMA PartPassed ==
  ASSUME NEW r \in Requests, NEW name, NEW from \in Nat, NEW to \in Nat, from < to
  PROVE  /\ Ended(r, name, from, to) = {} => (Passed(r, name, to) <=> Passed(r, name, from))
         /\ Ended(r, name, from, to) # {} =>
              /\ Passed(r, name, to)
              /\ GivenOf(r, name, from, to) \in {"whole", "empty", "tail"}
              /\ name # "version" /\ GivenOf(r, name, from, to) # "whole" => name \in Cut(r, from)
              /\ name = "version" /\ GivenOf(r, name, from, to) = "empty" => "versionEnd" \in Cut(r, from)
              /\ name = "version" /\ GivenOf(r, name, from, to) = "tail" => "version" \in Cut(r, from)
<1>1. \A i \in TokenAt(r, name) : StopCell(r, i) \in Nat
  BY TokensOf DEF TokenAt, InOrder, StopCell
<1>2. ASSUME Ended(r, name, from, to) = {}
      PROVE  Passed(r, name, to) <=> Passed(r, name, from)
  <2>1. \A i \in TokenAt(r, name) : StopCell(r, i) <= to <=> StopCell(r, i) <= from
    BY <1>1, <1>2 DEF Ended
  <2> QED
    BY <2>1 DEF Passed
<1>3. ASSUME Ended(r, name, from, to) # {}
      PROVE  /\ Passed(r, name, to)
             /\ GivenOf(r, name, from, to) \in {"whole", "empty", "tail"}
             /\ name # "version" /\ GivenOf(r, name, from, to) # "whole" => name \in Cut(r, from)
             /\ name = "version" /\ GivenOf(r, name, from, to) = "empty" => "versionEnd" \in Cut(r, from)
             /\ name = "version" /\ GivenOf(r, name, from, to) = "tail" => "version" \in Cut(r, from)
  <2>1. PICK k : k = CHOOSE i \in Ended(r, name, from, to) : TRUE
    OBVIOUS
  <2>2. k \in Ended(r, name, from, to)
    BY <1>3, <2>1
  <2>3. k \in TokenAt(r, name) /\ StopCell(r, k) > from /\ StopCell(r, k) <= to
    BY <1>1, <2>2 DEF Ended
  <2>4. GivenOf(r, name, from, to) = Given(r, k, from)
    BY <2>1 DEF GivenOf
  <2>5. Passed(r, name, to)
    BY <2>3 DEF Passed
  <2> QED
    BY <2>3, <2>4, <2>5, TokenGiven
<1> QED
  BY <1>2, <1>3

(* The query of a piece is the one before it, or what its callback was given or has thrown. *)
LEMMA QueryPassed ==
  ASSUME NEW r \in Requests, NEW head, NEW from \in Nat, NEW to \in Nat, from < to,
         NEW query \in QueriesGiven(r, head, from, to)
  PROVE  /\ Ended(r, "query", from, to) = {} => query = head.query
         /\ Ended(r, "query", from, to) # {} =>
              query \in {"whole", "empty", "tail", "thrown"} /\ (query = "whole" \/ "query" \in Cut(r, from))
<1>1. QueriesGiven(r, head, from, to)
        = IF Ended(r, "query", from, to) = {} THEN {head.query}
          ELSE IF GivenOf(r, "query", from, to) = "whole" \/ ~head.behind THEN {GivenOf(r, "query", from, to)}
          ELSE IF GivenOf(r, "query", from, to) = "empty" THEN {"thrown"} ELSE {"tail", "empty", "thrown"}
  <2> DEFINE done == {i \in TokenAt(r, "query") : StopCell(r, i) \in from + 1 .. to}
             given == Given(r, CHOOSE i \in done : TRUE, from)
  <2>1. QueriesGiven(r, head, from, to)
          = IF done = {} THEN {head.query}
            ELSE IF given = "whole" \/ ~head.behind THEN {given}
            ELSE IF given = "empty" THEN {"thrown"} ELSE {"tail", "empty", "thrown"}
    <3>1. CASE done = {}
      BY <3>1 DEF QueriesGiven
    <3>2. CASE done # {} /\ (given = "whole" \/ ~head.behind)
      BY <3>2 DEF QueriesGiven
    <3>3. CASE done # {} /\ ~(given = "whole" \/ ~head.behind) /\ given = "empty"
      BY <3>3 DEF QueriesGiven
    <3>4. CASE done # {} /\ ~(given = "whole" \/ ~head.behind) /\ given # "empty"
      BY <3>4 DEF QueriesGiven
    <3> HIDE DEF done, given
    <3> QED
      BY <3>1, <3>2, <3>3, <3>4
  <2>2. done = Ended(r, "query", from, to) /\ given = GivenOf(r, "query", from, to)
    BY DEF Ended, GivenOf
  <2> HIDE DEF done, given
  <2> QED
    BY <2>1, <2>2
<1>2. Ended(r, "query", from, to) # {} =>
        /\ GivenOf(r, "query", from, to) \in {"whole", "empty", "tail"}
        /\ GivenOf(r, "query", from, to) # "whole" => "query" \in Cut(r, from)
  BY PartPassed
<1> QED
  BY <1>1, <1>2

(* What the callbacks of one piece leave of a head: every part whose delimiter is in the piece, as it
   was sent or as what the read before has cut, and the others as they were. *)
LEMMA PieceParsed ==
  ASSUME NEW r \in Requests, NEW s \in SessionRecords, HeadRead(r, s), RefusedNamed(s.head, s.cuts),
         NEW to \in s.taken + 1 .. HeadEnd(r), NEW query \in QueriesGiven(r, s.head, s.taken, to),
         NEW head, head = Parsed(r, s.head, s.taken, to, query)
  PROVE  /\ head \in HeadRecords /\ RefusedNamed(head, s.cuts) /\ head.query = query
         /\ ~head.error => PartsGiven(r, head, s.cuts, to)
<1>1. PICK from : from = s.taken
  OBVIOUS
<1>2. /\ from \in Nat /\ to \in Nat /\ from < to /\ s.head \in HeadRecords /\ s.cuts \subseteq PartNames
      /\ Cut(r, from) \subseteq s.cuts /\ PartsGiven(r, s.head, s.cuts, from) /\ s.head.error = FALSE
  <2>1. s.taken \in Nat /\ s.head \in HeadRecords /\ s.cuts \subseteq PartNames
    BY DEF SessionRecords
  <2>2. HeadEnd(r) \in Nat
    BY TokensOf DEF HeadEnd, InOrder
  <2>3. s.head.error \in BOOLEAN
    BY <2>1 DEF HeadRecords
  <2> QED
    BY <1>1, <2>1, <2>2, <2>3 DEF HeadRead
<1> DEFINE Kept(new, old) == IF new = "invalid" THEN old ELSE new
           Ends(name) == Ended(r, name, from, to)
           Of(name) == GivenOf(r, name, from, to)
<1>3. PICK method, version, length, behind :
        /\ method = IF Ends("method") = {} THEN s.head.method ELSE Method(r, Of("method"))
        /\ version = IF Ends("version") = {} THEN s.head.version ELSE Version(r, Of("version"))
        /\ length = IF Ends("value") # {} /\ \A i \in TokenAt(r, "name") : FirstCell(r, i) > from
                    THEN r.length ELSE s.head.length
        /\ behind = (s.head.behind \/ \E i \in TokenAt(r, "query") : FirstCell(r, i) \in from + 2 .. to)
  OBVIOUS
<1>4. PICK path, fragment :
        /\ path = IF Ends("path") = {} THEN s.head.path ELSE Of("path")
        /\ fragment = IF Ends("fragment") = {} THEN s.head.fragment ELSE Of("fragment")
  OBVIOUS
<1>5. PICK error : error = (s.head.error \/ "invalid" \in {method, version})
  OBVIOUS
<1>6. head = [method |-> Kept(method, s.head.method), path |-> path, query |-> query, fragment |-> fragment,
              version |-> Kept(version, s.head.version), length |-> length,
              error |-> error, behind |-> behind]
  <2> DEFINE done(name) == {i \in TokenAt(r, name) : StopCell(r, i) \in s.taken + 1 .. to}
             of(name) == Given(r, CHOOSE i \in done(name) : TRUE, s.taken)
             methodOf == IF done("method") = {} THEN s.head.method ELSE Method(r, of("method"))
             versionOf == IF done("version") = {} THEN s.head.version ELSE Version(r, of("version"))
             kept(new, old) == IF new = "invalid" THEN old ELSE new
             hasLength == done("value") # {} /\ \A i \in TokenAt(r, "name") : FirstCell(r, i) > s.taken
             seen == s.head.behind \/ \E i \in TokenAt(r, "query") : FirstCell(r, i) \in s.taken + 2 .. to
  <2>1. head = [method |-> kept(methodOf, s.head.method),
                path |-> IF done("path") = {} THEN s.head.path ELSE of("path"),
                query |-> query,
                fragment |-> IF done("fragment") = {} THEN s.head.fragment ELSE of("fragment"),
                version |-> kept(versionOf, s.head.version),
                length |-> IF hasLength THEN r.length ELSE s.head.length,
                error |-> s.head.error \/ "invalid" \in {methodOf, versionOf},
                behind |-> seen]
    BY DEF Parsed
  <2>2. ASSUME NEW name PROVE done(name) = Ends(name) /\ of(name) = Of(name)
    BY <1>1 DEF Ended, GivenOf
  <2>3. (hasLength <=> Ends("value") # {} /\ \A i \in TokenAt(r, "name") : FirstCell(r, i) > from) /\ seen = behind
    BY <1>1, <1>3, <2>2
  <2> HIDE DEF done, of, hasLength, seen, Ends, Of
  <2>4. methodOf = method /\ versionOf = version
    BY <1>3, <2>2
  <2>5. (IF hasLength THEN r.length ELSE s.head.length) = length
    BY <1>3, <2>3
  <2>6. /\ (IF done("path") = {} THEN s.head.path ELSE of("path")) = path
        /\ (IF done("fragment") = {} THEN s.head.fragment ELSE of("fragment")) = fragment
    BY <1>4, <2>2
  <2>7. (s.head.error \/ "invalid" \in {methodOf, versionOf}) = error
    BY <1>5, <2>4
  <2> HIDE DEF methodOf, versionOf
  <2> QED
    BY <2>1, <2>3, <2>4, <2>5, <2>6, <2>7
<1>7. /\ r.method \in Methods /\ r.method # "invalid" /\ TailOf[r.method] \in Methods \cup {"invalid"}
      /\ r.version \in {"1.0", "1.1"} /\ r.length \in Nat
  BY TokensOf, SessionAssumption
<1>8. /\ s.head.method \in Methods \cup {"GET"} /\ s.head.path \in {"default", "whole", "empty", "tail"}
      /\ s.head.fragment \in {"none", "whole", "empty", "tail"} /\ s.head.version \in {"1.0", "1.1"}
      /\ s.head.query \in {"none", "whole", "empty", "tail", "thrown"}
      /\ s.head.length \in Nat /\ s.head.behind \in BOOLEAN
  BY <1>2 DEF HeadRecords
<1>9. ASSUME NEW name, Ends(name) # {}
      PROVE  /\ Of(name) \in {"whole", "empty", "tail"}
             /\ name # "version" /\ Of(name) # "whole" => name \in s.cuts
             /\ name = "version" /\ Of(name) = "empty" => "versionEnd" \in s.cuts
             /\ name = "version" /\ Of(name) = "tail" => "version" \in s.cuts
  BY <1>2, <1>9, PartPassed
<1>10. ASSUME NEW name PROVE Ends(name) = {} => (Passed(r, name, to) <=> Passed(r, name, from))
  BY <1>2, PartPassed
<1> HIDE DEF Ends, Of
<1>11. /\ Ends("query") = {} => query = s.head.query
       /\ Ends("query") # {} =>
            query \in {"whole", "empty", "tail", "thrown"} /\ (query = "whole" \/ "query" \in s.cuts)
  BY <1>1, <1>2, QueryPassed DEF Ends
<1>12. /\ method \in Methods \cup {"GET", "invalid"} /\ (method = "invalid" => "method" \in s.cuts)
       /\ Passed(r, "method", to) /\ method # "invalid" => MethodGiven(r, method, s.cuts)
  <2>1. CASE Ends("method") = {}
    <3>1. method = s.head.method /\ (Passed(r, "method", to) => Passed(r, "method", from))
      BY <1>3, <1>10, <2>1
    <3>2. s.head.method # "invalid"
      BY <1>8, SessionAssumption
    <3> QED
      BY <1>2, <1>8, <3>1, <3>2 DEF PartsGiven
  <2>2. CASE Ends("method") # {}
    <3>1. method = Method(r, Of("method"))
      BY <1>3, <2>2
    <3>2. Of("method") \in {"whole", "empty", "tail"} /\ (Of("method") # "whole" => "method" \in s.cuts)
      BY <1>9, <2>2
    <3>3. /\ Of("method") = "whole" => method = r.method
          /\ Of("method") = "empty" => method = "invalid"
          /\ Of("method") = "tail" => method = TailOf[r.method]
      BY <3>1 DEF Method
    <3> QED
      BY <1>7, <3>2, <3>3 DEF MethodGiven
  <2> QED
    BY <2>1, <2>2
<1>13. /\ version \in {"1.0", "1.1", "invalid"} /\ (version = "invalid" => "version" \in s.cuts)
       /\ Passed(r, "version", to) /\ version # "invalid" => VersionGiven(r, version, s.cuts)
  <2>1. CASE Ends("version") = {}
    <3>1. version = s.head.version /\ (Passed(r, "version", to) => Passed(r, "version", from))
      BY <1>3, <1>10, <2>1
    <3> QED
      BY <1>2, <1>8, <3>1 DEF PartsGiven
  <2>2. CASE Ends("version") # {}
    <3>1. version = Version(r, Of("version"))
      BY <1>3, <2>2
    <3>2. /\ Of("version") \in {"whole", "empty", "tail"}
          /\ Of("version") = "empty" => "versionEnd" \in s.cuts
          /\ Of("version") = "tail" => "version" \in s.cuts
      BY <1>9, <2>2
    <3>3. /\ Of("version") = "whole" => version = r.version
          /\ Of("version") = "empty" => version = "1.1"
          /\ Of("version") = "tail" => version = "invalid"
      BY <3>1 DEF Version
    <3> QED
      BY <1>7, <3>2, <3>3 DEF VersionGiven
  <2> QED
    BY <2>1, <2>2
<1>14. /\ path \in {"default", "whole", "empty", "tail"} /\ (Passed(r, "path", to) => PathGiven(path, s.cuts))
  <2>1. CASE Ends("path") = {}
    BY <1>2, <1>4, <1>8, <1>10, <2>1 DEF PartsGiven
  <2>2. CASE Ends("path") # {}
    BY <1>4, <1>9, <2>2 DEF PathGiven
  <2> QED
    BY <2>1, <2>2
<1>15. /\ query \in {"none", "whole", "empty", "tail", "thrown"}
       /\ IF Passed(r, "query", to) THEN QueryGiven(query, s.cuts) ELSE query = "none"
  <2>1. CASE Ends("query") = {}
    BY <1>2, <1>8, <1>10, <1>11, <2>1 DEF PartsGiven
  <2>2. CASE Ends("query") # {}
    <3>1. Passed(r, "query", to)
      BY <1>2, <2>2, PartPassed DEF Ends
    <3> QED
      BY <1>11, <2>2, <3>1 DEF QueryGiven
  <2> QED
    BY <2>1, <2>2
<1>16. /\ fragment \in {"none", "whole", "empty", "tail"}
       /\ IF Passed(r, "fragment", to) THEN FragmentGiven(fragment, s.cuts) ELSE fragment = "none"
  <2>1. CASE Ends("fragment") = {}
    BY <1>2, <1>4, <1>8, <1>10, <2>1 DEF PartsGiven
  <2>2. CASE Ends("fragment") # {}
    <3>1. Passed(r, "fragment", to)
      BY <1>2, <2>2, PartPassed DEF Ends
    <3> QED
      BY <1>4, <1>9, <2>2, <3>1 DEF FragmentGiven
  <2> QED
    BY <2>1, <2>2
<1>17. /\ length \in Nat /\ (IF Passed(r, "value", to) THEN LengthGiven(r, length, s.cuts) ELSE length = 0)
  <2>1. length \in Nat
    BY <1>3, <1>7, <1>8
  <2>2. CASE Ends("value") = {}
    BY <1>2, <1>3, <1>10, <2>1, <2>2 DEF PartsGiven
  <2>3. CASE Ends("value") # {} /\ \A i \in TokenAt(r, "name") : FirstCell(r, i) > from
    <3>1. Passed(r, "value", to)
      BY <1>2, <2>3, PartPassed DEF Ends
    <3> QED
      BY <1>3, <2>1, <2>3, <3>1 DEF LengthGiven
  <2>4. ASSUME Ends("value") # {}, NEW i \in TokenAt(r, "name"), ~(FirstCell(r, i) > from)
        PROVE  LengthGiven(r, length, s.cuts) /\ Passed(r, "value", to)
    <3>1. Passed(r, "value", to)
      BY <1>2, <2>4, PartPassed DEF Ends
    <3>2. PICK j \in TokenAt(r, "value") : StopCell(r, j) > from
      BY <1>2, <2>4 DEF Ends, Ended
    <3>3. /\ DOMAIN r.tokens = 1 .. Len(r.tokens) /\ Len(r.tokens) \in Nat
          /\ i \in 1 .. Len(r.tokens) /\ j \in 1 .. Len(r.tokens) /\ r.tokens[i] = "name" /\ r.tokens[j] = "value"
          /\ j = i + 1
      BY <3>2, TokensOf DEF InOrder, TokenAt
    <3>4. from \in 3 * i - 2 .. 3 * j - 1
      BY <1>2, <2>4, <3>2, <3>3 DEF FirstCell, StopCell
    <3>5. /\ from \in {3 * i - 2, 3 * i - 1, 3 * i} => "name" \in Cut(r, from)
          /\ from \in {3 * j - 2, 3 * j - 1} => "value" \in Cut(r, from)
      <4>1. /\ from = 3 * i - 2 => r.tokens[i] \in Cut(r, from)
            /\ from = 3 * i - 1 => (IF r.tokens[i] = "version" THEN "versionEnd" ELSE r.tokens[i]) \in Cut(r, from)
            /\ from = 3 * i /\ r.tokens[i] = "name" => "name" \in Cut(r, from)
        BY <1>2, <3>3, CutToken
      <4>2. /\ from = 3 * j - 2 => r.tokens[j] \in Cut(r, from)
            /\ from = 3 * j - 1 => (IF r.tokens[j] = "version" THEN "versionEnd" ELSE r.tokens[j]) \in Cut(r, from)
        BY <1>2, <3>3, CutToken
      <4> QED
        BY <3>3, <4>1, <4>2
    <3>6. "name" \in s.cuts \/ "value" \in s.cuts
      <4>1. i \in Nat /\ j = i + 1
        BY <3>3
      <4>2. from \in {3 * i - 2, 3 * i - 1, 3 * i} \/ from \in {3 * j - 2, 3 * j - 1}
        BY <3>4, <4>1
      <4>3. "name" \in Cut(r, from) \/ "value" \in Cut(r, from)
        BY <3>5, <4>2, Zenon
      <4> QED
        BY <1>2, <4>3
    <3> QED
      BY <3>1, <3>6 DEF LengthGiven
  <2> QED
    BY <2>1, <2>2, <2>3, <2>4
<1>18. error \in BOOLEAN /\ behind \in BOOLEAN /\ (error = TRUE <=> method = "invalid" \/ version = "invalid")
  <2>1. error \in BOOLEAN
    BY <1>5, Zenon
  <2>2. "invalid" \in {method, version} <=> method = "invalid" \/ version = "invalid"
    BY Zenon
  <2>3. (error = TRUE) <=> "invalid" \in {method, version}
    BY <1>2, <1>5, Zenon
  <2>4. behind \in BOOLEAN
    BY <1>3, <1>8, Zenon
  <2> QED
    BY <2>1, <2>2, <2>3, <2>4, Zenon
<1>19. /\ head.method = Kept(method, s.head.method) /\ head.path = path /\ head.query = query
       /\ head.fragment = fragment /\ head.version = Kept(version, s.head.version) /\ head.length = length
       /\ head.error = error
  <2> HIDE DEF Kept
  <2> QED
    BY <1>6
<1>20. head \in HeadRecords
  <2>1. Kept(method, s.head.method) \in Methods \cup {"GET"} /\ Kept(version, s.head.version) \in {"1.0", "1.1"}
    BY <1>8, <1>12, <1>13
  <2> HIDE DEF Kept
  <2> QED
    BY <1>6, <1>14, <1>15, <1>16, <1>17, <1>18, <2>1 DEF HeadRecords
<1>21. RefusedNamed(head, s.cuts)
  <2>1. query = "thrown" => "query" \in s.cuts \/ s.head.query = "thrown"
    BY <1>11
  <2> QED
    BY <1>12, <1>13, <1>18, <1>19, <2>1 DEF RefusedNamed, Refusal
<1>22. ASSUME ~head.error PROVE PartsGiven(r, head, s.cuts, to)
  <2>1. method # "invalid" /\ version # "invalid"
    BY <1>18, <1>19, <1>22
  <2>2. head.method = method /\ head.version = version
    BY <1>19, <2>1
  <2> QED
    BY <1>12, <1>13, <1>14, <1>15, <1>16, <1>17, <1>19, <2>1, <2>2 DEF PartsGiven
<1> QED
  BY <1>19, <1>20, <1>21, <1>22

LEMMA SmallModulo ==
  ASSUME NEW n \in Nat \ {0}, NEW x \in Nat
  PROVE  x % n \in 0 .. n - 1 /\ (x < n => x % n = x)
<1> DEFINE q == x \div n
           m == x % n
<1>1. q \in Int /\ m \in 0 .. n - 1 /\ x = n * q + m
  OBVIOUS
<1> HIDE DEF q, m
<1>2. q >= 1 => n * q >= n
  BY <1>1
<1>3. q <= -1 => n * q <= -n
  BY <1>1
<1>4. q = 0 => n * q = 0
  BY <1>1
<1>5. n * q \in Int
  BY <1>1
<1>6. x < n => m = x
  BY <1>1, <1>2, <1>3, <1>4, <1>5
<1> QED
  BY <1>1, <1>6 DEF m

(* The int of a length is the length, if an int holds it. *)
LEMMA DeclaredOf ==
  ASSUME NEW v \in Nat
  PROVE  Declared(v) \in Nat /\ (Declared(v) = v \/ (v > MaxInt /\ Declared(v) < v))
<1> DEFINE size == 2 * (MaxInt + 1)
<1>1. MaxInt \in Nat \ {0} /\ size \in Nat \ {0}
  BY SessionAssumption
<1>2. \A x \in Nat : x % size \in 0 .. size - 1 /\ (x < size => x % size = x)
  BY <1>1, SmallModulo
<1>3. AsInt(v) = ((v + MaxInt + 1) % size) - (MaxInt + 1)
  BY DEF AsInt
<1>4. AsInt(v) \in Int /\ AsInt(v) <= MaxInt
  BY <1>1, <1>2, <1>3
<1>5. v <= MaxInt => AsInt(v) = v
  <2>1. v + MaxInt + 1 \in Nat /\ size = MaxInt + MaxInt + 2
    BY <1>1
  <2>2. v + MaxInt + 1 < size => (v + MaxInt + 1) % size = v + MaxInt + 1
    BY <1>2, <2>1
  <2> HIDE DEF size
  <2> QED
    BY <1>1, <1>3, <2>1, <2>2
<1> QED
  BY <1>1, <1>4, <1>5 DEF Declared

(* A step of one connection: its fiber stays out of the queue, joins it, or leaves it as its head. *)
LEMMA SessionMove ==
  ASSUME SessionInv, NEW c \in Conns, NEW new \in SessionRecords, session' = [session EXCEPT ![c] = new],
         SessionSound(request[c], new), arrived' \in [Conns -> Nat], request' = request,
         \/ session[c].pc \notin InQueue /\ ioQueue' = ioQueue
         \/ session[c].pc \notin InQueue /\ new.pc \in InQueue /\ ioQueue' = Append(ioQueue, c)
         \/ ioQueue # <<>> /\ c = Head(ioQueue) /\ ioQueue' = Tail(ioQueue)
  PROVE  SessionInv'
<1>1. /\ session' \in [Conns -> SessionRecords] /\ session'[c] = new
      /\ \A d \in Conns \ {c} : session'[d] = session[d]
  BY DEF SessionInv
<1>2. \A d \in Conns : SessionSound(request'[d], session'[d])
  BY <1>1 DEF SessionInv
<1>3. /\ ioQueue \in Seq(Conns) /\ Len(ioQueue) \in Nat
      /\ \A i \in 1 .. Len(ioQueue) : session[ioQueue[i]].pc \in InQueue /\ ioQueue[i] \in Conns
      /\ \A i, j \in 1 .. Len(ioQueue) : ioQueue[i] = ioQueue[j] => i = j
  BY ElementOfSeq, LenProperties DEF SessionInv, QueueSound
<1>4. QueueSound'
  <2>1. CASE session[c].pc \notin InQueue /\ ioQueue' = ioQueue
    <3>1. \A i \in 1 .. Len(ioQueue) : ioQueue[i] # c
      BY <1>3, <2>1
    <3> QED
      BY <1>1, <1>3, <2>1, <3>1 DEF QueueSound
  <2>2. CASE session[c].pc \notin InQueue /\ new.pc \in InQueue /\ ioQueue' = Append(ioQueue, c)
    <3>1. \A i \in 1 .. Len(ioQueue) : ioQueue[i] # c
      BY <1>3, <2>2
    <3>2. /\ ioQueue' \in Seq(Conns) /\ Len(ioQueue') = Len(ioQueue) + 1
          /\ ioQueue'[Len(ioQueue) + 1] = c /\ \A i \in 1 .. Len(ioQueue) : ioQueue'[i] = ioQueue[i]
      BY <1>3, <2>2, AppendProperties
    <3>3. \A i \in 1 .. Len(ioQueue') : i \in 1 .. Len(ioQueue) \/ i = Len(ioQueue) + 1
      BY <1>3, <3>2
    <3>4. \A i \in 1 .. Len(ioQueue') : session'[ioQueue'[i]].pc \in InQueue
      BY <1>1, <1>3, <2>2, <3>1, <3>2, <3>3
    <3>5. \A i, j \in 1 .. Len(ioQueue') : ioQueue'[i] = ioQueue'[j] => i = j
      BY <1>3, <3>1, <3>2, <3>3
    <3> QED
      BY <3>2, <3>4, <3>5 DEF QueueSound
  <2>3. CASE ioQueue # <<>> /\ c = Head(ioQueue) /\ ioQueue' = Tail(ioQueue)
    <3>1. /\ ioQueue' \in Seq(Conns) /\ Len(ioQueue') = Len(ioQueue) - 1 /\ Len(ioQueue) >= 1 /\ ioQueue[1] = c
          /\ \A i \in 1 .. Len(ioQueue') : ioQueue'[i] = ioQueue[i + 1]
      BY <1>3, <2>3, HeadTailProperties, EmptySeq
    <3>2. \A i \in 1 .. Len(ioQueue') : i + 1 \in 1 .. Len(ioQueue) /\ i \in Nat /\ i + 1 # 1
      BY <1>3, <3>1
    <3>3. \A i \in 1 .. Len(ioQueue') : ioQueue'[i] # c
      <4> TAKE i \in 1 .. Len(ioQueue')
      <4>1. ioQueue'[i] = ioQueue[i + 1] /\ i + 1 \in 1 .. Len(ioQueue) /\ i + 1 # 1 /\ 1 \in 1 .. Len(ioQueue)
        BY <1>3, <3>1, <3>2
      <4>2. ioQueue[i + 1] # ioQueue[1]
        BY <1>3, <4>1, Zenon
      <4> QED
        BY <3>1, <4>1, <4>2
    <3>4. \A i \in 1 .. Len(ioQueue') : session'[ioQueue'[i]].pc \in InQueue
      <4> SUFFICES ASSUME NEW i \in 1 .. Len(ioQueue') PROVE session'[ioQueue'[i]].pc \in InQueue
        OBVIOUS
      <4>1. ioQueue'[i] \in Conns \ {c} /\ session[ioQueue'[i]].pc \in InQueue
        BY <1>3, <3>1, <3>2, <3>3
      <4> QED
        BY <1>1, <4>1
    <3>5. \A i, j \in 1 .. Len(ioQueue') : ioQueue'[i] = ioQueue'[j] => i = j
      <4> SUFFICES ASSUME NEW i \in 1 .. Len(ioQueue'), NEW j \in 1 .. Len(ioQueue'), ioQueue'[i] = ioQueue'[j]
                   PROVE  i = j
        OBVIOUS
      <4>1. i + 1 = j + 1
        <5>1. /\ i + 1 \in 1 .. Len(ioQueue) /\ j + 1 \in 1 .. Len(ioQueue)
              /\ ioQueue'[i] = ioQueue[i + 1] /\ ioQueue'[j] = ioQueue[j + 1]
          BY <1>3, <3>1, <3>2
        <5>2. ioQueue[i + 1] = ioQueue[j + 1]
          BY <5>1
        <5> QED
          BY <1>3, <5>1, <5>2, Zenon
      <4> QED
        BY <3>2, <4>1
    <3> QED
      BY <3>1, <3>4, <3>5 DEF QueueSound
  <2> QED
    BY <2>1, <2>2, <2>3
<1> QED
  BY <1>1, <1>2, <1>4 DEF SessionInv

LEMMA SessionInitInv == SessionInit => SessionInv
<1> SUFFICES ASSUME SessionInit PROVE SessionInv
  OBVIOUS
<1>1. Fresh \in SessionRecords /\ Fresh.pc = "none" /\ Fresh.taken = 0 /\ Fresh.head = Unset /\ Unset.error = FALSE
      /\ Unset.length = 0 /\ Unset.query = "none" /\ Unset.fragment = "none"
  BY DEF Fresh, Unset, SessionRecords, HeadRecords, SessionPlaces, ReadingHead, ReadingBody, InQueue,
         PartNames, RequestTokens
<1>2. ASSUME NEW r \in Requests PROVE SessionSound(r, Fresh)
  <2>1. HeadEnd(r) \in Nat /\ HeadEnd(r) >= 1 /\ Cut(r, 0) = {}
    BY CutNames, TokensOf DEF HeadEnd, InOrder
  <2>2. ASSUME NEW name PROVE ~Passed(r, name, 0)
    BY TokensOf DEF Passed, TokenAt, StopCell, InOrder
  <2>3. HeadRead(r, Fresh)
    BY <1>1, <2>1, <2>2 DEF HeadRead, PartsGiven
  <2>4. RefusedNamed(Fresh.head, Fresh.cuts)
    BY <1>1 DEF RefusedNamed, Refusal
  <2> QED
    BY <1>1, <2>3, <2>4 DEF SessionSound, ReadingBody
<1> QED
  BY <1>1, <1>2 DEF SessionInit, SessionInv, QueueSound

(* A step that moves only the place of a fiber. *)
LEMMA PlaceMove ==
  ASSUME SessionInv, NEW c \in Conns, NEW pc \in SessionPlaces, session' = [session EXCEPT ![c].pc = pc],
         \/ pc \in ReadingHead /\ session[c].pc \in ReadingHead
         \/ pc \in ReadingBody /\ session[c].pc \in ReadingBody
         \/ pc \notin ReadingHead \cup ReadingBody \cup {"handle"},
         arrived' \in [Conns -> Nat], request' = request,
         \/ session[c].pc \notin InQueue /\ ioQueue' = ioQueue
         \/ session[c].pc \notin InQueue /\ pc \in InQueue /\ ioQueue' = Append(ioQueue, c)
         \/ ioQueue # <<>> /\ c = Head(ioQueue) /\ ioQueue' = Tail(ioQueue)
  PROVE  SessionInv'
<1> DEFINE new == [session[c] EXCEPT !.pc = pc]
<1>1. session[c] \in SessionRecords /\ SessionSound(request[c], session[c])
  BY DEF SessionInv
<1>2. session' = [session EXCEPT ![c] = new]
  BY DEF SessionInv
<1>3. /\ new \in SessionRecords /\ new.pc = pc /\ new.taken = session[c].taken /\ new.head = session[c].head
      /\ new.left = session[c].left /\ new.body = session[c].body /\ new.cuts = session[c].cuts
  BY <1>1 DEF SessionRecords
<1> HIDE DEF new
<1>4. HeadRead(request[c], session[c]) => HeadRead(request[c], new)
  BY <1>3 DEF HeadRead
<1>5. /\ pc \in ReadingHead => session[c].pc \in ReadingHead
      /\ pc \in ReadingBody => session[c].pc \in ReadingBody
      /\ pc # "handle"
  BY DEF ReadingHead, ReadingBody, InQueue
<1>6. SessionSound(request[c], new)
  BY <1>1, <1>3, <1>4, <1>5 DEF SessionSound, RefusedNamed
<1> QED
  BY <1>2, <1>3, <1>6, SessionMove

LEMMA ArriveInv == ASSUME SessionInv, NEW c \in Conns, Arrive(c) PROVE SessionInv'
<1>1. /\ session[c].pc = "none" /\ session' = [session EXCEPT ![c].pc = "queued"]
      /\ ioQueue' = Append(ioQueue, c) /\ UNCHANGED <<arrived, request>> /\ arrived' \in [Conns -> Nat]
  BY DEF Arrive, SessionInv
<1>2. /\ "queued" \in SessionPlaces /\ "queued" \in ReadingHead /\ "none" \in ReadingHead /\ "none" \notin InQueue
      /\ "queued" \in InQueue
  BY DEF SessionPlaces, ReadingHead, InQueue
<1> QED
  BY <1>1, <1>2, PlaceMove

LEMMA ResumeInv == ASSUME SessionInv, Resume PROVE SessionInv'
<1> DEFINE c == Head(ioQueue)
<1>1. ioQueue # <<>> /\ ioQueue' = Tail(ioQueue) /\ UNCHANGED <<arrived, request>>
  BY DEF Resume
<1>2. /\ c \in Conns /\ session[c].pc \in InQueue
  <2>1. ioQueue \in Seq(Conns) /\ Len(ioQueue) \in Nat \ {0} /\ c = ioQueue[1]
    BY <1>1, EmptySeq DEF SessionInv, QueueSound
  <2> QED
    BY <2>1, ElementOfSeq DEF SessionInv, QueueSound
<1>3. PICK pc : /\ session' = [session EXCEPT ![c].pc = pc]
                /\ \/ session[c].pc \in {"queued", "woken_recv"} /\ pc = "recv"
                   \/ session[c].pc = "woken_body" /\ pc = "body"
                   \/ session[c].pc = "woken_send" /\ pc = "send"
                   \/ session[c].pc = "timed_out" /\ pc = "close"
  <2> DEFINE at == session[c].pc
             to == CASE at \in {"queued", "woken_recv"} -> "recv" [] at = "woken_body" -> "body"
                     [] at = "woken_send" -> "send" [] at = "timed_out" -> "close"
  <2>1. session' = [session EXCEPT ![c].pc = to]
    BY DEF Resume
  <2>2. at \in InQueue
    BY <1>2
  <2> HIDE DEF at
  <2>3. \/ at \in {"queued", "woken_recv"} /\ to = "recv"
        \/ at = "woken_body" /\ to = "body"
        \/ at = "woken_send" /\ to = "send"
        \/ at = "timed_out" /\ to = "close"
    <3>1. CASE at \in {"queued", "woken_recv"}
      BY <3>1
    <3>2. CASE at = "woken_body"
      BY <3>2
    <3>3. CASE at = "woken_send"
      BY <3>3
    <3>4. CASE at = "timed_out"
      BY <3>4
    <3> HIDE DEF to
    <3> QED
      BY <2>2, <3>1, <3>2, <3>3, <3>4 DEF InQueue
  <2> HIDE DEF to
  <2> QED
    BY <2>1, <2>3 DEF at
<1>4. /\ pc \in SessionPlaces
      /\ \/ pc \in ReadingHead /\ session[c].pc \in ReadingHead
         \/ pc \in ReadingBody /\ session[c].pc \in ReadingBody
         \/ pc \notin ReadingHead \cup ReadingBody \cup {"handle"}
  BY <1>3 DEF SessionPlaces, ReadingHead, ReadingBody, InQueue
<1>5. arrived' \in [Conns -> Nat] /\ request' = request
  BY <1>1 DEF SessionInv
<1> HIDE DEF c
<1>6. c = Head(ioQueue)
  BY DEF c
<1> QED
  BY <1>1, <1>2, <1>3, <1>4, <1>5, <1>6, PlaceMove

LEMMA PieceRead ==
  ASSUME NEW r \in Requests, NEW s \in SessionRecords, s.pc = "recv", SessionSound(r, s),
         NEW to \in Nat, s.taken < to, NEW upto, upto = (IF to < HeadEnd(r) THEN to ELSE HeadEnd(r)),
         NEW query \in QueriesGiven(r, s.head, s.taken, upto),
         NEW new, new = AfterPiece(r, s, to, query)
  PROVE  new \in SessionRecords /\ SessionSound(r, new)
<1>0. PICK head, int, rest :
        /\ head = Parsed(r, s.head, s.taken, upto, query) /\ int = Declared(head.length) /\ rest = to - upto
        /\ new = [s EXCEPT !.taken = to, !.head = head, !.cuts = @ \cup Cut(r, to),
                     !.pc = IF head.error \/ query = "thrown" THEN "close"
                            ELSE IF to < HeadEnd(r) THEN "recv"
                            ELSE IF int > rest THEN "body" ELSE "handle",
                     !.left = IF int > rest THEN int - rest ELSE 0,
                     !.body = IF int > rest THEN rest ELSE int]
  BY ZenonT(60) DEF AfterPiece, Declared
<1>1. HeadRead(r, s) /\ s.taken \in Nat /\ RefusedNamed(s.head, s.cuts)
  BY DEF SessionSound, ReadingHead, SessionRecords
<1>2. HeadEnd(r) \in Nat /\ s.taken < HeadEnd(r)
  BY <1>1, TokensOf DEF HeadRead, HeadEnd, InOrder
<1>3. /\ upto \in s.taken + 1 .. HeadEnd(r) /\ rest \in Nat
      /\ IF to < HeadEnd(r) THEN upto = to ELSE upto = HeadEnd(r)
  BY <1>0, <1>1, <1>2
<1>4. /\ head \in HeadRecords /\ RefusedNamed(head, s.cuts) /\ head.query = query
      /\ ~head.error => PartsGiven(r, head, s.cuts, upto)
  <2>1. upto \in s.taken + 1 .. HeadEnd(r) /\ head = Parsed(r, s.head, s.taken, upto, query)
    BY <1>0, <1>3
  <2> QED
    BY <1>1, <2>1, PieceParsed, SMTT(30)
<1>5. int \in Nat
  BY <1>0, <1>4, DeclaredOf DEF HeadRecords
<1>6. PICK cuts : cuts = s.cuts \cup Cut(r, to)
  OBVIOUS
<1>7. cuts \in SUBSET PartNames /\ s.cuts \subseteq cuts /\ Cut(r, to) \subseteq cuts
  BY <1>6, CutNames DEF SessionRecords
<1>8. RefusedNamed(head, cuts) /\ (~head.error => PartsGiven(r, head, cuts, upto))
  <2>1. RefusedNamed(head, cuts)
    BY <1>4, <1>7 DEF RefusedNamed
  <2>2. ~head.error => PartsGiven(r, head, cuts, upto)
    BY <1>4, <1>7 DEF PartsGiven, MethodGiven, PathGiven, QueryGiven, FragmentGiven, VersionGiven, LengthGiven
  <2> QED
    BY <2>1, <2>2
<1>9. PICK pc : pc = IF head.error \/ query = "thrown" THEN "close"
                     ELSE IF to < HeadEnd(r) THEN "recv"
                     ELSE IF int > rest THEN "body" ELSE "handle"
  OBVIOUS
<1>10. pc \in SessionPlaces
  BY <1>9 DEF SessionPlaces, ReadingHead, ReadingBody
<1>11. PICK left, body : left = (IF int > rest THEN int - rest ELSE 0) /\ body = IF int > rest THEN rest ELSE int
  OBVIOUS
<1>12. left \in Nat /\ body \in Nat /\ (int > rest => body + left = int) /\ (~(int > rest) => body = int)
  BY <1>3, <1>5, <1>11
<1>13. new = [s EXCEPT !.taken = to, !.head = head, !.cuts = cuts, !.pc = pc, !.left = left, !.body = body]
  BY <1>0, <1>6, <1>9, <1>11
<1>14. /\ new \in SessionRecords /\ new.pc = pc /\ new.taken = to /\ new.head = head /\ new.cuts = cuts
       /\ new.left = left /\ new.body = body
  BY <1>4, <1>7, <1>10, <1>12, <1>13 DEF SessionRecords
<1>15. CASE head.error \/ query = "thrown"
  <2>1. new.pc = "close" /\ RefusedNamed(new.head, new.cuts)
    BY <1>8, <1>9, <1>14, <1>15
  <2> QED
    BY <1>14, <2>1 DEF SessionSound, ReadingHead, ReadingBody
<1>16. CASE ~(head.error \/ query = "thrown") /\ to < HeadEnd(r)
  <2>1. pc = "recv" /\ HeadRead(r, new)
    BY <1>3, <1>7, <1>8, <1>9, <1>14, <1>16 DEF HeadRead
  <2> QED
    BY <1>8, <1>14, <2>1 DEF SessionSound, ReadingHead, ReadingBody
<1>17. CASE ~(head.error \/ query = "thrown") /\ ~(to < HeadEnd(r))
  <2>1. PartsGiven(r, head, cuts, HeadEnd(r)) /\ pc = IF int > rest THEN "body" ELSE "handle"
    BY <1>3, <1>8, <1>9, <1>17
  <2>2. /\ RefusedNamed(new.head, new.cuts) /\ PartsGiven(r, new.head, new.cuts, HeadEnd(r))
        /\ new.pc = "body" => new.body + new.left = Declared(new.head.length)
        /\ new.pc = "handle" => new.body = Declared(new.head.length)
    BY <1>0, <1>8, <1>12, <1>14, <2>1
  <2> QED
    BY <1>14, <2>1, <2>2 DEF SessionSound, ReadingHead, ReadingBody
<1> QED
  BY <1>15, <1>16, <1>17

LEMMA RecvInv == ASSUME SessionInv, NEW c \in Conns, Recv(c) PROVE SessionInv'
<1>1. PICK s \in SessionRecords, r \in Requests : s = session[c] /\ r = request[c] /\ SessionSound(r, s)
  BY DEF SessionInv
<1>2. PICK to, upto : /\ to = s.taken + (IF Available(c) < BuffSize THEN Available(c) ELSE BuffSize)
                      /\ upto = IF to < HeadEnd(r) THEN to ELSE HeadEnd(r)
  OBVIOUS
<1>3. /\ s.pc = "recv" /\ UNCHANGED <<ioQueue, arrived, request>>
      /\ \/ /\ to > s.taken
            /\ \E query \in QueriesGiven(r, s.head, s.taken, upto) :
                 session' = [session EXCEPT ![c] = AfterPiece(r, s, to, query)]
         \/ \E pc \in {"parked_recv", "missed_recv"} : session' = [session EXCEPT ![c].pc = pc]
         \/ UNCHANGED session
  BY <1>1, <1>2 DEF Recv, Park
<1>4. arrived' \in [Conns -> Nat] /\ request' = request /\ s.pc \notin InQueue /\ s.pc \in ReadingHead
  BY <1>3 DEF SessionInv, InQueue, ReadingHead
<1>5. to > s.taken => to \in Nat /\ s.taken < to
  <2>1. s.taken \in Nat /\ arrived[c] \in Nat /\ BuffSize \in Nat
    BY <1>1, SessionAssumption DEF SessionInv, SessionRecords
  <2> QED
    BY <1>1, <1>2, <2>1 DEF Available
<1>6. ASSUME to > s.taken, NEW query \in QueriesGiven(r, s.head, s.taken, upto),
             session' = [session EXCEPT ![c] = AfterPiece(r, s, to, query)]
      PROVE  SessionInv'
  <2>1. PICK new : new = AfterPiece(r, s, to, query)
    OBVIOUS
  <2>2. new \in SessionRecords /\ SessionSound(r, new)
    BY <1>1, <1>2, <1>3, <1>5, <1>6, <2>1, PieceRead
  <2> QED
    BY <1>1, <1>3, <1>4, <1>6, <2>1, <2>2, SessionMove
<1>7. ASSUME NEW pc \in {"parked_recv", "missed_recv"}, session' = [session EXCEPT ![c].pc = pc]
      PROVE  SessionInv'
  <2>1. pc \in SessionPlaces /\ pc \in ReadingHead
    BY <1>7 DEF SessionPlaces, ReadingHead
  <2> QED
    BY <1>1, <1>3, <1>4, <1>7, <2>1, PlaceMove
<1>8. CASE UNCHANGED session
  BY <1>3, <1>8 DEF SessionInv, QueueSound
<1> QED
  BY <1>3, <1>6, <1>7, <1>8

(* readFixSize moves cells from what is missing to what the body has. *)
LEMMA ReadBodyInv == ASSUME SessionInv, NEW c \in Conns, ReadBody(c) PROVE SessionInv'
<1>1. PICK s \in SessionRecords, r \in Requests : s = session[c] /\ r = request[c] /\ SessionSound(r, s)
  BY DEF SessionInv
<1>2. PICK n : n = IF Available(c) < s.left THEN Available(c) ELSE s.left
  OBVIOUS
<1>3. /\ s.pc = "body" /\ UNCHANGED <<ioQueue, arrived, request>>
      /\ \/ /\ n > 0
            /\ session' = [session EXCEPT ![c] =
                 [s EXCEPT !.taken = @ + n, !.left = @ - n, !.body = @ + n,
                           !.pc = IF n = s.left THEN "handle" ELSE "body"]]
         \/ n = 0 /\ \E pc \in {"parked_body", "missed_body", "close"} : session' = [session EXCEPT ![c].pc = pc]
  BY <1>1, <1>2 DEF ReadBody, Park
<1>4. arrived' \in [Conns -> Nat] /\ request' = request /\ s.pc \notin InQueue /\ s.pc \in ReadingBody
  BY <1>3 DEF SessionInv, InQueue, ReadingBody
<1>5. /\ s.taken \in Nat /\ s.left \in Nat /\ s.body \in Nat /\ arrived[c] \in Nat
      /\ s.body + s.left = Declared(s.head.length) /\ PartsGiven(r, s.head, s.cuts, HeadEnd(r))
      /\ RefusedNamed(s.head, s.cuts)
  BY <1>1, <1>4 DEF SessionInv, SessionRecords, SessionSound
<1>6. n \in Int /\ n <= s.left
  BY <1>1, <1>2, <1>5 DEF Available
<1>7. CASE n > 0
  <2>1. PICK pc : pc = IF n = s.left THEN "handle" ELSE "body"
    OBVIOUS
  <2>2. PICK new : new = [s EXCEPT !.taken = s.taken + n, !.left = s.left - n, !.body = s.body + n, !.pc = pc]
    OBVIOUS
  <2>3. session' = [session EXCEPT ![c] = new]
    BY <1>3, <1>7, <2>1, <2>2
  <2>4. pc \in SessionPlaces /\ s.taken + n \in Nat /\ s.left - n \in Nat /\ s.body + n \in Nat
    BY <1>5, <1>6, <1>7, <2>1 DEF SessionPlaces, ReadingBody
  <2>5. /\ new \in SessionRecords /\ new.pc = pc /\ new.head = s.head /\ new.cuts = s.cuts
        /\ new.left = s.left - n /\ new.body = s.body + n
    BY <2>2, <2>4 DEF SessionRecords
  <2>6. new.body + new.left = Declared(s.head.length) /\ (n = s.left => new.body = Declared(s.head.length))
    BY <1>5, <1>6, <2>5
  <2>7. SessionSound(r, new)
    BY <1>5, <2>1, <2>5, <2>6 DEF SessionSound, ReadingHead, ReadingBody
  <2> QED
    BY <1>1, <1>3, <1>4, <2>3, <2>5, <2>7, SessionMove
<1>8. CASE n = 0
  <2>1. PICK pc \in {"parked_body", "missed_body", "close"} : session' = [session EXCEPT ![c].pc = pc]
    BY <1>3, <1>8
  <2>2. /\ pc \in SessionPlaces
        /\ \/ pc \in ReadingBody /\ session[c].pc \in ReadingBody
           \/ pc \notin ReadingHead \cup ReadingBody \cup {"handle"}
    BY <1>1, <1>4, <2>1 DEF SessionPlaces, ReadingHead, ReadingBody
  <2> QED
    BY <1>1, <1>3, <1>4, <2>1, <2>2, PlaceMove
<1> QED
  BY <1>3, <1>7, <1>8

(* Steps that move only the place of a fiber: the servlet, the answer and the close, what epoll
   reports and what the timer of a socket does. *)
LEMMA PlaceStepInv ==
  ASSUME SessionInv, NEW c \in Conns,
         Handle(c) \/ SendResponse(c) \/ CloseSession(c) \/ Wake(c) \/ Timeout(c)
  PROVE  SessionInv'
<1>1. CASE Handle(c) \/ SendResponse(c) \/ CloseSession(c)
  <2>1. PICK pc \in {"send", "close", "parked_send", "closed"} :
          /\ session[c].pc \in {"handle", "send", "close"} /\ session' = [session EXCEPT ![c].pc = pc]
          /\ UNCHANGED <<ioQueue, arrived, request>>
    BY <1>1 DEF Handle, SendResponse, CloseSession, Goto
  <2>2. /\ pc \in SessionPlaces /\ pc \notin ReadingHead \cup ReadingBody \cup {"handle"}
        /\ session[c].pc \notin InQueue
    BY <2>1 DEF SessionPlaces, ReadingHead, ReadingBody, InQueue
  <2>3. arrived' \in [Conns -> Nat] /\ request' = request /\ ioQueue' = ioQueue
    BY <2>1 DEF SessionInv
  <2> QED
    BY <2>1, <2>2, <2>3, PlaceMove
<1>2. CASE Wake(c) \/ Timeout(c)
  <2>1. PICK pc \in InQueue :
          /\ session' = [session EXCEPT ![c].pc = pc] /\ ioQueue' = Append(ioQueue, c)
          /\ UNCHANGED <<arrived, request>>
          /\ session[c].pc \in {"parked_recv", "missed_recv", "parked_body", "missed_body", "parked_send"}
          /\ \/ session[c].pc \in {"parked_recv", "missed_recv"} /\ pc = "woken_recv"
             \/ session[c].pc \in {"parked_body", "missed_body"} /\ pc = "woken_body"
             \/ pc \in {"woken_send", "timed_out"}
    BY <1>2 DEF Wake, Timeout, Schedule, InQueue
  <2>2. /\ pc \in SessionPlaces /\ session[c].pc \notin InQueue
        /\ \/ pc \in ReadingHead /\ session[c].pc \in ReadingHead
           \/ pc \in ReadingBody /\ session[c].pc \in ReadingBody
           \/ pc \notin ReadingHead \cup ReadingBody \cup {"handle"}
    BY <2>1 DEF SessionPlaces, ReadingHead, ReadingBody, InQueue
  <2>3. arrived' \in [Conns -> Nat] /\ request' = request
    BY <2>1 DEF SessionInv
  <2> QED
    BY <2>1, <2>2, <2>3, PlaceMove
<1> QED
  BY <1>1, <1>2

(* The peer reaches the session only through what has arrived. *)
LEMMA PeerInv ==
  ASSUME SessionInv, NEW c \in Conns, PeerSends(c) \/ PeerShuts(c)
  PROVE  SessionInv'
<1>1. UNCHANGED <<session, ioQueue, request>>
  BY DEF PeerSends, PeerShuts
<1>2. arrived' \in [Conns -> Nat]
  <2>1. CASE PeerSends(c)
    <3>1. PICK n : /\ n \in (Arrivals \cap 1 .. Total(request[c])) \cup {Total(request[c])}
                   /\ arrived' = [arrived EXCEPT ![c] = n]
      BY <2>1 DEF PeerSends
    <3>2. request[c] \in Requests
      BY DEF SessionInv
    <3>3. Total(request[c]) \in Nat
      BY <3>2, TokensOf DEF Total, HeadEnd, InOrder
    <3>4. n \in Nat
      BY <3>1, <3>3, SessionAssumption
    <3> QED
      BY <3>1, <3>4 DEF SessionInv
  <2>2. CASE PeerShuts(c)
    BY <2>2 DEF PeerShuts, SessionInv
  <2> QED
    BY <2>1, <2>2
<1> QED
  BY <1>1, <1>2 DEF SessionInv, QueueSound

LEMMA SessionNextInv == SessionInv /\ SessionNext => SessionInv'
<1> SUFFICES ASSUME SessionInv, SessionNext PROVE SessionInv'
  OBVIOUS
<1>1. CASE Resume
  BY <1>1, ResumeInv
<1>2. ASSUME NEW c \in Conns, SessionStep(c) \/ Wake(c) \/ Timeout(c) \/ PeerSends(c) \/ PeerShuts(c)
      PROVE  SessionInv'
  BY <1>2, RecvInv, ReadBodyInv, PlaceStepInv, PeerInv DEF SessionStep
<1> QED
  BY <1>1, <1>2 DEF SessionNext

LEMMA ServerNextInv == SessionInv /\ [ServerNext]_<<tcpVars, sessionVars>> => SessionInv'
<1> SUFFICES ASSUME SessionInv, [ServerNext]_<<tcpVars, sessionVars>> PROVE SessionInv'
  OBVIOUS
<1>1. CASE \E f \in Fibers, c \in Clients : AcceptConnection(f, c)
  BY <1>1, ArriveInv, ServerAssumption DEF AcceptConnection
<1>2. CASE UNCHANGED sessionVars
  BY <1>2 DEF sessionVars, SessionInv, QueueSound
<1>3. CASE SessionNext
  BY <1>3, SessionNextInv
<1> QED
  BY <1>1, <1>2, <1>3 DEF ServerNext

(* No request is refused but for a part that was cut; at the servlet every part was parsed, and the
   body is what the int of its length declared. *)
LEMMA HandedIntact == SessionInv => RequestIntact
<1> SUFFICES ASSUME SessionInv, NEW c \in Conns
             PROVE  LET s == session[c]
                        r == request[c]
                        Sent(name) == IF TokenAt(r, name) = {} THEN "none" ELSE "whole"
                    IN /\ s.head.error \/ s.head.query = "thrown" => s.cuts \cap {"method", "query", "version"} # {}
                       /\ s.pc = "handle" =>
                            /\ s.head.method = r.method \/ ("method" \in s.cuts /\ s.head.method = TailOf[r.method])
                            /\ s.head.path = "whole" \/ "path" \in s.cuts
                            /\ s.head.query = Sent("query") \/ "query" \in s.cuts
                            /\ s.head.fragment = Sent("fragment") \/ "fragment" \in s.cuts
                            /\ s.head.version = r.version \/ "versionEnd" \in s.cuts
                            /\ s.head.length = r.length \/ s.cuts \cap {"name", "value"} # {}
                            /\ s.body = s.head.length \/ (s.head.length > MaxInt /\ s.body < s.head.length)
  BY DEF RequestIntact, HandedAsSent, RefusedWhenCut, BodyAsDeclared
<1>1. PICK s \in SessionRecords, r \in Requests : s = session[c] /\ r = request[c] /\ SessionSound(r, s)
  BY DEF SessionInv
<1>2. s.head.error \/ s.head.query = "thrown" => s.cuts \cap {"method", "query", "version"} # {}
  BY <1>1 DEF SessionSound, RefusedNamed, Refusal
<1>3. ASSUME s.pc = "handle"
      PROVE  /\ MethodGiven(r, s.head.method, s.cuts) /\ PathGiven(s.head.path, s.cuts)
             /\ IF TokenAt(r, "query") = {} THEN s.head.query = "none" ELSE QueryGiven(s.head.query, s.cuts)
             /\ IF TokenAt(r, "fragment") = {} THEN s.head.fragment = "none" ELSE FragmentGiven(s.head.fragment, s.cuts)
             /\ VersionGiven(r, s.head.version, s.cuts) /\ LengthGiven(r, s.head.length, s.cuts)
             /\ s.body = s.head.length \/ (s.head.length > MaxInt /\ s.body < s.head.length)
  <2>1. PartsGiven(r, s.head, s.cuts, HeadEnd(r)) /\ s.body = Declared(s.head.length)
    BY <1>1, <1>3 DEF SessionSound
  <2>2. \A i \in DOMAIN r.tokens : StopCell(r, i) <= HeadEnd(r)
    BY TokensOf DEF InOrder, StopCell, HeadEnd
  <2>3. ASSUME NEW name PROVE Passed(r, name, HeadEnd(r)) <=> TokenAt(r, name) # {}
    BY <2>2 DEF Passed, TokenAt
  <2>4. TokenAt(r, "method") # {} /\ TokenAt(r, "path") # {} /\ TokenAt(r, "version") # {}
    BY TokensOf DEF InOrder, TokenAt
  <2>5. LengthGiven(r, s.head.length, s.cuts)
    <3>1. CASE TokenAt(r, "value") = {}
      <4>1. s.head.length = 0 /\ r.length = 0
        BY <2>1, <2>3, <3>1, TokensOf DEF PartsGiven
      <4> QED
        BY <4>1 DEF LengthGiven
    <3>2. CASE TokenAt(r, "value") # {}
      BY <2>1, <2>3, <3>2 DEF PartsGiven
    <3> QED
      BY <3>1, <3>2
  <2>6. s.body = s.head.length \/ (s.head.length > MaxInt /\ s.body < s.head.length)
    BY <2>1, DeclaredOf DEF SessionRecords, HeadRecords
  <2> QED
    BY <2>1, <2>3, <2>4, <2>5, <2>6 DEF PartsGiven
<1> QED
  BY <1>1, <1>2, <1>3 DEF MethodGiven, PathGiven, QueryGiven, FragmentGiven, VersionGiven, LengthGiven

-----------------------------------------------------------------------------
(* The same of a response.  A version that is not 1.1, or is cut, is an error, after which nothing
   is parsed. *)
AnswerNames == {"version", "versionEnd", "status", "reason", "name", "value"}
StatusGiven(status, cuts) == status = "whole" \/ "status" \in cuts
ReasonGiven(reason, cuts) == reason = "whole" \/ "reason" \in cuts
AnswerGiven(r, data, cuts, at) ==
  /\ data.error \in BOOLEAN /\ data.version # "invalid"
  /\ data.error => r.version # "1.1" \/ "version" \in cuts
  /\ ~data.error =>
       /\ at >= 3 => VersionGiven(r, data.version, cuts)
       /\ at >= 6 => StatusGiven(data.status, cuts)
       /\ at >= 9 => ReasonGiven(data.reason, cuts)
       /\ at < 15 \/ Len(r.tokens) = 3 => data.length = 0
       /\ at >= 15 /\ Len(r.tokens) = 5 => LengthGiven(r, data.length, cuts)

(* The tokens of a response, where they are, and that a read which ends within one names it. *)
LEMMA AnswerTokens ==
  ASSUME NEW r \in Responses
  PROVE  /\ Len(r.tokens) \in {3, 5} /\ DOMAIN r.tokens = 1 .. Len(r.tokens)
         /\ r.tokens[1] = "version" /\ r.tokens[2] = "status" /\ r.tokens[3] = "reason"
         /\ Len(r.tokens) = 5 => r.tokens[4] = "name" /\ r.tokens[5] = "value"
         /\ r.version \in {"1.0", "1.1"} /\ r.length \in Nat
         /\ Len(r.tokens) = 3 => r.length = 0
<1> DEFINE names == <<"version", "status", "reason", "name", "value">>
<1>1. PICK n \in {3, 5} : r.tokens = SubSeq(names, 1, n)
  BY ResponseAssumption
<1> DEFINE Parts == {"version", "status", "reason", "name", "value"}
<1>2. names \in Seq(Parts) /\ Len(names) = 5
  OBVIOUS
<1>3. Len(r.tokens) = n /\ DOMAIN r.tokens = 1 .. n /\ \A i \in 1 .. n : r.tokens[i] = names[i]
  BY <1>1, <1>2
<1> QED
  BY <1>3, ResponseAssumption

LEMMA AnswerPlaces ==
  ASSUME NEW r \in Responses
  PROVE  /\ TokenAt(r, "version") = {1} /\ TokenAt(r, "status") = {2} /\ TokenAt(r, "reason") = {3}
         /\ TokenAt(r, "name") = IF Len(r.tokens) = 5 THEN {4} ELSE {}
         /\ TokenAt(r, "value") = IF Len(r.tokens) = 5 THEN {5} ELSE {}
<1>1. CASE Len(r.tokens) = 3
  <2>1. \A i \in DOMAIN r.tokens : i = 1 \/ i = 2 \/ i = 3
    BY <1>1, AnswerTokens
  <2> QED
    BY <1>1, <2>1, AnswerTokens DEF TokenAt
<1>2. CASE Len(r.tokens) = 5
  <2>1. \A i \in DOMAIN r.tokens : i = 1 \/ i = 2 \/ i = 3 \/ i = 4 \/ i = 5
    BY <1>2, AnswerTokens
  <2>2. /\ DOMAIN r.tokens = 1..5 /\ r.tokens[1] = "version" /\ r.tokens[2] = "status" /\ r.tokens[3] = "reason"
        /\ r.tokens[4] = "name" /\ r.tokens[5] = "value"
    BY <1>2, AnswerTokens
  <2>3. TokenAt(r, "version") = {1} /\ TokenAt(r, "status") = {2} /\ TokenAt(r, "reason") = {3}
    BY <2>1, <2>2 DEF TokenAt
  <2>4. TokenAt(r, "name") = {4} /\ TokenAt(r, "value") = {5}
    BY <2>1, <2>2 DEF TokenAt
  <2> QED
    BY <1>2, <2>3, <2>4
<1> QED
  BY <1>1, <1>2, AnswerTokens

LEMMA AnswerCuts ==
  ASSUME NEW r \in Responses, NEW to \in Nat
  PROVE  /\ to = 1 => "version" \in Cut(r, to)
         /\ to = 2 => "versionEnd" \in Cut(r, to)
         /\ to \in {4, 5} => "status" \in Cut(r, to)
         /\ to \in {7, 8} => "reason" \in Cut(r, to)
         /\ Len(r.tokens) = 5 /\ to \in {10, 11, 12} => "name" \in Cut(r, to)
         /\ Len(r.tokens) = 5 /\ to \in {13, 14} => "value" \in Cut(r, to)
         /\ Cut(r, to) \subseteq AnswerNames /\ Cut(r, 0) = {}
<1>1. /\ DOMAIN r.tokens = 1 .. Len(r.tokens) /\ Len(r.tokens) \in {3, 5}
      /\ r.tokens[1] = "version" /\ r.tokens[2] = "status" /\ r.tokens[3] = "reason"
      /\ Len(r.tokens) = 5 => r.tokens[4] = "name" /\ r.tokens[5] = "value"
  BY AnswerTokens
<1>2. Len(r.tokens) \in Nat
  BY <1>1
<1>3. /\ to = 1 => "version" \in Cut(r, to)
      /\ to = 2 => "versionEnd" \in Cut(r, to)
      /\ to \in {4, 5} => "status" \in Cut(r, to)
      /\ to \in {7, 8} => "reason" \in Cut(r, to)
  <2>1. 1 \in 1 .. Len(r.tokens) /\ 2 \in 1 .. Len(r.tokens) /\ 3 \in 1 .. Len(r.tokens)
    BY <1>1
  <2>2. to = 1 => "version" \in Cut(r, to)
    BY <1>1, <1>2, <2>1, CutToken
  <2>3. to = 2 => "versionEnd" \in Cut(r, to)
    BY <1>1, <1>2, <2>1, CutToken
  <2>4. to \in {4, 5} => "status" \in Cut(r, to)
    BY <1>1, <1>2, <2>1, CutToken
  <2>5. to \in {7, 8} => "reason" \in Cut(r, to)
    BY <1>1, <1>2, <2>1, CutToken
  <2> QED
    BY <2>2, <2>3, <2>4, <2>5
<1>4. /\ Len(r.tokens) = 5 /\ to \in {10, 11, 12} => "name" \in Cut(r, to)
      /\ Len(r.tokens) = 5 /\ to \in {13, 14} => "value" \in Cut(r, to)
  <2> SUFFICES ASSUME Len(r.tokens) = 5
               PROVE  /\ to \in {10, 11, 12} => "name" \in Cut(r, to)
                      /\ to \in {13, 14} => "value" \in Cut(r, to)
    OBVIOUS
  <2>1. 4 \in 1 .. Len(r.tokens) /\ 5 \in 1 .. Len(r.tokens)
    OBVIOUS
  <2>2. to \in {10, 11, 12} => "name" \in Cut(r, to)
    BY <1>1, <1>2, <2>1, CutToken
  <2>3. to \in {13, 14} => "value" \in Cut(r, to)
    BY <1>1, <1>2, <2>1, CutToken
  <2> QED
    BY <2>2, <2>3
<1>5. Cut(r, to) \subseteq AnswerNames
  <2>1. \A i \in DOMAIN r.tokens : r.tokens[i] \in AnswerNames
    BY <1>1 DEF AnswerNames
  <2> QED
    BY <2>1 DEF Cut, AnswerNames
<1>6. Cut(r, 0) = {}
  BY <1>1 DEF Cut, FirstCell, StopCell
<1> QED
  BY <1>3, <1>4, <1>5, <1>6

(* What the callbacks of one piece leave of a response. *)
LEMMA AnswerParsed ==
  ASSUME NEW r \in Responses, NEW old, NEW cuts, NEW from \in Nat, NEW to \in from + 1 .. HeadEnd(r),
         ~old.error, AnswerGiven(r, old, cuts, from), Cut(r, from) \subseteq cuts,
         NEW data, data = Answered(r, old, from, to)
  PROVE  AnswerGiven(r, data, cuts, to)
<1> DEFINE Done(k) == 3 * k \in from + 1 .. to
           Got(k) == IF 3 * k - 2 > from THEN "whole" ELSE IF 3 * k = from + 1 THEN "empty" ELSE "tail"
           version == IF Done(1) THEN ResponseVersion(r, Got(1)) ELSE old.version
           bad == old.error \/ version = "invalid"
<1>1. /\ TokenAt(r, "version") = {1} /\ TokenAt(r, "status") = {2} /\ TokenAt(r, "reason") = {3}
      /\ TokenAt(r, "name") = IF Len(r.tokens) = 5 THEN {4} ELSE {}
      /\ TokenAt(r, "value") = IF Len(r.tokens) = 5 THEN {5} ELSE {}
  BY AnswerPlaces
<1>2. \A k \in 1 .. 5 : StopCell(r, k) = 3 * k /\ FirstCell(r, k) = 3 * k - 2 /\ Given(r, k, from) = Got(k)
  BY DEF StopCell, FirstCell, Given
<1>3. data = [version |-> IF version = "invalid" THEN old.version ELSE version,
              status |-> IF Done(2) THEN Got(2) ELSE old.status,
              reason |-> IF Done(3) THEN Got(3) ELSE old.reason,
              length |-> IF Len(r.tokens) = 5 /\ Done(5) /\ 10 > from THEN r.length ELSE old.length,
              error |-> bad]
  <2> DEFINE done(name) == {i \in TokenAt(r, name) : StopCell(r, i) \in from + 1 .. to}
             of(name, default) ==
               IF done(name) = {} THEN default ELSE Given(r, CHOOSE i \in done(name) : TRUE, from)
             hasLength == done("value") # {} /\ \A i \in TokenAt(r, "name") : FirstCell(r, i) > from
             versionOf == IF done("version") = {} THEN old.version
                          ELSE ResponseVersion(r, of("version", "none"))
  <2>1. data = [version |-> IF versionOf = "invalid" THEN old.version ELSE versionOf,
                status |-> of("status", old.status),
                reason |-> of("reason", old.reason),
                length |-> IF hasLength THEN r.length ELSE old.length,
                error |-> old.error \/ versionOf = "invalid"]
    BY DEF Answered
  <2>2. ASSUME NEW name, NEW k \in 1 .. 5, TokenAt(r, name) = {k}, NEW default
        PROVE  /\ done(name) = IF Done(k) THEN {k} ELSE {}
               /\ of(name, default) = IF Done(k) THEN Got(k) ELSE default
    <3>1. done(name) = (IF Done(k) THEN {k} ELSE {}) /\ (Done(k) => (CHOOSE i \in done(name) : TRUE) = k)
      BY <2>2, TokenPassed
    <3> HIDE DEF done, Done, Got
    <3> QED
      BY <1>2, <3>1
  <2>3. hasLength <=> Len(r.tokens) = 5 /\ Done(5) /\ 10 > from
    <3>1. CASE Len(r.tokens) = 5
      BY <1>1, <1>2, <2>2, <3>1
    <3>2. CASE Len(r.tokens) # 5
      BY <1>1, <3>2
    <3> QED
      BY <3>1, <3>2
  <2> HIDE DEF done, of, hasLength, Done, Got
  <2>4. /\ done("version") = IF Done(1) THEN {1} ELSE {}
        /\ Done(1) => of("version", "none") = Got(1)
        /\ of("status", old.status) = IF Done(2) THEN Got(2) ELSE old.status
        /\ of("reason", old.reason) = IF Done(3) THEN Got(3) ELSE old.reason
    BY <1>1, <2>2
  <2>5. versionOf = version
    BY <2>4
  <2>6. (IF hasLength THEN r.length ELSE old.length)
          = IF Len(r.tokens) = 5 /\ Done(5) /\ 10 > from THEN r.length ELSE old.length
    BY <2>3
  <2> QED
    BY <2>1, <2>4, <2>5, <2>6
<1>4. /\ r.version \in {"1.0", "1.1"} /\ r.length \in Nat /\ Len(r.tokens) \in {3, 5}
      /\ Len(r.tokens) = 3 => r.length = 0
  BY AnswerTokens
<1>5. /\ from = 1 => "version" \in cuts
      /\ from = 2 => "versionEnd" \in cuts
      /\ from \in {4, 5} => "status" \in cuts
      /\ from \in {7, 8} => "reason" \in cuts
      /\ Len(r.tokens) = 5 /\ from \in {10, 11, 12} => "name" \in cuts
      /\ Len(r.tokens) = 5 /\ from \in {13, 14} => "value" \in cuts
  BY AnswerCuts
<1>6. to \in Nat /\ from < to
  BY <1>4 DEF HeadEnd
<1>7. old.error = FALSE
  BY DEF AnswerGiven
<1>8. bad = (version = "invalid")
  BY <1>7
<1>9. Done(1) => \/ Got(1) = "whole" /\ version = (IF r.version = "1.1" THEN "1.1" ELSE "invalid")
                 \/ Got(1) = "empty" /\ from = 2 /\ version = "1.1"
                 \/ Got(1) = "tail" /\ from = 1 /\ version = "invalid"
  <2> SUFFICES ASSUME Done(1)
               PROVE  \/ Got(1) = "whole" /\ version = (IF r.version = "1.1" THEN "1.1" ELSE "invalid")
                      \/ Got(1) = "empty" /\ from = 2 /\ version = "1.1"
                      \/ Got(1) = "tail" /\ from = 1 /\ version = "invalid"
    OBVIOUS
  <2>1. version = ResponseVersion(r, Got(1))
    OBVIOUS
  <2>2. Got(1) = "whole" \/ (Got(1) = "empty" /\ from = 2) \/ (Got(1) = "tail" /\ from = 1)
    BY <1>6
  <2> HIDE DEF version, Got
  <2> QED
    BY <2>1, <2>2 DEF ResponseVersion
<1>10. bad \in BOOLEAN
  BY Zenon
<1>11. /\ data.error = bad /\ data.length = (IF Len(r.tokens) = 5 /\ Done(5) /\ 10 > from THEN r.length ELSE old.length)
       /\ data.version # "invalid" /\ (version # "invalid" => data.version = version)
       /\ data.status = (IF Done(2) THEN Got(2) ELSE old.status)
       /\ data.reason = (IF Done(3) THEN Got(3) ELSE old.reason)
  <2> HIDE DEF bad, version, Done, Got
  <2> QED
    BY <1>3 DEF AnswerGiven
<1>12. CASE bad = TRUE
  <2>1. version = "invalid"
    BY <1>8, <1>12
  <2>2. Done(1)
    BY <2>1 DEF AnswerGiven
  <2> HIDE DEF bad, version, Done, Got
  <2>3. r.version # "1.1" \/ "version" \in cuts
    BY <1>5, <1>9, <2>1, <2>2
  <2> QED
    BY <1>11, <1>12, <2>3 DEF AnswerGiven
<1>13. CASE bad = FALSE
  <2>1. version # "invalid" /\ data.version = version
    BY <1>8, <1>11, <1>13
  <2>2. to >= 3 => VersionGiven(r, data.version, cuts)
    <3>1. CASE Done(1)
      <4> HIDE DEF bad, version, Done, Got
      <4> QED
        BY <1>5, <1>9, <2>1, <3>1 DEF VersionGiven
    <3>2. CASE ~Done(1)
      <4>1. (to >= 3 => from >= 3) /\ version = old.version
        BY <1>6, <3>2
      <4> HIDE DEF bad, version, Done, Got
      <4> QED
        BY <1>7, <2>1, <4>1 DEF AnswerGiven
    <3> QED
      BY <3>1, <3>2
  <2>3. to >= 6 => StatusGiven(data.status, cuts)
    BY <1>5, <1>6, <1>7, <1>11 DEF AnswerGiven, StatusGiven
  <2>4. to >= 9 => ReasonGiven(data.reason, cuts)
    BY <1>5, <1>6, <1>7, <1>11 DEF AnswerGiven, ReasonGiven
  <2>5. to < 15 \/ Len(r.tokens) = 3 => data.length = 0
    BY <1>4, <1>6, <1>7, <1>11 DEF AnswerGiven
  <2>6. to >= 15 /\ Len(r.tokens) = 5 => LengthGiven(r, data.length, cuts)
    <3>1. CASE Done(5)
      BY <1>5, <1>11, <3>1 DEF LengthGiven
    <3>2. CASE ~Done(5)
      BY <1>4, <1>6, <1>7, <1>11, <3>2 DEF AnswerGiven
    <3> QED
      BY <3>1, <3>2
  <2> HIDE DEF bad, version, Done, Got
  <2> QED
    BY <1>11, <1>13, <2>2, <2>3, <2>4, <2>5, <2>6 DEF AnswerGiven
<1> QED
  BY <1>10, <1>12, <1>13

(* While the head is parsed, and while the chunks behind it are: then a piece that ended within the
   size of a chunk has cut it, and execute fails only if its flag was wrong. *)
ParserRecords == [cs : {"start", "inside", "final", "error"}, content_len : Int, chunks_done : BOOLEAN]
TornRecords == [response : SUBSET AnswerNames, chunk : SUBSET {"size", "flag"}]
IncomingRecords == [response : Responses, chunks : Nat, size : ChunkSizes \cup {<<>>}]
SizeTold ==
  \/ m_parser.content_len = SizeOf(incoming.size) /\ m_parser.chunks_done = (SizeOf(incoming.size) = 0)
  \/ "size" \in torn.chunk
HeadParsed ==
  LET r == incoming.response
  IN /\ read \in 0 .. HeadEnd(r) /\ Cut(r, read) \subseteq torn.response
     /\ m_parser.cs = (IF read = HeadEnd(r) THEN "final" ELSE IF read = 0 THEN "start" ELSE "inside")
     /\ AnswerGiven(r, m_response, torn.response, read)
ChunkParsed ==
  /\ incoming.size \in ChunkSizes /\ read \in 0 .. 3
  /\ m_parser.cs \in {"inside", "final", "error"}
  /\ m_parser.cs = "error" => "flag" \in torn.chunk
  /\ read = 0 => m_parser.cs # "inside"
  /\ read \in 1 .. 2 => m_parser.cs # "final" /\ "size" \in torn.chunk
  /\ read = 3 /\ m_parser.cs = "final" => SizeTold
  /\ AnswerGiven(incoming.response, m_response, torn.response, HeadEnd(incoming.response))
ResponseInv ==
  /\ m_parser \in ParserRecords /\ torn \in TornRecords /\ incoming \in IncomingRecords
  /\ IF incoming.size = <<>> THEN HeadParsed ELSE ChunkParsed

(* What was parsed stays right when more tokens are named as cut. *)
LEMMA MoreCuts ==
  ASSUME NEW r, NEW data, NEW cuts, NEW more, cuts \subseteq more, NEW at, AnswerGiven(r, data, cuts, at)
  PROVE  AnswerGiven(r, data, more, at)
BY DEF AnswerGiven, VersionGiven, StatusGiven, ReasonGiven, LengthGiven

LEMMA ResponseInitInv == ResponseInit => ResponseInv
<1> SUFFICES ASSUME ResponseInit PROVE ResponseInv
  OBVIOUS
<1>1. PICK r \in Responses : r = incoming.response /\ incoming.size = <<>> /\ incoming \in IncomingRecords
  BY DEF ResponseInit, IncomingRecords
<1>2. Cut(r, 0) = {} /\ HeadEnd(r) \in Nat /\ HeadEnd(r) # 0
  BY AnswerCuts, AnswerTokens DEF HeadEnd
<1>3. m_parser \in ParserRecords /\ m_parser.cs = "start" /\ torn \in TornRecords /\ read = 0
  BY DEF ResponseInit, ParserRecords, TornRecords, Untold
<1>4. AnswerGiven(r, m_response, torn.response, 0)
  BY DEF ResponseInit, AnswerGiven
<1> QED
  BY <1>1, <1>2, <1>3, <1>4 DEF ResponseInv, HeadParsed

LEMMA ExecuteHeadInv == ASSUME ResponseInv, NEW to, ExecuteHead(to) PROVE ResponseInv'
<1>1. PICK r \in Responses : r = incoming.response
  BY DEF ResponseInv, IncomingRecords
<1>2. /\ incoming.size = <<>> /\ ~HasError /\ to \in read + 1 .. HeadEnd(r) /\ read' = to
      /\ m_response' = Answered(r, m_response, read, to)
      /\ m_parser' = [m_parser EXCEPT !.cs = IF to = HeadEnd(r) THEN "final" ELSE "inside"]
      /\ torn' = [torn EXCEPT !.response = @ \cup Cut(r, to)]
      /\ UNCHANGED incoming
  BY <1>1 DEF ExecuteHead
<1>3. /\ HeadEnd(r) \in Nat /\ read \in 0 .. HeadEnd(r) /\ Cut(r, read) \subseteq torn.response
      /\ AnswerGiven(r, m_response, torn.response, read) /\ ~m_response.error
  BY <1>1, <1>2, AnswerTokens DEF ResponseInv, HeadParsed, HeadEnd, HasError
<1>4. to \in Nat /\ to # 0 /\ to \in 0 .. HeadEnd(r)
  BY <1>2, <1>3
<1>5. m_parser' \in ParserRecords /\ m_parser'.cs = IF to = HeadEnd(r) THEN "final" ELSE "inside"
  BY <1>2 DEF ResponseInv, ParserRecords
<1>6. Cut(r, to) \subseteq AnswerNames
  BY <1>4, AnswerCuts
<1>7. torn' \in TornRecords /\ torn'.response = torn.response \cup Cut(r, to)
  BY <1>2, <1>6 DEF ResponseInv, TornRecords
<1>8. AnswerGiven(r, m_response', torn.response, to)
  BY <1>2, <1>3, AnswerParsed
<1>9. AnswerGiven(r, m_response', torn'.response, to)
  BY <1>7, <1>8, MoreCuts
<1>10. HeadParsed'
  BY <1>1, <1>2, <1>4, <1>5, <1>7, <1>9 DEF HeadParsed
<1> QED
  BY <1>2, <1>5, <1>7, <1>10 DEF ResponseInv

(* The digits of a chunk's size. *)
LEMMA SizesOf ==
  ASSUME NEW size \in ChunkSizes
  PROVE  size # <<>> /\ SizeOf(size) \in Nat /\ size[2] \in Nat
<1>1. PICK a \in 0..15, b \in 0..15 : size = <<a, b>>
  BY ResponseAssumption
<1>2. size # <<>> /\ size[1] = a /\ size[2] = b
  BY <1>1
<1> QED
  BY <1>1, <1>2 DEF SizeOf

LEMMA NextChunkInv == ASSUME ResponseInv, NextChunk PROVE ResponseInv'
<1>1. PICK r \in Responses : r = incoming.response
  BY DEF ResponseInv, IncomingRecords
<1>2. PICK size \in ChunkSizes : incoming' = [incoming EXCEPT !.chunks = @ + 1, !.size = size]
  BY DEF NextChunk
<1>3. /\ m_parser.cs = "final" /\ read' = 0 /\ torn' = [torn EXCEPT !.chunk = {}]
      /\ UNCHANGED <<m_parser, m_response>>
  BY DEF NextChunk
<1>4. AnswerGiven(r, m_response, torn.response, HeadEnd(r))
  <2>1. HeadEnd(r) \in Nat /\ HeadEnd(r) # 0
    BY AnswerTokens DEF HeadEnd
  <2>2. CASE incoming.size = <<>>
    <3>1. read = HeadEnd(r)
      BY <1>1, <1>3, <2>1, <2>2 DEF ResponseInv, HeadParsed
    <3> QED
      BY <1>1, <2>2, <3>1 DEF ResponseInv, HeadParsed
  <2>3. CASE incoming.size # <<>>
    BY <1>1, <2>3 DEF ResponseInv, ChunkParsed
  <2> QED
    BY <2>2, <2>3
<1>5. incoming' \in IncomingRecords /\ incoming'.response = r /\ incoming'.size = size
  <2>1. PICK chunks, sizes : chunks = incoming.chunks + 1 /\ sizes = ChunkSizes \cup {<<>>}
    OBVIOUS
  <2>2. /\ incoming \in [response : Responses, chunks : Nat, size : sizes] /\ chunks \in Nat /\ size \in sizes
        /\ incoming' = [incoming EXCEPT !.chunks = chunks, !.size = size]
    BY <1>2, <2>1 DEF ResponseInv, IncomingRecords
  <2>3. incoming' \in [response : Responses, chunks : Nat, size : sizes] /\ incoming'.response = r /\ incoming'.size = size
    BY <1>1, <2>2
  <2> QED
    BY <2>1, <2>3 DEF IncomingRecords
<1>6. torn' \in TornRecords /\ torn'.response = torn.response
  BY <1>3 DEF ResponseInv, TornRecords
<1>7. ChunkParsed'
  BY <1>3, <1>4, <1>5, <1>6 DEF ChunkParsed
<1> QED
  BY <1>3, <1>5, <1>6, <1>7, SizesOf DEF ResponseInv

(* A piece of a chunk's head that ends within the size cuts it; one that begins it gives it whole. *)
LEMMA ChunkCuts ==
  /\ \A to \in 1 .. 3 : Cut(ChunkHead, to) \subseteq {"size"}
  /\ \A to \in 1 .. 2 : "size" \in Cut(ChunkHead, to)
  /\ Given(ChunkHead, 1, 0) = "whole"
<1>1. ChunkHead.tokens = <<"size">> /\ DOMAIN ChunkHead.tokens = 1 .. 1 /\ ChunkHead.tokens[1] = "size"
  BY DEF ChunkHead
<1>2. Len(ChunkHead.tokens) = 1
  BY <1>1
<1>3. \A to \in 1 .. 2 : "size" \in Cut(ChunkHead, to)
  <2> SUFFICES ASSUME NEW to \in 1 .. 2 PROVE "size" \in Cut(ChunkHead, to)
    OBVIOUS
  <2>1. 1 \in 1 .. Len(ChunkHead.tokens) /\ DOMAIN ChunkHead.tokens = 1 .. Len(ChunkHead.tokens)
    BY <1>1, <1>2
  <2>2. to = 3 * 1 - 2 \/ to = 3 * 1 - 1
    OBVIOUS
  <2>3. /\ to = 3 * 1 - 2 => ChunkHead.tokens[1] \in Cut(ChunkHead, to)
        /\ to = 3 * 1 - 1 => (IF ChunkHead.tokens[1] = "version" THEN "versionEnd" ELSE ChunkHead.tokens[1])
                                \in Cut(ChunkHead, to)
    BY <1>2, <2>1, CutToken
  <2> QED
    BY <1>1, <2>2, <2>3
<1>4. \A to \in 1 .. 3 : Cut(ChunkHead, to) \subseteq {"size"}
  BY <1>1 DEF Cut, StopCell
<1>5. Given(ChunkHead, 1, 0) = "whole"
  BY DEF Given, FirstCell
<1> QED
  BY <1>3, <1>4, <1>5

LEMMA ExecuteChunkInv ==
  ASSUME ResponseInv, NEW chunck \in BOOLEAN, NEW to, ExecuteChunk(chunck, to)
  PROVE  ResponseInv'
<1> DEFINE begun == IF chunck THEN [cs |-> "start", content_len |-> Untold, chunks_done |-> FALSE] ELSE m_parser
           fails == begun.cs = "final" \/ (chunck /\ read = 2)
           right == chunck = (read = 0)
<1>1. /\ incoming.size # <<>> /\ ~HasError /\ read < 3 /\ to \in read + 1 .. 3
      /\ IF fails THEN m_parser' = [begun EXCEPT !.cs = "error"]
         ELSE IF to < 3 THEN m_parser' = [begun EXCEPT !.cs = "inside"]
         ELSE \E size \in SizesRead(Given(ChunkHead, 1, read)) :
                m_parser' = [cs |-> "final", content_len |-> size, chunks_done |-> size <= 0]
      /\ read' = IF fails THEN read ELSE to
      /\ torn' = [torn EXCEPT !.chunk = @ \cup Cut(ChunkHead, to) \cup IF right THEN {} ELSE {"flag"}]
      /\ UNCHANGED <<m_response, incoming>>
  BY DEF ExecuteChunk
<1>2. ChunkParsed /\ incoming.size \in ChunkSizes /\ read \in 0 .. 2 /\ to \in 1 .. 3
  BY <1>1 DEF ResponseInv, ChunkParsed
<1>3. begun \in ParserRecords
  BY DEF ResponseInv, ParserRecords, Untold
<1>4. Cut(ChunkHead, to) \subseteq {"size"} /\ (to < 3 => "size" \in Cut(ChunkHead, to))
  BY <1>2, ChunkCuts
<1>5. PICK flag \in SUBSET {"flag"} : flag = (IF right THEN {} ELSE {"flag"})
  OBVIOUS
<1>6. /\ torn' \in TornRecords /\ torn'.response = torn.response /\ torn.chunk \subseteq torn'.chunk
      /\ to < 3 => "size" \in torn'.chunk
      /\ ~right => "flag" \in torn'.chunk
  <2>1. torn' = [torn EXCEPT !.chunk = torn.chunk \cup Cut(ChunkHead, to) \cup flag]
    BY <1>1, <1>5
  <2>2. torn' \in TornRecords /\ torn'.response = torn.response
        /\ torn'.chunk = torn.chunk \cup Cut(ChunkHead, to) \cup flag
    BY <1>4, <2>1 DEF ResponseInv, TornRecords
  <2>3. ~right => "flag" \in flag
    BY <1>5
  <2> HIDE DEF right
  <2> QED
    BY <1>4, <2>2, <2>3
<1>7. AnswerGiven(incoming.response, m_response, torn.response, HeadEnd(incoming.response))
  BY <1>2 DEF ChunkParsed
<1>8. AnswerGiven(incoming.response, m_response, torn.response, HeadEnd(incoming.response))'
  BY <1>1, <1>6, <1>7
<1>9. CASE fails
  <2>1. m_parser' \in ParserRecords /\ m_parser'.cs = "error" /\ read' = read
    <3> HIDE DEF begun, fails, right
    <3> QED
      BY <1>1, <1>3, <1>9 DEF ParserRecords
  <2>2. ~right
    <3>1. CASE chunck = TRUE
      <4>1. begun.cs = "start"
        BY <3>1
      <4>2. fails => begun.cs = "final" \/ read = 2
        OBVIOUS
      <4> HIDE DEF begun, fails
      <4>3. read = 2
        BY <1>9, <4>1, <4>2
      <4>4. (read = 0) = FALSE
        BY <4>3
      <4> QED
        BY <3>1, <4>4, Zenon
    <3>2. CASE chunck = FALSE
      <4>1. m_parser.cs = "final"
        BY <1>9, <3>2
      <4>2. read = 0
        BY <1>2, <4>1 DEF ChunkParsed
      <4> QED
        BY <3>2, <4>2
    <3> QED
      BY <3>1, <3>2
  <2> HIDE DEF right, fails, begun
  <2>3. ChunkParsed'
    BY <1>1, <1>2, <1>6, <1>8, <2>1, <2>2 DEF ChunkParsed
  <2> QED
    BY <1>1, <1>6, <2>1, <2>3 DEF ResponseInv
<1>10. CASE ~fails /\ to < 3
  <2>1. m_parser' \in ParserRecords /\ m_parser'.cs = "inside" /\ read' = to
    BY <1>1, <1>3, <1>10 DEF ParserRecords
  <2> HIDE DEF right, fails, begun
  <2>2. ChunkParsed'
    BY <1>1, <1>2, <1>6, <1>8, <1>10, <2>1 DEF ChunkParsed
  <2> QED
    BY <1>1, <1>6, <2>1, <2>2 DEF ResponseInv
<1>11. CASE ~fails /\ ~(to < 3)
  <2>1. PICK size \in SizesRead(Given(ChunkHead, 1, read)) :
          m_parser' = [cs |-> "final", content_len |-> size, chunks_done |-> size <= 0]
    BY <1>1, <1>11
  <2>2. read' = 3
    BY <1>1, <1>2, <1>11
  <2>3. \A other \in ChunkSizes : SizeOf(other) \in Nat /\ other[2] \in Nat
    BY SizesOf
  <2>4. size \in Int
    BY <1>2, <2>3 DEF SizesRead
  <2>5. m_parser' \in ParserRecords /\ m_parser'.cs = "final" /\ m_parser'.content_len = size
        /\ m_parser'.chunks_done = (size <= 0)
    BY <2>1, <2>4 DEF ParserRecords
  <2>6. SizeTold'
    <3>1. CASE read = 0
      <4>1. size = SizeOf(incoming.size)
        BY <3>1, ChunkCuts DEF SizesRead
      <4>2. (size <= 0) = (size = 0)
        BY <1>2, <2>3, <4>1
      <4> QED
        BY <1>1, <2>5, <4>1, <4>2 DEF SizeTold
    <3>2. CASE read # 0
      <4>1. "size" \in torn.chunk
        BY <1>2, <3>2 DEF ChunkParsed
      <4> HIDE DEF right
      <4> QED
        BY <1>6, <4>1 DEF SizeTold
    <3> QED
      BY <3>1, <3>2
  <2> HIDE DEF right, fails, begun
  <2>7. ChunkParsed'
    BY <1>1, <1>2, <1>6, <1>8, <2>2, <2>5, <2>6 DEF ChunkParsed
  <2> QED
    BY <1>1, <1>6, <2>5, <2>7 DEF ResponseInv
<1> QED
  BY <1>9, <1>10, <1>11

LEMMA ResponseNextInv == ResponseInv /\ [ResponseNext]_responseVars => ResponseInv'
<1> SUFFICES ASSUME ResponseInv, [ResponseNext]_responseVars PROVE ResponseInv'
  OBVIOUS
<1>1. CASE NextChunk
  BY <1>1, NextChunkInv
<1>2. CASE \E to \in 1 .. 16 : ExecuteHead(to) \/ \E chunck \in BOOLEAN : ExecuteChunk(chunck, to)
  BY <1>2, ExecuteHeadInv, ExecuteChunkInv
<1>3. CASE UNCHANGED responseVars
  BY <1>3 DEF responseVars, ResponseInv, HeadParsed, ChunkParsed, SizeTold
<1> QED
  BY <1>1, <1>2, <1>3 DEF ResponseNext

LEMMA AnsweredIntact == ResponseInv => ResponseIntact
<1> SUFFICES ASSUME ResponseInv PROVE ResponseIntact
  OBVIOUS
<1>1. PICK r \in Responses : r = incoming.response
  BY DEF ResponseInv, IncomingRecords
<1>2. /\ HeadEnd(r) \in Nat /\ HeadEnd(r) >= 9 /\ Len(r.tokens) \in {3, 5}
      /\ Len(r.tokens) = 5 => HeadEnd(r) >= 15
      /\ Len(r.tokens) = 3 => r.length = 0
  BY AnswerTokens DEF HeadEnd
<1>3. PICK at : AnswerGiven(r, m_response, torn.response, at)
                /\ (m_parser.cs = "final" \/ incoming.size # <<>> => at = HeadEnd(r))
  <2>1. CASE incoming.size = <<>>
    <3>1. AnswerGiven(r, m_response, torn.response, read) /\ (m_parser.cs = "final" => read = HeadEnd(r))
      BY <1>1, <1>2, <2>1 DEF ResponseInv, HeadParsed
    <3> QED
      BY <2>1, <3>1
  <2>2. CASE incoming.size # <<>>
    BY <1>1, <2>2 DEF ResponseInv, ChunkParsed
  <2> QED
    BY <2>1, <2>2
<1>4. m_response.error => r.version # "1.1" \/ "version" \in torn.response
  BY <1>3 DEF AnswerGiven
<1>5. (m_parser.cs = "final" \/ incoming.size # <<>>) /\ ~m_response.error =>
        /\ VersionGiven(r, m_response.version, torn.response) /\ StatusGiven(m_response.status, torn.response)
        /\ ReasonGiven(m_response.reason, torn.response) /\ LengthGiven(r, m_response.length, torn.response)
  BY <1>2, <1>3 DEF AnswerGiven, LengthGiven
<1>6. incoming.size # <<>> /\ m_parser.cs = "final" /\ read = 3 => SizeTold
  BY DEF ResponseInv, ChunkParsed
<1>7. m_parser.cs = "error" => "flag" \in torn.chunk
  BY DEF ResponseInv, HeadParsed, ChunkParsed
<1> QED
  BY <1>1, <1>4, <1>5, <1>6, <1>7 DEF ResponseIntact, VersionGiven, StatusGiven, ReasonGiven, LengthGiven, SizeTold

(* http_session.cc:24-76 and http_parser.cc:238-245: however the reads cut a request, its servlet is
   handed the parts and the body that were sent, and however they cut a response, the caller of
   execute has its parts and the sizes of its chunks, but for the tokens a read cut and what the
   named defects make of those; for all requests, responses, chunk sizes, buffers and threads. *)
THEOREM MessagesCorrect == ServerSpec /\ ResponseSpec => []MessagesIntact
<1>1. ServerInit => SessionInv
  BY SessionInitInv DEF ServerInit
<1>2. SessionInv /\ ResponseInv => MessagesIntact
  BY HandedIntact, AnsweredIntact DEF MessagesIntact
<1> QED
  BY <1>1, <1>2, ServerNextInv, ResponseInitInv, ResponseNextInv, PTL DEF ServerSpec, ResponseSpec

-----------------------------------------------------------------------------
(* A finite set is what its sequence has. *)
LEMMA SetAsSeq ==
  ASSUME NEW S, IsFiniteSet(S)
  PROVE  SetToSeq(S) \in Seq(S) /\ Range(SetToSeq(S)) = S
<1> DEFINE n == Cardinality(S)
<1>1. n \in Nat /\ ExistsBijection(1..n, S)
  BY FS_CardinalityType
<1>2. \E f \in [1..n -> S] : IsInjective(f)
  BY <1>1 DEF ExistsBijection, Bijection, Injection
<1>3. SetToSeq(S) \in [1..n -> S] /\ IsInjective(SetToSeq(S))
  BY <1>2, Zenon DEF SetToSeq
<1>4. SetToSeq(S) \in Injection(1..n, S)
  BY <1>3, Zenon DEF Injection
<1>5. Cardinality(1..n) = n
  BY <1>1, FS_Interval
<1>6. SetToSeq(S) \in Surjection(1..n, S)
  BY <1>4, <1>5, FS_Injection, Zenon
<1>7. Range(SetToSeq(S)) = S
  BY <1>3, <1>6, Zenon DEF Surjection, Range
<1> QED
  BY <1>1, <1>3, <1>7

(* The lines of a message, whatever their order, have for the name n the value v, which is NoValue
   when there is no such line. *)
Carry(lines, n, v) ==
  /\ \A line \in Range(lines) : line[1] = n => line[2] = v
  /\ v = NoValue \/ \E line \in Range(lines) : line[1] = n

(* The last of some places of a sequence. *)
LEMMA LastOf ==
  ASSUME NEW len \in Nat, NEW set \in SUBSET (1..len), set # {}
  PROVE  \E i \in set : \A j \in set : j <= i
<1> DEFINE behind == {k \in 0..len : len - k \in set}
<1>1. PICK e \in set : TRUE
  BY Zenon
<1>2. len - e \in 0..len /\ len - (len - e) = e
  OBVIOUS
<1>3. behind \in SUBSET Nat /\ behind # {}
  <2>1. \A k \in behind : k \in Nat
    OBVIOUS
  <2>2. len - e \in behind
    BY <1>2
  <2> QED
    BY <2>1, <2>2, Zenon
<1>4. PICK x \in behind : \A y \in behind : ~(<<y, x>> \in OpToRel(<, Nat))
  BY <1>3, WFMin, NatLessThanWellFounded
<1>5. ASSUME NEW y \in behind PROVE x <= y
  <2> SUFFICES ASSUME y < x PROVE FALSE
    BY <1>3
  <2>1. y \in Nat /\ x \in Nat
    OBVIOUS
  <2>2. <<y, x>> \in OpToRel(<, Nat)
    BY <2>1, Zenon DEF OpToRel
  <2> QED
    BY <1>4, <2>2
<1>6. ASSUME NEW j \in set PROVE j <= len - x
  <2>1. len - j \in 0..len /\ len - (len - j) = j
    OBVIOUS
  <2>2. len - j \in behind
    BY <2>1
  <2> QED
    BY <1>5, <2>2
<1> QED
  BY <1>6

(* A reader has the value that the lines carry. *)
LEMMA CarriedIsRead ==
  ASSUME NEW n, NEW v, NEW S, wire.lines \in Seq(S), Carry(wire.lines, n, v)
  PROVE  ReadHeader(n) = v
<1> DEFINE lines == wire.lines
           at == {i \in DOMAIN lines : lines[i][1] = n}
<1>1. \A i \in at : lines[i][2] = v
  BY Zenon DEF Carry, Range
<1>2. CASE at = {}
  <2>1. v = NoValue
    BY <1>2, Zenon DEF Carry, Range
  <2> QED
    BY <1>2, <2>1 DEF ReadHeader
<1>3. CASE at # {}
  <2> DEFINE IsLast(i) == lines[i][1] = n /\ \A j \in DOMAIN lines : j > i => lines[j][1] # n
             last == CHOOSE i \in DOMAIN lines : IsLast(i)
  <2>1. DOMAIN lines = 1..Len(lines) /\ Len(lines) \in Nat
    OBVIOUS
  <2>2. PICK i \in at : \A j \in at : j <= i
    BY <1>3, <2>1, LastOf
  <2>3. \E k \in DOMAIN lines : IsLast(k)
    BY <2>1, <2>2
  <2>4. last \in DOMAIN lines /\ IsLast(last)
    BY <2>3, Zenon
  <2>5. last \in at
    BY <2>4
  <2>6. ReadHeader(n) = lines[last][2]
    BY <1>3, Zenon DEF ReadHeader
  <2> QED
    BY <1>1, <2>5, <2>6
<1> QED
  BY <1>2, <1>3

(* A reader has what the last line says of its own name. *)
LEMMA LastIsRead ==
  ASSUME NEW S, wire.lines \in Seq(S), wire.lines # <<>>
  PROVE  ReadHeader(wire.lines[Len(wire.lines)][1]) = wire.lines[Len(wire.lines)][2]
<1> DEFINE lines == wire.lines
           n == lines[Len(lines)][1]
           IsLast(i) == lines[i][1] = n /\ \A j \in DOMAIN lines : j > i => lines[j][1] # n
           last == CHOOSE i \in DOMAIN lines : IsLast(i)
<1>1. DOMAIN lines = 1..Len(lines) /\ Len(lines) \in Nat /\ Len(lines) # 0
  OBVIOUS
<1>2. Len(lines) \in DOMAIN lines /\ IsLast(Len(lines))
  BY <1>1
<1>3. last \in DOMAIN lines /\ IsLast(last)
  BY <1>2, Zenon
<1>4. last = Len(lines)
  <2>1. ~(Len(lines) > last)
    BY <1>2, <1>3, Zenon
  <2> QED
    BY <1>1, <1>3, <2>1, SMTT(30)
<1>5. ReadHeader(n) = lines[last][2]
  BY <1>2, Zenon DEF ReadHeader
<1> QED
  BY <1>4, <1>5

Messages ==
  [kind : {"request", "response"}, m_status : {"OK", "FOUND"}, m_close : BOOLEAN, m_websocket : BOOLEAN,
   m_body : Nat, m_headers : [HeaderNames -> Values]]
HeadLines == HeaderNames \X (Values \cup Nat)
DumpOf(m) == IF m.kind = "request" THEN DumpRequest(m) ELSE DumpResponse(m)

(* What has been dumped is the message, which is let alone from then on. *)
MessageInv ==
  /\ message \in Messages /\ wire.sent \in BOOLEAN
  /\ wire.sent => wire.lines = DumpOf(message) /\ wire.body = message.m_body

ToldOf(m) == {n \in HeaderNames : m.m_headers[n] # NoValue /\ (m.m_websocket \/ n # "connection")}

LEMMA HeadersTold ==
  ASSUME NEW m \in Messages
  PROVE  /\ HeaderLines(m) \in Seq(HeadLines)
         /\ Range(HeaderLines(m)) = {<<n, m.m_headers[n]>> : n \in ToldOf(m)}
<1> DEFINE told == ToldOf(m)
           names == SetToSeq(told)
           lines == HeaderLines(m)
<1>1. IsFiniteSet(told)
  BY MessageAssumption, FS_Subset DEF ToldOf
<1>2. names \in Seq(told) /\ Range(names) = told
  BY <1>1, SetAsSeq
<1>3. lines = [i \in 1..Len(names) |-> <<names[i], m.m_headers[names[i]]>>]
  BY Zenon DEF HeaderLines, ToldOf
<1> HIDE DEF told, names, lines
<1>4. DOMAIN names = 1..Len(names) /\ Len(names) \in Nat
  BY <1>2
<1>5. \A n \in told : <<n, m.m_headers[n]>> \in HeadLines
  BY DEF told, ToldOf, HeadLines, Messages
<1>6. \A i \in 1..Len(names) : names[i] \in told
  BY <1>2
<1>7. lines \in [1..Len(names) -> HeadLines]
  BY <1>3, <1>5, <1>6
<1>8. lines \in Seq(HeadLines)
  BY <1>4, <1>7
<1>9. Range(lines) = {lines[i] : i \in 1..Len(names)}
  BY <1>7, Zenon DEF Range
<1>10. told = {names[i] : i \in 1..Len(names)}
  BY <1>2, <1>4, Zenon DEF Range
<1>11. Range(lines) = {<<n, m.m_headers[n]>> : n \in told}
  BY <1>3, <1>9, <1>10
<1> QED
  BY <1>8, <1>11 DEF told, lines

LEMMA OneLine ==
  ASSUME NEW line \in HeadLines
  PROVE  <<line>> \in Seq(HeadLines) /\ Range(<<line>>) = {line}
<1>1. <<line>> \in Seq(HeadLines) /\ Len(<<line>>) = 1 /\ <<line>>[1] = line
  OBVIOUS
<1>2. Range(<<line>>) = {<<line>>[i] : i \in 1..1}
  BY <1>1, RangeEquality
<1> QED
  BY <1>1, <1>2

LEMMA NoLine == <<>> \in Seq(HeadLines) /\ Range(<<>>) = {}
<1>1. <<>> \in Seq(HeadLines) /\ Len(<<>>) = 0
  OBVIOUS
<1>2. Range(<<>>) = {<<>>[i] : i \in 1..0}
  BY <1>1, RangeEquality
<1> QED
  BY <1>1, <1>2

(* The line of the connection and the one of the length. *)
ConnectionOf(m) == <<"connection", IF m.m_close THEN CloseValue ELSE KeepValue>>
LEMMA ConnectionTold ==
  ASSUME NEW m \in Messages
  PROVE  /\ ConnectionLine(m) \in Seq(HeadLines)
         /\ Range(ConnectionLine(m)) = IF m.m_websocket THEN {} ELSE {ConnectionOf(m)}
<1>1. ConnectionOf(m) \in HeadLines
  BY MessageAssumption DEF ConnectionOf, HeadLines, Values
<1> QED
  BY <1>1, OneLine, NoLine, Zenon DEF ConnectionLine, ConnectionOf

LEMMA LengthTold ==
  ASSUME NEW m \in Messages, NEW name \in HeaderNames
  PROVE  /\ LengthLine(m, name) \in Seq(HeadLines)
         /\ Range(LengthLine(m, name)) = IF m.m_body = 0 THEN {} ELSE {<<name, m.m_body>>}
<1>1. <<name, m.m_body>> \in HeadLines
  BY DEF HeadLines, Messages
<1> QED
  BY <1>1, OneLine, NoLine, Zenon DEF LengthLine

(* What the lines of a dump say, in any order. *)
LengthName(m) == IF m.kind = "request" THEN "connect-length" ELSE "content-length"
LEMMA DumpTold ==
  ASSUME NEW m \in Messages
  PROVE  /\ DumpOf(m) \in Seq(HeadLines)
         /\ Range(DumpOf(m)) = Range(HeaderLines(m)) \cup Range(ConnectionLine(m))
                                 \cup Range(LengthLine(m, LengthName(m)))
         /\ m.kind = "response" /\ m.m_body # 0 =>
              /\ DumpOf(m) # <<>>
              /\ DumpOf(m)[Len(DumpOf(m))] = <<"content-length", m.m_body>>
<1> DEFINE h == HeaderLines(m)
           c == ConnectionLine(m)
           l == LengthLine(m, LengthName(m))
<1>1. h \in Seq(HeadLines) /\ c \in Seq(HeadLines) /\ l \in Seq(HeadLines)
  BY HeadersTold, ConnectionTold, LengthTold, MessageAssumption DEF LengthName
<1>2. DumpOf(m) = IF m.kind = "request" THEN (c \o h) \o l ELSE (h \o c) \o l
  BY Zenon DEF DumpOf, DumpRequest, DumpResponse, LengthName
<1>3. l = IF m.m_body = 0 THEN <<>> ELSE << <<LengthName(m), m.m_body>> >>
  BY Zenon DEF LengthLine
<1> HIDE DEF h, c, l
<1>4. /\ c \o h \in Seq(HeadLines) /\ h \o c \in Seq(HeadLines)
      /\ (c \o h) \o l \in Seq(HeadLines) /\ (h \o c) \o l \in Seq(HeadLines)
  BY <1>1
<1>5. Range(c \o h) = Range(c) \cup Range(h) /\ Range(h \o c) = Range(h) \cup Range(c)
  <2>1. Range(c \o h) = Range(c) \cup Range(h)
    BY <1>1, RangeConcatenation, ZenonT(30)
  <2>2. Range(h \o c) = Range(h) \cup Range(c)
    BY <1>1, RangeConcatenation, ZenonT(30)
  <2> QED
    BY <2>1, <2>2, Zenon
<1>6. /\ Range((c \o h) \o l) = Range(c \o h) \cup Range(l)
      /\ Range((h \o c) \o l) = Range(h \o c) \cup Range(l)
  <2>1. Range((c \o h) \o l) = Range(c \o h) \cup Range(l)
    BY <1>1, <1>4, RangeConcatenation, ZenonT(30)
  <2>2. Range((h \o c) \o l) = Range(h \o c) \cup Range(l)
    BY <1>1, <1>4, RangeConcatenation, ZenonT(30)
  <2> QED
    BY <2>1, <2>2, Zenon
<1>7. Range(DumpOf(m)) = Range(h) \cup Range(c) \cup Range(l)
  BY <1>2, <1>5, <1>6
<1>8. ASSUME m.kind = "response", m.m_body # 0
      PROVE  DumpOf(m) # <<>> /\ DumpOf(m)[Len(DumpOf(m))] = <<"content-length", m.m_body>>
  <2>1. DumpOf(m) = (h \o c) \o l /\ l = << <<"content-length", m.m_body>> >>
    BY <1>2, <1>3, <1>8 DEF LengthName
  <2>2. Len(l) = 1 /\ l[1] = <<"content-length", m.m_body>>
    BY <2>1
  <2> DEFINE front == h \o c
  <2>3. front \in Seq(HeadLines)
    BY <1>4
  <2> HIDE DEF front
  <2>4. Len(front \o l) = Len(front) + 1 /\ (front \o l)[Len(front) + 1] = l[1]
    <3>1. /\ Len(front \o l) = Len(front) + Len(l)
          /\ \A i \in 1..Len(front) + Len(l) :
               (front \o l)[i] = IF i <= Len(front) THEN front[i] ELSE l[i - Len(front)]
      BY <1>1, <2>3, ConcatProperties
    <3>2. Len(front) \in Nat /\ Len(l) = 1
      BY <2>2, <2>3
    <3> HIDE DEF l
    <3> QED
      BY <3>1, <3>2
  <2> QED
    BY <2>1, <2>2, <2>3, <2>4 DEF front
<1> QED
  BY <1>2, <1>4, <1>7, <1>8 DEF h, c, l

LEMMA MessageInitInv == MessageInit => MessageInv
<1> SUFFICES ASSUME MessageInit PROVE MessageInv
  OBVIOUS
<1>1. wire.sent = FALSE
  BY DEF MessageInit, Unsent
<1>2. PICK kind \in {"request", "response"} : message = NewMessage(kind)
  BY DEF MessageInit
<1>3. message \in Messages
  BY <1>2 DEF NewMessage, Messages, Values
<1> QED
  BY <1>1, <1>3 DEF MessageInv

LEMMA MessageNextInv == MessageInv /\ [MessageNext]_messageVars => MessageInv'
<1> SUFFICES ASSUME MessageInv, [MessageNext]_messageVars PROVE MessageInv'
  OBVIOUS
<1>1. CASE UNCHANGED messageVars
  BY <1>1 DEF MessageInv, messageVars, DumpOf, DumpRequest, DumpResponse
<1>2. CASE ~wire.sent /\ Dump
  BY <1>2 DEF MessageInv, Dump, DumpOf
<1>3. ASSUME ~wire.sent, wire' = wire, message' \in Messages
      PROVE  MessageInv'
  BY <1>3 DEF MessageInv
<1>4. ASSUME NEW n \in HeaderNames, NEW v \in Values, message' = [message EXCEPT !.m_headers[n] = v]
      PROVE  message' \in Messages
  BY <1>4 DEF MessageInv, Messages
<1>5. ASSUME NEW n \in HeaderNames, DelHeader(n) \/ \E v \in HeaderValues : SetHeader(n, v)
      PROVE  message' \in Messages
  BY <1>4, <1>5 DEF DelHeader, SetHeader, Values
<1>6. ASSUME NEW b \in Bodies, SetBody(b) PROVE message' \in Messages
  BY <1>6, MessageAssumption DEF MessageInv, Messages, SetBody
<1>7. ASSUME NEW c \in BOOLEAN, SetClose(c) \/ SetWebsocket(c) PROVE message' \in Messages
  BY <1>7 DEF MessageInv, Messages, SetClose, SetWebsocket
<1>8. ASSUME NEW v \in HeaderValues, SetRedirect(v) PROVE message' \in Messages
  <2>1. "location" \in HeaderNames /\ v \in Values
    BY MessageAssumption DEF Values
  <2> QED
    BY <1>8, <2>1 DEF MessageInv, Messages, SetRedirect
<1> QED
  BY <1>1, <1>2, <1>3, <1>5, <1>6, <1>7, <1>8 DEF MessageNext

(* The values the lines of a dump carry. *)
LEMMA DumpCarries ==
  ASSUME NEW m \in Messages, NEW lines, NEW n \in HeaderNames, NEW v,
         \A line \in Range(lines) :
            \/ \E name \in ToldOf(m) : line = <<name, m.m_headers[name]>>
            \/ ~m.m_websocket /\ line = ConnectionOf(m)
            \/ m.m_body # 0 /\ line = <<LengthName(m), m.m_body>>,
         \A name \in ToldOf(m) : <<name, m.m_headers[name]>> \in Range(lines),
         ~m.m_websocket => ConnectionOf(m) \in Range(lines),
         n # "connection" => v = m.m_headers[n],
         n = "connection" => v = IF m.m_websocket THEN m.m_headers[n] ELSE ConnectionOf(m)[2],
         m.m_body # 0 /\ n = LengthName(m) => v = m.m_body
  PROVE  Carry(lines, n, v)
<1>1. ASSUME NEW line \in Range(lines), line[1] = n PROVE line[2] = v
  <2>1. CASE \E name \in ToldOf(m) : line = <<name, m.m_headers[name]>>
    <3>1. n \in ToldOf(m) /\ line = <<n, m.m_headers[n]>>
      BY <1>1, <2>1
    <3> QED
      BY <3>1 DEF ToldOf
  <2>2. CASE ~m.m_websocket /\ line = ConnectionOf(m)
    BY <1>1, <2>2 DEF ConnectionOf
  <2>3. CASE m.m_body # 0 /\ line = <<LengthName(m), m.m_body>>
    BY <1>1, <2>3
  <2> QED
    BY <2>1, <2>2, <2>3
<1>2. ASSUME v # NoValue PROVE \E line \in Range(lines) : line[1] = n
  <2>1. CASE n = "connection" /\ ~m.m_websocket
    <3>1. ConnectionOf(m)[1] = n
      BY <2>1 DEF ConnectionOf
    <3> QED
      BY <2>1, <3>1
  <2>2. CASE ~(n = "connection" /\ ~m.m_websocket)
    <3>1. n \in ToldOf(m)
      BY <1>2, <2>2 DEF ToldOf
    <3>2. <<n, m.m_headers[n]>>[1] = n
      OBVIOUS
    <3> QED
      BY <3>1, <3>2
  <2> QED
    BY <2>1, <2>2
<1> QED
  BY <1>1, <1>2 DEF Carry

LEMMA DumpedIsRead == MessageInv => MessagesRead
<1> SUFFICES ASSUME MessageInv, wire.sent PROVE MessagesRead
  BY DEF MessagesRead
<1> DEFINE m == message
<1>1. m \in Messages /\ wire.lines = DumpOf(m) /\ wire.body = m.m_body
  BY DEF MessageInv
<1>2. wire.lines \in Seq(HeadLines)
  BY <1>1, DumpTold
<1>3. Range(wire.lines) = {<<n, m.m_headers[n]>> : n \in ToldOf(m)}
        \cup (IF m.m_websocket THEN {} ELSE {ConnectionOf(m)})
        \cup (IF m.m_body = 0 THEN {} ELSE {<<LengthName(m), m.m_body>>})
  BY <1>1, DumpTold, HeadersTold, ConnectionTold, LengthTold, MessageAssumption DEF LengthName
<1>31. /\ \A line \in Range(wire.lines) :
            \/ \E name \in ToldOf(m) : line = <<name, m.m_headers[name]>>
            \/ ~m.m_websocket /\ line = ConnectionOf(m)
            \/ m.m_body # 0 /\ line = <<LengthName(m), m.m_body>>
       /\ \A name \in ToldOf(m) : <<name, m.m_headers[name]>> \in Range(wire.lines)
       /\ ~m.m_websocket => ConnectionOf(m) \in Range(wire.lines)
  BY <1>3
<1>32. LengthName(m) \in {"content-length", "connect-length"}
  BY DEF LengthName
<1>4. ASSUME NEW n \in HeaderNames \ {"connection", "content-length", "connect-length"}
      PROVE  ReadHeader(n) = m.m_headers[n]
  <2>1. Carry(wire.lines, n, m.m_headers[n])
    BY <1>1, <1>31, <1>32, DumpCarries
  <2> QED
    BY <1>2, <2>1, CarriedIsRead
<1>5. ReadHeader("connection") = IF m.m_websocket THEN m.m_headers["connection"]
                                   ELSE IF m.m_close THEN CloseValue ELSE KeepValue
  <2> DEFINE v == IF m.m_websocket THEN m.m_headers["connection"] ELSE IF m.m_close THEN CloseValue ELSE KeepValue
  <2>9. "connection" \in HeaderNames /\ ConnectionOf(m)[2] = (IF m.m_close THEN CloseValue ELSE KeepValue)
    BY MessageAssumption DEF ConnectionOf
  <2>1. Carry(wire.lines, "connection", v)
    BY <1>1, <1>31, <1>32, <2>9, DumpCarries
  <2> QED
    BY <1>2, <2>1, CarriedIsRead
<1>6. ASSUME m.kind = "response", m.m_body # 0
      PROVE  ReadHeader("content-length") = m.m_body
  <2>1. wire.lines # <<>> /\ wire.lines[Len(wire.lines)] = <<"content-length", m.m_body>>
    BY <1>1, <1>6, DumpTold
  <2> QED
    BY <1>2, <2>1, LastIsRead
<1>7. ASSUME m.m_headers["content-length"] = (IF m.m_body = 0 THEN NoValue ELSE m.m_body)
      PROVE  ReadHeader("content-length") = (IF m.m_body = 0 THEN NoValue ELSE m.m_body)
  <2> DEFINE v == m.m_headers["content-length"]
  <2>9. "content-length" \in HeaderNames
    BY MessageAssumption
  <2>1. Carry(wire.lines, "content-length", v)
    BY <1>1, <1>7, <1>31, <1>32, <2>9, DumpCarries
  <2> QED
    BY <1>2, <1>7, <2>1, CarriedIsRead
<1>8. m.m_body \in Nat /\ NoValue = -1
  BY <1>1 DEF Messages, NoValue
<1>9. ReadHeader("content-length") = m.m_body \/ (m.m_body = 0 /\ ReadHeader("content-length") = NoValue)
      => BodyTold = m.m_body
  BY <1>8 DEF BodyTold
<1> QED
  BY <1>1, <1>4, <1>5, <1>6, <1>7, <1>9, Zenon DEF MessagesRead

(* http.cc:167-192 and 257-280: what was set of a message is read from its dump on the other side, its
   headers, its connection, and the length of its body where content-length says it; for all names,
   values and bodies. *)
THEOREM DumpsRead == MessageSpec => []MessagesRead
BY MessageInitInv, MessageNextInv, DumpedIsRead, PTL DEF MessageSpec

-----------------------------------------------------------------------------
(* The addresses. *)

LEMMA DivMod ==
  ASSUME NEW b \in Nat \ {0}, NEW x \in Nat
  PROVE  /\ x \div b \in Nat /\ x % b \in 0 .. b - 1
         /\ x = (x \div b) * b + (x % b)
<1> DEFINE q == x \div b
           r == x % b
<1>1. q \in Int /\ r \in 0 .. b - 1 /\ x = b * q + r
  OBVIOUS
<1> HIDE DEF q, r
<1>2. q <= -1 => b * q <= -b
  BY <1>1
<1>3. b * q \in Int /\ b * q = q * b
  BY <1>1
<1>4. q \in Nat
  BY <1>1, <1>2, <1>3
<1> QED
  BY <1>1, <1>3, <1>4 DEF q, r

(* Of a product, more factors are more. *)
LEMMA MoreBytes ==
  ASSUME NEW b \in Nat \ {0}, NEW i \in Int, NEW j \in Int
  PROVE  /\ i * b \in Int /\ j * b \in Int /\ (i + 1) * b = i * b + b
         /\ i <= j => i * b <= j * b
         /\ i < j => i * b + b <= j * b
         /\ i \in Nat => i * b \in Nat
OBVIOUS

(* The bytes from the j-th on, before the k-th, are the bits between. *)
LEMMA BytesTogether ==
  ASSUME NEW j \in Nat, NEW k \in Nat
  PROVE  UNION {ByteAt(i) : i \in j..(k - 1)} = (j * ByteBits + 1)..(k * ByteBits)
<1>1. PICK b \in Nat \ {0} : b = ByteBits
  BY AddressAssumption
<1>2. j * b \in Nat /\ k * b \in Nat
  BY MoreBytes
<1>3. ASSUME NEW i \in j..(k - 1), NEW x \in ByteAt(i) PROVE x \in (j * b + 1)..(k * b)
  <2>1. i \in Nat /\ j <= i /\ i < k /\ i + 1 <= k
    BY <1>3
  <2>2. i * b \in Nat /\ (i + 1) * b = i * b + b /\ j * b <= i * b /\ i * b + b <= k * b
    BY <2>1, MoreBytes
  <2>3. x \in (i * b + 1)..(i * b + b)
    BY <1>1, <1>3, <2>2 DEF ByteAt
  <2> QED
    BY <1>2, <2>2, <2>3
<1>4. ASSUME NEW x \in (j * b + 1)..(k * b) PROVE \E i \in j..(k - 1) : x \in ByteAt(i)
  <2>1. x \in Nat /\ x - 1 \in Nat
    BY <1>2
  <2>2. PICK i \in Nat, r \in 0..b - 1 : x - 1 = i * b + r
    BY <2>1, DivMod
  <2>3. i * b \in Nat /\ (i + 1) * b = i * b + b
    BY MoreBytes
  <2>4. x \in ByteAt(i)
    BY <1>1, <2>1, <2>2, <2>3 DEF ByteAt
  <2>5. ~(i < j)
    <3>1. i < j => i * b + b <= j * b
      BY MoreBytes
    <3> QED
      BY <1>2, <2>2, <2>3, <3>1
  <2>6. ~(k <= i)
    <3>1. k <= i => k * b <= i * b
      BY MoreBytes
    <3> QED
      BY <1>2, <2>2, <2>3, <3>1
  <2>7. i \in j..(k - 1)
    BY <2>5, <2>6
  <2> QED
    BY <2>4, <2>7
<1> QED
  BY <1>1, <1>3, <1>4

(* The parts that an IPv6 prefix cuts the bits into. *)
LEMMA PrefixParts ==
  ASSUME NEW p \in 0..V6Bits
  PROVE  /\ V6Bits \in Nat
         /\ \E q \in Nat, at \in Nat, next \in Nat :
              /\ q = p \div ByteBits /\ at <= p /\ p < next /\ q <= V6Bytes
              /\ q = V6Bytes => p = V6Bits /\ at = V6Bits
              /\ q # V6Bytes => next <= V6Bits
              /\ ByteAt(q) = (at + 1)..next /\ MaskOfByte(p) = (p + 1)..next
              /\ Behind(p) = (next + 1)..V6Bits /\ Before(p) = 1..at
<1>1. PICK b \in Nat \ {0} : b = ByteBits
  BY AddressAssumption
<1>2. PICK n \in Nat \ {0} : n = V6Bytes
  BY AddressAssumption
<1>3. PICK w \in Nat : w = n * b /\ w = V6Bits
  BY <1>1, <1>2, MoreBytes DEF V6Bits
<1>4. p \in Nat /\ p <= w
  BY <1>3
<1>5. PICK q \in Nat, r \in 0..b - 1 : q = p \div b /\ r = p % b /\ p = q * b + r
  BY <1>4, DivMod
<1>6. PICK at \in Nat, next \in Nat : at = q * b /\ next = at + b /\ next = (q + 1) * b
  BY MoreBytes
<1>7. q <= n
  <2>1. n < q => n * b + b <= q * b
    BY MoreBytes
  <2> QED
    BY <1>3, <1>4, <1>5, <1>6, <2>1
<1>8. q # n => next <= w
  <2>1. q < n => q * b + b <= n * b
    BY MoreBytes
  <2> QED
    BY <1>3, <1>6, <1>7, <2>1
<1>9. q = n => at = w /\ p = w
  BY <1>3, <1>4, <1>5, <1>6
<1>10. at <= p /\ p < next
  BY <1>5, <1>6
<1>11. ByteAt(q) = (at + 1)..next
  BY <1>1, <1>6 DEF ByteAt
<1>12. MaskOfByte(p) = (p + 1)..next
  <2>1. MaskOfByte(p) = {at + x : x \in (r + 1)..b}
    BY <1>1, <1>5, <1>6, Zenon DEF MaskOfByte, CreateMask
  <2>2. ASSUME NEW y \in (p + 1)..next PROVE \E x \in (r + 1)..b : y = at + x
    <3>1. y - at \in (r + 1)..b /\ y = at + (y - at)
      BY <1>5, <1>6
    <3> QED
      BY <3>1
  <2>3. ASSUME NEW x \in (r + 1)..b PROVE at + x \in (p + 1)..next
    BY <1>5, <1>6
  <2> QED
    BY <2>1, <2>2, <2>3
<1>13. Behind(p) = (next + 1)..w
  <2>1. Behind(p) = UNION {ByteAt(i) : i \in (q + 1)..(n - 1)}
    BY <1>1, <1>2, <1>5 DEF Behind
  <2> QED
    <3>1. q + 1 \in Nat
      OBVIOUS
    <3>2. UNION {ByteAt(i) : i \in (q + 1)..(n - 1)} = ((q + 1) * ByteBits + 1)..(n * ByteBits)
      BY <3>1, BytesTogether
    <3> QED
      BY <1>1, <1>3, <1>6, <2>1, <3>2
<1>14. Before(p) = 1..at
  <2>1. Before(p) = UNION {ByteAt(i) : i \in 0..(q - 1)}
    BY <1>1, <1>5 DEF Before
  <2>2. 0 * b + 1 = 1
    OBVIOUS
  <2> QED
    <3>1. UNION {ByteAt(i) : i \in 0..(q - 1)} = (0 * ByteBits + 1)..(q * ByteBits)
      BY BytesTogether
    <3>2. 0 * ByteBits + 1 = 1
      BY <1>1, <2>2, Zenon
    <3>3. q * ByteBits = at
      BY <1>1, <1>6
    <3> QED
      BY <2>1, <3>1, <3>2, <3>3, Zenon
<1> QED
  BY <1>1, <1>2, <1>3, <1>5, <1>6, <1>7, <1>8, <1>9, <1>10, <1>11, <1>12, <1>13, <1>14

(* The subnet is that of the prefix. *)
SubnetOf(width, byte, a, p, net) ==
  LET host == (p + 1)..width
  IN /\ net.broadcast = a \cup host /\ net.mask = (1..width) \ host
     /\ net.network \ byte = (a \ host) \ byte
     /\ net.scope => p = V6Bits

LEMMA Subnet4 ==
  ASSUME NEW a \in SUBSET (1..V4Bits), NEW p \in 0..V4Bits, p > 0, NEW net \in V4Subnets(a, p)
  PROVE  SubnetOf(V4Bits, 1..V4Bits, a, p, net)
<1>1. PICK mask : mask \in Mask4(p) /\ net = [broadcast |-> a \cup mask, network |-> a \cap mask,
                                             mask |-> (1..V4Bits) \ mask, scope |-> FALSE]
  BY Zenon DEF V4Subnets
<1>2. mask = (p + 1)..V4Bits
  BY <1>1 DEF Mask4, CreateMask
<1> QED
  BY <1>1, <1>2 DEF SubnetOf

LEMMA Subnet6 ==
  ASSUME NEW a \in SUBSET (1..V6Bits), NEW p \in 0..V6Bits, NEW net \in V6Subnets(a, p)
  PROVE  SubnetOf(V6Bits, ByteAt(p \div ByteBits), a, p, net)
<1>1. PICK q \in Nat, at \in Nat, next \in Nat :
              /\ q = p \div ByteBits /\ at <= p /\ p < next /\ q <= V6Bytes
              /\ q = V6Bytes => p = V6Bits /\ at = V6Bits
              /\ q # V6Bytes => next <= V6Bits
              /\ ByteAt(q) = (at + 1)..next /\ MaskOfByte(p) = (p + 1)..next
              /\ Behind(p) = (next + 1)..V6Bits /\ Before(p) = 1..at
  BY PrefixParts
<1>2. PICK w \in Nat : w = V6Bits
  BY PrefixParts
<1> DEFINE byte == (at + 1)..next
           mask == (p + 1)..next
           behind == (next + 1)..w
<1>3. /\ net.broadcast = a \cup (mask \cap (1..w)) \cup behind
      /\ net.network = (a \ (byte \cup behind)) \cup (a \cap mask)
      /\ net.mask = ((byte \ mask) \cap (1..w)) \cup 1..at
      /\ net.scope = (q = V6Bytes)
  BY <1>1, <1>2 DEF V6Subnets
<1>4. p \in Nat /\ a \subseteq 1..w
  BY <1>2
<1>5. (mask \cap (1..w)) \cup behind = (p + 1)..w
  BY <1>1, <1>2, <1>4
<1>6. mask \subseteq byte
  BY <1>1, <1>4
<1>7. net.broadcast = a \cup (p + 1)..w
  BY <1>3, <1>5
<1>8. net.mask = (1..w) \ ((p + 1)..w)
  BY <1>1, <1>2, <1>3, <1>4
<1>9. net.network \ byte = (a \ ((p + 1)..w)) \ byte
  <2>1. \A x \in a : x \notin byte => (x \in behind <=> x \in (p + 1)..w)
    BY <1>4, <1>5, <1>6
  <2> HIDE DEF byte, mask, behind
  <2> QED
    BY <1>3, <1>6, <2>1
<1> QED
  BY <1>1, <1>2, <1>3, <1>7, <1>8, <1>9 DEF SubnetOf

(* The least of some numbers. *)
LEMMA LeastIn ==
  ASSUME NEW set \in SUBSET Nat, set # {}
  PROVE  \E x \in set : \A y \in set : x <= y
<1>1. PICK x \in set : \A y \in set : ~(<<y, x>> \in OpToRel(<, Nat))
  BY WFMin, NatLessThanWellFounded
<1>2. ASSUME NEW y \in set PROVE x <= y
  <2> SUFFICES ASSUME y < x PROVE FALSE
    OBVIOUS
  <2>1. <<y, x>> \in OpToRel(<, Nat)
    BY Zenon DEF OpToRel
  <2> QED
    BY <1>1, <2>1
<1> QED
  BY <1>2

V6Values == [1..V6Groups -> Nat]

(* What insert skips is a run of zeros. *)
LEMMA SkippedRun ==
  ASSUME NEW g \in V6Values
  PROVE  \/ Skipped(g) = {}
         \/ \E a \in 1..V6Groups, b \in 1..V6Groups :
              a <= b /\ Skipped(g) = a..b /\ \A k \in a..b : g[k] = 0
<1>1. PICK n \in Nat : n = V6Groups
  BY AddressAssumption
<1> DEFINE zeros == {i \in 1..V6Groups : g[i] = 0}
<1>2. CASE zeros = {}
  <2>1. Skipped(g) = {i \in (n + 1)..n : \A j \in (n + 1)..i : g[j] = 0}
    BY <1>1, <1>2, Zenon DEF Skipped
  <2> QED
    BY <2>1
<1>3. CASE zeros # {}
  <2> DEFINE IsFirst(i) == g[i] = 0 /\ \A j \in 1..(i - 1) : g[j] # 0
             a == CHOOSE i \in 1..V6Groups : IsFirst(i)
  <2>1. \E i \in 1..V6Groups : IsFirst(i)
    <3>1. zeros \in SUBSET Nat
      BY <1>1
    <3>2. PICK i \in zeros : \A j \in zeros : i <= j
      <4> HIDE DEF zeros
      <4> QED
        BY <1>3, <3>1, LeastIn
    <3>3. \A j \in 1..(i - 1) : g[j] # 0
      BY <1>1, <3>2
    <3> QED
      BY <3>2, <3>3
  <2>2. a \in 1..V6Groups /\ g[a] = 0
    BY <2>1, Zenon
  <2>3. Skipped(g) = {i \in a..V6Groups : \A j \in a..i : g[j] = 0}
    BY <1>3, Zenon DEF Skipped
  <2> HIDE DEF a
  <2>4. PICK f \in 1..n : f = a
    BY <1>1, <2>2
  <2> DEFINE others == {i \in f..n : g[i] # 0}
  <2>5. CASE others = {}
    <3>1. Skipped(g) = f..n
      BY <1>1, <2>3, <2>4, <2>5
    <3> QED
      BY <1>1, <2>5, <3>1
  <2>6. CASE others # {}
    <3>1. others \in SUBSET Nat
      OBVIOUS
    <3>2. PICK e \in others : \A j \in others : e <= j
      <4> HIDE DEF others
      <4> QED
        BY <2>6, <3>1, LeastIn
    <3>3. e # f /\ e \in f..n /\ e - 1 \in 1..n /\ f <= e - 1
      BY <2>2, <2>4
    <3>4. \A k \in f..(e - 1) : g[k] = 0
      BY <3>2, <3>3
    <3>5. Skipped(g) = f..(e - 1)
      BY <1>1, <2>3, <2>4, <3>2, <3>3, <3>4
    <3> QED
      BY <1>1, <3>3, <3>4, <3>5
  <2> QED
    BY <2>5, <2>6
<1> QED
  BY <1>2, <1>3

(* The text of an IPv6 address is numbers and colons. *)
TextParts == Nat \cup {Colon}

(* Groups that are joined, one more at a time. *)
LEMMA JoinedGrows ==
  ASSUME NEW g \in V6Values, NEW i \in 1..V6Groups, NEW j \in i..V6Groups
  PROVE  /\ Joined(g, i, j) \in Seq(TextParts) /\ Joined(g, i, i - 1) = <<>>
         /\ i = j => Joined(g, i, j) = <<g[j]>>
         /\ i < j => Joined(g, i, j) = Joined(g, i, j - 1) \o (<<Colon>> \o <<g[j]>>)
<1>1. PICK n \in Nat : n = V6Groups
  BY AddressAssumption
<1>2. i \in Nat /\ j \in Nat /\ 1 <= i /\ i <= j /\ j <= n /\ g \in [1..n -> Nat] /\ Colon \in TextParts
  BY <1>1 DEF V6Values, TextParts
<1> DEFINE Part(k) == IF k % 2 = 0 THEN Colon ELSE g[i + (k \div 2)]
<1>3. ASSUME NEW m \in Nat, i <= m, m <= n, NEW len \in Nat, len = 2 * (m - i) + 1
      PROVE  /\ Joined(g, i, m) \in Seq(TextParts) /\ Len(Joined(g, i, m)) = len
             /\ \A k \in 1..len : Joined(g, i, m)[k] = Part(k)
  <2>1. Joined(g, i, m) = [k \in 1..len |-> Part(k)]
    BY <1>2, <1>3 DEF Joined
  <2>2. ASSUME NEW k \in 1..len PROVE Part(k) \in TextParts
    <3>1. k \div 2 \in 0..(m - i)
      BY <1>2, <1>3
    <3>2. i + (k \div 2) \in 1..n
      BY <1>2, <1>3, <3>1
    <3> QED
      BY <1>2, <3>2 DEF TextParts
  <2> HIDE DEF Part
  <2>3. \A k \in 1..len : Joined(g, i, m)[k] = Part(k)
    BY <2>1, Zenon
  <2>4. Joined(g, i, m) \in [1..len -> TextParts]
    BY <2>1, <2>2
  <2>5. \A s \in [1..len -> TextParts] : s \in Seq(TextParts) /\ Len(s) = len
    OBVIOUS
  <2> QED
    BY <2>3, <2>4, <2>5, Zenon
<1>4. Joined(g, i, i - 1) = <<>>
  <2>1. i > i - 1
    BY <1>2
  <2> QED
    BY <2>1 DEF Joined
<1>5. CASE i = j
  <2>1. 2 * (j - i) + 1 = 1 /\ Part(1) = g[j]
    BY <1>2, <1>5
  <2> HIDE DEF Part
  <2>2. /\ Joined(g, i, j) \in Seq(TextParts) /\ Len(Joined(g, i, j)) = 1
        /\ \A k \in 1..1 : Joined(g, i, j)[k] = Part(k)
    BY <1>2, <1>3, <2>1
  <2>3. \A s \in Seq(TextParts) : Len(s) = 1 => s = <<s[1]>>
    OBVIOUS
  <2> QED
    BY <1>2, <1>4, <1>5, <2>1, <2>2, <2>3
<1>6. CASE i < j
  <2> DEFINE s == Joined(g, i, j)
             t == Joined(g, i, j - 1)
             u == <<Colon>> \o <<g[j]>>
  <2>1. PICK d \in Nat : d = j - i /\ d > 0 /\ i + d = j
    BY <1>2, <1>6
  <2>2. j - 1 \in Nat /\ i <= j - 1 /\ j - 1 <= n /\ 2 * ((j - 1) - i) + 1 = 2 * d - 1
    BY <1>2, <1>6, <2>1
  <2>3. PICK odd \in Nat : odd = 2 * d - 1 /\ odd + 2 = 2 * (j - i) + 1
    BY <1>2, <2>1
  <2>4. u \in Seq(TextParts) /\ Len(u) = 2 /\ u[1] = Colon /\ u[2] = g[j]
    <3>1. g[j] \in TextParts
      BY <1>2 DEF TextParts
    <3> QED
      BY <1>2, <3>1
  <2>5. Part(odd + 1) = Colon /\ Part(odd + 2) = g[j]
    <3>1. (odd + 1) % 2 = 0 /\ (odd + 2) % 2 = 1 /\ (odd + 2) \div 2 = d
      BY <2>1, <2>3
    <3> QED
      BY <2>1, <3>1
  <2> HIDE DEF Part, s, t, u
  <2>6. s \in Seq(TextParts) /\ Len(s) = odd + 2 /\ \A k \in 1..(odd + 2) : s[k] = Part(k)
    <3>1. odd + 2 \in Nat /\ odd + 2 = 2 * (j - i) + 1
      BY <2>3
    <3> QED
      BY <1>2, <1>3, <3>1 DEF s
  <2>7. t \in Seq(TextParts) /\ Len(t) = odd /\ \A k \in 1..odd : t[k] = Part(k)
    BY <1>2, <1>3, <2>2, <2>3 DEF t
  <2>8. /\ t \o u \in Seq(TextParts) /\ Len(t \o u) = Len(t) + Len(u)
        /\ \A k \in 1..(Len(t) + Len(u)) : (t \o u)[k] = IF k <= Len(t) THEN t[k] ELSE u[k - Len(t)]
    BY <2>4, <2>7, ConcatProperties
  <2>9. ASSUME NEW k \in 1..(odd + 2) PROVE s[k] = (t \o u)[k]
    <3>1. (t \o u)[k] = IF k <= odd THEN t[k] ELSE u[k - odd]
      BY <2>4, <2>7, <2>8
    <3>2. CASE k <= odd
      BY <2>6, <2>7, <3>1, <3>2
    <3>3. CASE k = odd + 1
      BY <2>4, <2>5, <2>6, <3>1, <3>3
    <3>4. CASE k = odd + 2
      BY <2>4, <2>5, <2>6, <3>1, <3>4
    <3>5. k <= odd \/ k = odd + 1 \/ k = odd + 2
      BY <2>3
    <3> QED
      BY <3>2, <3>3, <3>4, <3>5
  <2>10. s = t \o u
    <3>1. t \o u \in Seq(TextParts) /\ Len(t \o u) = odd + 2
      BY <2>4, <2>7, <2>8
    <3>2. \A x \in Seq(TextParts), y \in Seq(TextParts) :
            Len(x) = Len(y) /\ (\A k \in 1..Len(x) : x[k] = y[k]) => x = y
      OBVIOUS
    <3> QED
      BY <2>6, <2>9, <3>1, <3>2
  <2> QED
    BY <1>4, <1>6, <2>6, <2>10 DEF s, t, u
<1>7. i = j \/ i < j
  BY <1>2
<1> QED
  BY <1>5, <1>6, <1>7, Zenon

(* What insert puts for each group. *)
PieceOf(g, i) ==
  IF i \in Skipped(g) THEN <<>>
  ELSE (IF i - 1 \in Skipped(g) THEN <<Colon>> ELSE <<>>) \o (IF i > 1 THEN <<Colon>> ELSE <<>>) \o <<g[i]>>

LEMMA PieceIs ==
  ASSUME NEW g \in V6Values, NEW i \in 1..V6Groups
  PROVE  /\ g[i] \in TextParts
         /\ i \in Skipped(g) => PieceOf(g, i) = <<>>
         /\ i \notin Skipped(g) /\ i - 1 \notin Skipped(g) =>
              PieceOf(g, i) = IF i > 1 THEN <<Colon>> \o <<g[i]>> ELSE <<g[i]>>
         /\ i \notin Skipped(g) /\ i - 1 \in Skipped(g) /\ i > 1 =>
              PieceOf(g, i) = <<Colon, Colon>> \o <<g[i]>>
<1>1. g[i] \in TextParts /\ Colon \in TextParts
  BY DEF V6Values, TextParts
<1>2. <<>> \o <<Colon>> = <<Colon>> /\ <<>> \o <<>> = <<>> /\ <<Colon>> \o <<Colon>> = <<Colon, Colon>>
  <2>1. <<>> \in Seq(TextParts) /\ <<Colon>> \in Seq(TextParts)
    BY <1>1
  <2>2. \A s \in Seq(TextParts) : <<>> \o s = s
    BY ConcatEmptySeq
  <2>3. <<Colon>> \o <<Colon>> = <<Colon, Colon>>
    <3> DEFINE two == <<Colon>> \o <<Colon>>
    <3>1. two \in Seq(TextParts) /\ Len(two) = 2 /\ two[1] = Colon /\ two[2] = Colon
      BY <1>1
    <3> HIDE DEF two
    <3>2. \A s \in Seq(TextParts) : Len(s) = 2 => s = <<s[1], s[2]>>
      OBVIOUS
    <3>3. two = <<two[1], two[2]>>
      BY <3>1, <3>2
    <3> QED
      BY <3>1, <3>3 DEF two
  <2> QED
    BY <2>1, <2>2, <2>3
<1>3. <<>> \o <<g[i]>> = <<g[i]>>
  BY <1>1
<1>4. i \in Skipped(g) => PieceOf(g, i) = <<>>
  BY Zenon DEF PieceOf
<1>5. ASSUME i \notin Skipped(g)
      PROVE  PieceOf(g, i) = ((IF i - 1 \in Skipped(g) THEN <<Colon>> ELSE <<>>)
                               \o (IF i > 1 THEN <<Colon>> ELSE <<>>)) \o <<g[i]>>
  BY <1>5, Zenon DEF PieceOf
<1>6. ASSUME i \notin Skipped(g), i - 1 \notin Skipped(g)
      PROVE  PieceOf(g, i) = IF i > 1 THEN <<Colon>> \o <<g[i]>> ELSE <<g[i]>>
  BY <1>2, <1>3, <1>5, <1>6, Zenon
<1>7. ASSUME i \notin Skipped(g), i - 1 \in Skipped(g), i > 1
      PROVE  PieceOf(g, i) = <<Colon, Colon>> \o <<g[i]>>
  BY <1>2, <1>5, <1>7, Zenon
<1> QED
  BY <1>1, <1>4, <1>6, <1>7, Zenon

(* The loop of insert is the function of the groups that does what it does to the text. *)
LEMMA InsertIs ==
  ASSUME NEW g \in V6Values, NEW f,
         f = [i \in 0..V6Groups |-> IF i = 0 THEN <<>> ELSE f[i - 1] \o PieceOf(g, i)]
  PROVE  Insert(g) = f[V6Groups] \o (IF V6Groups \in Skipped(g) THEN <<Colon, Colon>> ELSE <<>>)
<1>1. PICK n \in Nat : n = V6Groups
  BY AddressAssumption
<1> DEFINE Value == CHOOSE h : h = [i \in 0..V6Groups |-> IF i = 0 THEN <<>> ELSE h[i - 1] \o PieceOf(g, i)]
<1>2. Value = [i \in 0..V6Groups |-> IF i = 0 THEN <<>> ELSE Value[i - 1] \o PieceOf(g, i)]
  BY Zenon
<1>3. Insert(g) = Value[V6Groups] \o (IF V6Groups \in Skipped(g) THEN <<Colon, Colon>> ELSE <<>>)
  BY Zenon DEF Insert, PieceOf
<1> HIDE DEF Value
<1>4. PICK h : h = Value
  OBVIOUS
<1>5. ASSUME NEW e, e = [i \in 0..V6Groups |-> IF i = 0 THEN <<>> ELSE e[i - 1] \o PieceOf(g, i)]
      PROVE  e[0] = <<>> /\ \A i \in 1..n : e[i] = e[i - 1] \o PieceOf(g, i)
  <2>1. ASSUME NEW i \in 1..n PROVE e[i] = e[i - 1] \o PieceOf(g, i)
    <3>1. i \in 0..V6Groups /\ i # 0
      BY <1>1
    <3> QED
      BY <3>1, <1>5, Zenon
  <2>2. e[0] = <<>>
    <3>1. 0 \in 0..V6Groups
      BY <1>1
    <3> QED
      BY <3>1, <1>5, Zenon
  <2> QED
    BY <2>1, <2>2
<1>6. h[0] = <<>> /\ \A i \in 1..n : h[i] = h[i - 1] \o PieceOf(g, i)
  BY <1>2, <1>4, <1>5
<1>7. f[0] = <<>> /\ \A i \in 1..n : f[i] = f[i - 1] \o PieceOf(g, i)
  BY <1>5
<1> DEFINE odd == {i \in 0..n : h[i] # f[i]}
<1>8. odd = {}
  <2> SUFFICES ASSUME odd # {} PROVE FALSE
    OBVIOUS
  <2>1. PICK m \in odd : \A k \in odd : m <= k
    <3>1. odd \in SUBSET Nat
      BY <1>1
    <3> HIDE DEF odd
    <3> QED
      BY <3>1, LeastIn
  <2>2. m \in 0..n /\ h[m] # f[m] /\ m # 0
    BY <1>6, <1>7
  <2>3. m - 1 \in 0..n /\ m \in 1..n
    BY <1>1, <2>2
  <2>4. m - 1 \notin odd
    <3> HIDE DEF odd
    <3> QED
      BY <1>1, <2>1, <2>2
  <2>5. h[m - 1] = f[m - 1]
    BY <2>3, <2>4
  <2>6. h[m] = h[m - 1] \o PieceOf(g, m) /\ f[m] = f[m - 1] \o PieceOf(g, m)
    BY <1>6, <1>7, <2>3
  <2> QED
    BY <2>2, <2>5, <2>6, Zenon
<1>9. h[n] = f[n]
  <2>1. n \in 0..n
    BY <1>1
  <2> QED
    BY <1>8, <2>1
<1> QED
  BY <1>1, <1>3, <1>4, <1>9

(* Without a run of zeros the groups are joined; the texts up to each. *)
LEMMA NothingSkipped ==
  ASSUME NEW g \in V6Values, Skipped(g) = {}
  PROVE  Insert(g) = Joined(g, 1, V6Groups)
<1>1. PICK n \in Nat \ {0} : n = V6Groups
  BY AddressAssumption
<1> DEFINE f == [i \in 0..V6Groups |-> Joined(g, 1, i)]
<1>2. Joined(g, 1, 0) = <<>>
  BY DEF Joined
<1>3. ASSUME NEW i \in 1..n PROVE Joined(g, 1, i) = Joined(g, 1, i - 1) \o PieceOf(g, i)
  <2>1. 1 \in 1..V6Groups /\ i \in 1..V6Groups /\ i \in Nat
    BY <1>1
  <2>2. g[i] \in TextParts /\ PieceOf(g, i) = IF i > 1 THEN <<Colon>> \o <<g[i]>> ELSE <<g[i]>>
    BY <2>1, PieceIs
  <2>3. CASE i = 1
    <3>1. Joined(g, 1, i) = <<g[i]>>
      BY <2>1, <2>3, JoinedGrows
    <3>2. Joined(g, 1, i - 1) = <<>> /\ PieceOf(g, i) = <<g[i]>>
      BY <1>2, <2>2, <2>3
    <3>3. <<>> \o <<g[i]>> = <<g[i]>>
      BY <2>2
    <3> QED
      BY <3>1, <3>2, <3>3
  <2>4. CASE i > 1
    BY <2>1, <2>2, <2>4, JoinedGrows
  <2> QED
    BY <2>1, <2>3, <2>4
<1>4. f = [i \in 0..V6Groups |-> IF i = 0 THEN <<>> ELSE f[i - 1] \o PieceOf(g, i)]
  <2>1. ASSUME NEW i \in 0..V6Groups PROVE Joined(g, 1, i) = IF i = 0 THEN <<>> ELSE f[i - 1] \o PieceOf(g, i)
    <3>1. CASE i = 0
      BY <1>2, <3>1
    <3>2. CASE i # 0
      <4>1. i \in 1..n /\ i - 1 \in 0..V6Groups
        BY <1>1, <3>2
      <4> QED
        BY <1>3, <3>2, <4>1, Zenon
    <3> QED
      BY <3>1, <3>2
  <2> QED
    BY <2>1, Zenon
<1>5. f[V6Groups] = Joined(g, 1, V6Groups)
  BY <1>1
<1> HIDE DEF f
<1>6. Insert(g) = f[V6Groups] \o <<>>
  BY <1>4, InsertIs
<1>7. Joined(g, 1, V6Groups) \in Seq(TextParts)
  <2>1. 1 \in 1..V6Groups /\ V6Groups \in 1..V6Groups
    BY <1>1
  <2> QED
    BY <2>1, JoinedGrows
<1> QED
  BY <1>5, <1>6, <1>7, ConcatEmptySeq

(* A run of zeros is left out between two colons. *)
LEMMA RunSkipped ==
  ASSUME NEW g \in V6Values, NEW a \in 1..V6Groups, NEW b \in 1..V6Groups, a <= b, Skipped(g) = a..b
  PROVE  Insert(g) = (Joined(g, 1, a - 1) \o <<Colon, Colon>>) \o Joined(g, b + 1, V6Groups)
<1>1. PICK n \in Nat \ {0} : n = V6Groups
  BY AddressAssumption
<1>2. a \in 1..n /\ b \in 1..n /\ a \in Nat /\ b \in Nat
  BY <1>1
<1> DEFINE front == Joined(g, 1, a - 1)
           cut == front \o <<Colon, Colon>>
           F(i) == IF i < a THEN Joined(g, 1, i) ELSE IF i <= b THEN front ELSE cut \o Joined(g, b + 1, i)
           f == [i \in 0..V6Groups |-> F(i)]
<1>3. Joined(g, 1, 0) = <<>>
  BY DEF Joined
<1>4. Colon \in TextParts /\ <<>> \in Seq(TextParts) /\ <<Colon, Colon>> \in Seq(TextParts)
  <2>1. Colon \in TextParts
    BY DEF TextParts
  <2> QED
    BY <2>1
<1>5. front \in Seq(TextParts)
  <2>1. CASE a = 1
    <3>1. a - 1 = 0
      BY <2>1
    <3> QED
      BY <1>3, <1>4, <3>1, Zenon DEF front
  <2>2. CASE a # 1
    <3>1. 1 \in 1..V6Groups /\ a - 1 \in 1..V6Groups
      BY <1>1, <1>2, <2>2
    <3> QED
      BY <3>1, JoinedGrows
  <2> QED
    BY <2>1, <2>2
<1>6. cut \in Seq(TextParts)
  BY <1>4, <1>5, ConcatProperties
<1> HIDE DEF front, cut
<1>7. ASSUME NEW i \in 1..n PROVE F(i) = F(i - 1) \o PieceOf(g, i)
  <2>1. 1 \in 1..V6Groups /\ i \in 1..V6Groups /\ i \in Nat
    BY <1>1
  <2>2. g[i] \in TextParts /\ <<g[i]>> \in Seq(TextParts)
    <3>1. g[i] \in TextParts
      BY <2>1, PieceIs
    <3> QED
      BY <3>1
  <2>3. CASE i < a
    <3>1. i \notin Skipped(g) /\ i - 1 \notin Skipped(g)
      BY <1>2, <2>1, <2>3
    <3>2. PieceOf(g, i) = IF i > 1 THEN <<Colon>> \o <<g[i]>> ELSE <<g[i]>>
      BY <2>1, <3>1, PieceIs
    <3>3. F(i) = Joined(g, 1, i) /\ F(i - 1) = Joined(g, 1, i - 1)
      BY <1>2, <2>1, <2>3
    <3>4. CASE i = 1
      <4>1. Joined(g, 1, i) = <<g[i]>> /\ Joined(g, 1, i - 1) = <<>>
        BY <1>3, <2>1, <3>4, JoinedGrows
      <4>2. <<>> \o <<g[i]>> = <<g[i]>>
        BY <2>2
      <4>3. PieceOf(g, i) = <<g[i]>>
        BY <3>2, <3>4
      <4> QED
        BY <3>3, <4>1, <4>2, <4>3, Zenon
    <3>5. CASE i > 1
      <4>1. Joined(g, 1, i) = Joined(g, 1, i - 1) \o (<<Colon>> \o <<g[i]>>)
        BY <2>1, <3>5, JoinedGrows
      <4> QED
        BY <3>2, <3>3, <3>5, <4>1, Zenon
    <3>6. i = 1 \/ i > 1
      BY <2>1
    <3> QED
      BY <3>4, <3>5, <3>6, Zenon
  <2>4. CASE a <= i /\ i <= b
    <3>1. i \in Skipped(g)
      BY <1>2, <2>1, <2>4
    <3>2. PieceOf(g, i) = <<>>
      BY <2>1, <3>1, PieceIs
    <3>3. F(i) = front
      BY <1>2, <2>1, <2>4
    <3>4. F(i - 1) = front
      <4>1. CASE i = a
        BY <1>2, <2>1, <4>1 DEF front
      <4>2. CASE i # a
        BY <1>2, <2>1, <2>4, <4>2
      <4> QED
        BY <4>1, <4>2
    <3>5. front \o <<>> = front
      BY <1>5, ConcatEmptySeq
    <3> QED
      BY <3>2, <3>3, <3>4, <3>5, Zenon
  <2>5. CASE i = b + 1
    <3>1. i \notin Skipped(g) /\ i - 1 \in Skipped(g) /\ i > 1
      BY <1>2, <2>1, <2>5
    <3>2. PieceOf(g, i) = <<Colon, Colon>> \o <<g[i]>>
      BY <2>1, <3>1, PieceIs
    <3>3. F(i) = cut \o Joined(g, b + 1, i) /\ F(i - 1) = front
      BY <1>2, <2>1, <2>5
    <3>4. Joined(g, b + 1, i) = <<g[i]>>
      <4>1. i \in i..V6Groups
        BY <1>1, <2>1
      <4>2. Joined(g, i, i) = <<g[i]>>
        BY <2>1, <4>1, JoinedGrows
      <4> QED
        BY <2>5, <4>2
    <3>5. cut \o <<g[i]>> = front \o (<<Colon, Colon>> \o <<g[i]>>)
      BY <1>4, <1>5, <2>2, ConcatAssociative DEF cut
    <3> QED
      BY <3>2, <3>3, <3>4, <3>5, Zenon
  <2>6. CASE i > b + 1
    <3>1. i \notin Skipped(g) /\ i - 1 \notin Skipped(g) /\ i > 1
      BY <1>2, <2>1, <2>6
    <3>2. PieceOf(g, i) = <<Colon>> \o <<g[i]>>
      BY <2>1, <3>1, PieceIs
    <3>3. F(i) = cut \o Joined(g, b + 1, i) /\ F(i - 1) = cut \o Joined(g, b + 1, i - 1)
      BY <1>2, <2>1, <2>6
    <3>4. b + 1 \in 1..V6Groups /\ i \in (b + 1)..V6Groups /\ i - 1 \in (b + 1)..V6Groups /\ b + 1 < i
      BY <1>1, <1>2, <2>1, <2>6
    <3>5. /\ Joined(g, b + 1, i) = Joined(g, b + 1, i - 1) \o (<<Colon>> \o <<g[i]>>)
          /\ Joined(g, b + 1, i - 1) \in Seq(TextParts)
      BY <3>4, JoinedGrows
    <3>6. <<Colon>> \o <<g[i]>> \in Seq(TextParts)
      BY <1>4, <2>2
    <3>7. (cut \o Joined(g, b + 1, i - 1)) \o (<<Colon>> \o <<g[i]>>) =
          cut \o (Joined(g, b + 1, i - 1) \o (<<Colon>> \o <<g[i]>>))
      <4>1. \A x \in Seq(TextParts), y \in Seq(TextParts), z \in Seq(TextParts) : (x \o y) \o z = x \o (y \o z)
        BY ConcatAssociative
      <4> QED
        BY <1>6, <3>5, <3>6, <4>1, ZenonT(30)
    <3> QED
      BY <3>2, <3>3, <3>5, <3>7, Zenon
  <2>7. i < a \/ (a <= i /\ i <= b) \/ i = b + 1 \/ i > b + 1
    BY <1>2, <2>1
  <2> QED
    BY <2>3, <2>4, <2>5, <2>6, <2>7, Zenon
<1>8. F(0) = <<>>
  BY <1>2, <1>3
<1> HIDE DEF F
<1>9. f = [i \in 0..V6Groups |-> IF i = 0 THEN <<>> ELSE f[i - 1] \o PieceOf(g, i)]
  <2>1. ASSUME NEW i \in 0..V6Groups PROVE F(i) = IF i = 0 THEN <<>> ELSE f[i - 1] \o PieceOf(g, i)
    <3>1. CASE i = 0
      BY <1>8, <3>1
    <3>2. CASE i # 0
      <4>1. i \in 1..n /\ i - 1 \in 0..V6Groups
        BY <1>1, <3>2
      <4> QED
        BY <1>7, <3>2, <4>1, Zenon
    <3> QED
      BY <3>1, <3>2
  <2> QED
    BY <2>1, Zenon
<1>10. f[V6Groups] = F(V6Groups)
  BY <1>1
<1> HIDE DEF f
<1>11. Insert(g) = F(V6Groups) \o (IF V6Groups \in Skipped(g) THEN <<Colon, Colon>> ELSE <<>>)
  BY <1>9, <1>10, InsertIs
<1>12. CASE b = n
  <2>1. F(V6Groups) = front /\ V6Groups \in Skipped(g)
    BY <1>1, <1>2, <1>12 DEF F
  <2>2. Joined(g, b + 1, V6Groups) = <<>>
    <3>1. b + 1 > V6Groups
      BY <1>1, <1>2, <1>12
    <3> QED
      BY <3>1 DEF Joined
  <2>3. cut \o <<>> = cut
    BY <1>6, ConcatEmptySeq
  <2> QED
    BY <1>11, <2>1, <2>2, <2>3, Zenon DEF cut, front
<1>13. CASE b # n
  <2>1. F(V6Groups) = cut \o Joined(g, b + 1, V6Groups) /\ V6Groups \notin Skipped(g)
    BY <1>1, <1>2, <1>13 DEF F
  <2>2. Joined(g, b + 1, V6Groups) \in Seq(TextParts)
    <3>1. b + 1 \in 1..V6Groups /\ V6Groups \in (b + 1)..V6Groups
      BY <1>1, <1>2, <1>13
    <3> QED
      BY <3>1, JoinedGrows
  <2>3. (cut \o Joined(g, b + 1, V6Groups)) \o <<>> = cut \o Joined(g, b + 1, V6Groups)
    BY <1>6, <2>2, ConcatProperties, ConcatEmptySeq
  <2> QED
    BY <1>11, <2>1, <2>3, Zenon DEF cut, front
<1> QED
  BY <1>12, <1>13

LEMMA InsertIsText ==
  ASSUME NEW g \in V6Values
  PROVE  Insert(g) \in TextsOf(g)
<1>1. CASE Skipped(g) = {}
  BY <1>1, NothingSkipped DEF TextsOf
<1>2. CASE Skipped(g) # {}
  <2>1. PICK a \in 1..V6Groups, b \in 1..V6Groups :
          a <= b /\ Skipped(g) = a..b /\ \A k \in a..b : g[k] = 0
    BY <1>2, SkippedRun
  <2>2. Insert(g) = (Joined(g, 1, a - 1) \o <<Colon, Colon>>) \o Joined(g, b + 1, V6Groups)
    BY <2>1, RunSkipped
  <2>3. PICK run : run = <<a, b>>
    OBVIOUS
  <2>4. run[1] = a /\ run[2] = b
    BY <2>3
  <2>5. run \in {r \in (1..V6Groups) \X (1..V6Groups) : r[1] <= r[2] /\ \A k \in r[1]..r[2] : g[k] = 0}
    BY <2>1, <2>3, <2>4
  <2>6. Insert(g) = (Joined(g, 1, run[1] - 1) \o <<Colon, Colon>>) \o Joined(g, run[2] + 1, V6Groups)
    BY <2>2, <2>4
  <2> QED
    BY <2>5, <2>6, Zenon DEF TextsOf
<1> QED
  BY <1>1, <1>2

(* What can be read of a text that is numbers and colons. *)
LEMMA TextChars ==
  ASSUME NEW g \in V6Values, NEW s \in TextsOf(g)
  PROVE  s \in Seq(TextParts) /\ s # <<>>
<1>1. PICK n \in Nat \ {0} : n = V6Groups
  BY AddressAssumption
<1>2. ASSUME NEW i \in 1..(n + 1), NEW j \in 0..n, i - 1 <= j
      PROVE  Joined(g, i, j) \in Seq(TextParts) /\ (i <= j => Joined(g, i, j) # <<>>)
  <2>1. CASE i > j
    <3>1. Joined(g, i, j) = <<>>
      BY <2>1 DEF Joined
    <3>2. <<>> \in Seq(TextParts)
      OBVIOUS
    <3> QED
      BY <2>1, <3>1, <3>2
  <2>2. CASE i <= j
    <3>1. i \in 1..V6Groups /\ j \in i..V6Groups
      BY <1>1, <2>2
    <3>2. Joined(g, i, j) \in Seq(TextParts)
      BY <3>1, JoinedGrows
    <3>3. DOMAIN Joined(g, i, j) = 1..(2 * (j - i) + 1)
      BY <2>2 DEF Joined
    <3>4. 1 \in 1..(2 * (j - i) + 1)
      BY <2>2
    <3>5. Joined(g, i, j) # <<>>
      BY <3>3, <3>4
    <3> QED
      BY <3>2, <3>5
  <2> QED
    BY <2>1, <2>2
<1>3. CASE s = Joined(g, 1, V6Groups)
  BY <1>1, <1>2, <1>3
<1>4. CASE s # Joined(g, 1, V6Groups)
  <2>1. PICK run \in (1..V6Groups) \X (1..V6Groups) :
          /\ run[1] <= run[2]
          /\ s = (Joined(g, 1, run[1] - 1) \o <<Colon, Colon>>) \o Joined(g, run[2] + 1, V6Groups)
    BY <1>4, Zenon DEF TextsOf
  <2>2. PICK x : x = Joined(g, 1, run[1] - 1)
    OBVIOUS
  <2>3. PICK z : z = Joined(g, run[2] + 1, V6Groups)
    OBVIOUS
  <2>4. x \in Seq(TextParts) /\ z \in Seq(TextParts)
    BY <1>1, <1>2, <2>1, <2>2, <2>3
  <2>5. PICK y \in Seq(TextParts) : y = <<Colon, Colon>> /\ Len(y) = 2
    <3>1. Colon \in TextParts
      BY DEF TextParts
    <3>2. <<Colon, Colon>> \in Seq(TextParts)
      BY <3>1
    <3>3. Len(<<Colon, Colon>>) = 2
      OBVIOUS
    <3> QED
      BY <3>2, <3>3, Zenon
  <2>6. s = (x \o y) \o z
    BY <2>1, <2>2, <2>3, <2>5
  <2>7. x \o y \in Seq(TextParts) /\ Len(x \o y) > 0
    BY <2>4, <2>5
  <2>8. s \in Seq(TextParts) /\ Len(s) > 0
    BY <2>4, <2>6, <2>7
  <2> QED
    BY <2>8
<1> QED
  BY <1>3, <1>4

-----------------------------------------------------------------------------
(* Texts to look up. *)

(* The first place of a sign in a text, from one on. *)
LEMMA FirstAtIs ==
  ASSUME NEW s \in Seq(Int), NEW sign, NEW from \in Nat \ {0}
  PROVE  \/ FirstAt(s, sign, from) = 0 /\ \A i \in from..Len(s) : s[i] # sign
         \/ /\ FirstAt(s, sign, from) \in from..Len(s) /\ s[FirstAt(s, sign, from)] = sign
            /\ \A i \in from..Len(s) : s[i] = sign => FirstAt(s, sign, from) <= i
<1> DEFINE at == {i \in from..Len(s) : s[i] = sign}
<1>1. FirstAt(s, sign, from) = IF at # {} THEN Min(at) ELSE 0
  BY DEF FirstAt, SelectInSubSeq
<1>2. CASE at = {}
  BY <1>1, <1>2
<1>3. CASE at # {}
  <2>1. at \in SUBSET Nat
    OBVIOUS
  <2> HIDE DEF at
  <2>2. \E x \in at : \A y \in at : x <= y
    BY <1>3, <2>1, LeastIn
  <2>3. Min(at) \in at /\ \A y \in at : Min(at) <= y
    BY <2>2, Zenon DEF Min
  <2>4. FirstAt(s, sign, from) \in at /\ \A y \in at : FirstAt(s, sign, from) <= y
    BY <1>1, <1>3, <2>3
  <2> QED
    BY <2>4 DEF at
<1> QED
  BY <1>2, <1>3

LEMMA FirstIs ==
  ASSUME NEW s \in Seq(Int), NEW sign, NEW from \in Nat \ {0}, NEW k \in from..Len(s), s[k] = sign,
         \A i \in from..Len(s) : i < k => s[i] # sign
  PROVE  FirstAt(s, sign, from) = k
<1>1. PICK f : f = FirstAt(s, sign, from)
  OBVIOUS
<1>2. /\ f \in from..Len(s) /\ s[f] = sign
      /\ \A i \in from..Len(s) : s[i] = sign => f <= i
  BY <1>1, FirstAtIs
<1>3. f <= k /\ ~(f < k)
  BY <1>2
<1>4. f \in Int /\ k \in Int
  BY <1>2
<1> QED
  BY <1>1, <1>3, <1>4

LEMMA NoneAt ==
  ASSUME NEW s \in Seq(Int), NEW sign, NEW from \in Nat \ {0}, \A i \in from..Len(s) : s[i] # sign
  PROVE  FirstAt(s, sign, from) = 0
<1>1. ~(FirstAt(s, sign, from) \in from..Len(s) /\ s[FirstAt(s, sign, from)] = sign)
  OBVIOUS
<1> QED
  BY <1>1, FirstAtIs, Zenon

(* Two sequences, one behind the other, by their lengths. *)
LEMMA BehindIs ==
  ASSUME NEW x \in Seq(Int), NEW y \in Seq(Int), NEW a \in Nat, NEW b \in Nat, a = Len(x), b = Len(y)
  PROVE  /\ x \o y \in Seq(Int) /\ Len(x \o y) = a + b
         /\ \A i \in 1..(a + b) : (x \o y)[i] = IF i <= a THEN x[i] ELSE y[i - a]
<1>1. /\ x \o y \in Seq(Int) /\ Len(x \o y) = Len(x) + Len(y)
      /\ \A i \in 1..Len(x) + Len(y) : (x \o y)[i] = IF i <= Len(x) THEN x[i] ELSE y[i - Len(x)]
  BY ConcatProperties, Zenon
<1> QED
  BY <1>1, Zenon

(* A sequence within another. *)
LEMMA PartIs ==
  ASSUME NEW s \in Seq(Int), NEW t \in Seq(Int), NEW m \in Nat \ {0}, NEW k \in Nat, k <= Len(s),
         Len(t) = k - m + 1, \A i \in 1..Len(t) : s[m - 1 + i] = t[i]
  PROVE  SubSeq(s, m, k) = t
<1>1. PICK p : p = SubSeq(s, m, k)
  OBVIOUS
<1>2. Len(t) \in Nat
  OBVIOUS
<1>3. p \in Seq(Int) /\ Len(p) = k - m + 1 /\ \A i \in 1..(k - m + 1) : p[i] = s[m - 1 + i]
  BY <1>1, <1>2, SMTT(30)
<1>4. Len(p) = Len(t) /\ \A i \in 1..Len(p) : p[i] = t[i]
  BY <1>2, <1>3
<1> QED
  BY <1>1, <1>3, <1>4, SeqEqual, Zenon

(* A name before its service. *)
LEMMA NameSplit ==
  ASSUME NEW host \in Seq(Int), NEW node \in Seq(Int), NEW len \in Nat \ {0}, len = Len(node), len <= Len(host),
         node[1] # OpenSign, \A i \in 1..len : host[i] = node[i] /\ node[i] # Colon,
         Len(host) > len => host[len + 1] = Colon /\ \A i \in (len + 2)..Len(host) : host[i] # Colon
  PROVE  HostParts(host) = [node |-> node, service |-> IF Len(host) = len THEN NoService ELSE From(host, len + 2)]
<1>1. PICK all \in Nat : all = Len(host) /\ len <= all
  OBVIOUS
<1>2. host[1] # OpenSign /\ node # <<>>
  <2>1. 1 \in 1..len
    OBVIOUS
  <2> QED
    BY <2>1
<1>3. Bracketed(host).node = <<>>
  BY <1>2 DEF Bracketed
<1>4. SubSeq(host, 1, len) = node
  BY <1>1, PartIs
<1>5. HostParts(host) = IF Separated(host).node = <<>> THEN [Separated(host) EXCEPT !.node = host] ELSE Separated(host)
  BY <1>3, Zenon DEF HostParts
<1>6. CASE all = len
  <2>1. FirstAt(host, Colon, 1) = 0
    <3>1. \A i \in 1..Len(host) : host[i] # Colon
      BY <1>1, <1>6
    <3> QED
      BY <3>1, NoneAt
  <2>2. Separated(host) = [node |-> <<>>, service |-> NoService]
    <3> DEFINE colon == FirstAt(host, Colon, 1)
               rest == IF FirstAt(host, Colon, colon + 1) # 0
                       THEN [node |-> <<>>, service |-> From(host, colon)]
                       ELSE [node |-> SubSeq(host, 1, colon - 1), service |-> From(host, colon + 1)]
    <3>1. Separated(host) = IF colon = 0 THEN [node |-> <<>>, service |-> NoService] ELSE rest
      BY Zenon DEF Separated
    <3> HIDE DEF rest
    <3> QED
      BY <2>1, <3>1
  <2>3. host = node
    <3>1. Len(host) = Len(node) /\ \A i \in 1..Len(host) : host[i] = node[i]
      BY <1>1, <1>6
    <3> QED
      BY <3>1, SeqEqual
  <2> QED
    BY <1>1, <1>5, <1>6, <2>2, <2>3
<1>7. CASE all > len
  <2>1. len + 1 \in 1..Len(host) /\ host[len + 1] = Colon
    BY <1>1, <1>7
  <2>2. ASSUME NEW i \in 1..Len(host), i < len + 1 PROVE host[i] # Colon
    <3>1. i \in 1..len
      BY <2>2
    <3> QED
      BY <3>1
  <2>3. FirstAt(host, Colon, 1) = len + 1
    <3>1. 1 \in Nat \ {0}
      OBVIOUS
    <3> QED
      BY <2>1, <2>2, <3>1, FirstIs
  <2>4. FirstAt(host, Colon, (len + 1) + 1) = 0
    <3>1. (len + 1) + 1 = len + 2 /\ len + 2 \in Nat \ {0}
      OBVIOUS
    <3>2. \A i \in (len + 2)..Len(host) : host[i] # Colon
      BY <1>1, <1>7
    <3>3. FirstAt(host, Colon, len + 2) = 0
      BY <3>1, <3>2, NoneAt
    <3> QED
      BY <3>1, <3>3
  <2>5. Separated(host) = [node |-> SubSeq(host, 1, (len + 1) - 1), service |-> From(host, (len + 1) + 1)]
    <3>1. len + 1 # 0
      OBVIOUS
    <3> QED
      BY <2>3, <2>4, <3>1, Zenon DEF Separated
  <2>6. (len + 1) - 1 = len /\ (len + 1) + 1 = len + 2
    OBVIOUS
  <2>7. Separated(host) = [node |-> node, service |-> From(host, len + 2)]
    BY <1>4, <2>5, <2>6
  <2> QED
    BY <1>1, <1>2, <1>5, <1>7, <2>7
<1> QED
  BY <1>1, <1>6, <1>7

(* A node in brackets, before its service. *)
LEMMA BracketsSplit ==
  ASSUME NEW host \in Seq(Int), NEW node \in Seq(Int), NEW len \in Nat \ {0}, len = Len(node), len + 2 <= Len(host),
         host[1] = OpenSign, \A i \in 1..len : host[1 + i] = node[i] /\ node[i] # CloseSign,
         host[len + 2] = CloseSign, Len(host) > len + 2 => host[len + 3] = Colon
  PROVE  HostParts(host) =
           [node |-> node, service |-> IF Len(host) = len + 2 THEN NoService ELSE From(host, len + 4)]
<1>1. PICK all \in Nat : all = Len(host) /\ len + 2 <= all
  OBVIOUS
<1>2. host # <<>> /\ node # <<>>
  BY <1>1
<1>3. FirstAt(host, CloseSign, 2) = len + 2
  <2>1. len + 2 \in 2..Len(host)
    BY <1>1
  <2>2. ASSUME NEW i \in 2..Len(host), host[i] = CloseSign PROVE len + 2 <= i
    <3> SUFFICES ASSUME i < len + 2 PROVE FALSE
      BY <1>1
    <3>1. i - 1 \in 1..len /\ 1 + (i - 1) = i
      BY <1>1
    <3> QED
      BY <2>2, <3>1
  <2> QED
    <3>1. 2 \in Nat \ {0}
      OBVIOUS
    <3>3. PICK f : f = FirstAt(host, CloseSign, 2)
      OBVIOUS
    <3>4. \/ f = 0 /\ \A i \in 2..Len(host) : host[i] # CloseSign
          \/ /\ f \in 2..Len(host) /\ host[f] = CloseSign
             /\ \A i \in 2..Len(host) : host[i] = CloseSign => f <= i
      BY <3>1, <3>3, FirstAtIs
    <3>5. f \in 2..Len(host) /\ host[f] = CloseSign /\ f <= len + 2
      BY <2>1, <3>4
    <3>6. len + 2 <= f
      BY <2>2, <3>5
    <3>7. f = len + 2
      BY <3>5, <3>6
    <3> QED
      BY <3>3, <3>7
<1>4. SubSeq(host, 2, (len + 2) - 1) = node
  <2>1. (len + 2) - 1 \in Nat /\ (len + 2) - 1 <= Len(host) /\ Len(node) = (len + 2) - 1 - 2 + 1
    BY <1>1
  <2>2. \A i \in 1..Len(node) : host[2 - 1 + i] = node[i]
    OBVIOUS
  <2> QED
    <3>1. 2 \in Nat \ {0}
      OBVIOUS
    <3> QED
      BY <2>1, <2>2, <3>1, PartIs
<1>5. Bracketed(host) =
        [node |-> node, service |-> IF len + 2 < all /\ host[(len + 2) + 1] = Colon THEN From(host, (len + 2) + 2)
                                    ELSE NoService]
  <2>1. len + 2 # 0
    OBVIOUS
  <2> QED
    BY <1>1, <1>2, <1>3, <1>4, <2>1, Zenon DEF Bracketed
<1>6. (len + 2) + 1 = len + 3 /\ (len + 2) + 2 = len + 4
  OBVIOUS
<1>7. Bracketed(host) = [node |-> node, service |-> IF all = len + 2 THEN NoService ELSE From(host, len + 4)]
  BY <1>1, <1>5, <1>6
<1>8. Bracketed(host).node # <<>>
  BY <1>2, <1>7
<1>9. HostParts(host) = Bracketed(host)
  BY <1>8, Zenon DEF HostParts
<1> QED
  BY <1>1, <1>7, <1>9

(* What is joined of a name, a colon and a service. *)
LEMMA JointIs ==
  ASSUME NEW n \in Seq(Int), NEW service \in Seq(Int), NEW j, j = (n \o <<Colon>>) \o service
  PROVE  /\ j \in Seq(Int) /\ Len(j) = Len(n) + 1 + Len(service) /\ j[Len(n) + 1] = Colon
         /\ \A i \in 1..Len(n) : j[i] = n[i]
         /\ \A i \in 1..Len(service) : j[Len(n) + 1 + i] = service[i]
         /\ SubSeq(j, Len(n) + 2, Len(j)) = service
<1>1. PICK a \in Nat : a = Len(n)
  OBVIOUS
<1>2. PICK b \in Nat : b = Len(service)
  OBVIOUS
<1>3. PICK c \in Seq(Int) : c = <<Colon>> /\ Len(c) = 1 /\ c[1] = Colon
  <2>1. Colon \in Int
    BY DEF Colon
  <2>2. <<Colon>> \in Seq(Int) /\ Len(<<Colon>>) = 1 /\ <<Colon>>[1] = Colon
    BY <2>1
  <2> QED
    BY <2>2
<1>4. PICK m \in Seq(Int) : /\ m = n \o c /\ Len(m) = a + 1
                            /\ \A i \in 1..(a + 1) : m[i] = IF i <= a THEN n[i] ELSE c[i - a]
  <2>1. 1 \in Nat
    OBVIOUS
  <2>2. /\ n \o c \in Seq(Int) /\ Len(n \o c) = a + 1
        /\ \A i \in 1..(a + 1) : (n \o c)[i] = IF i <= a THEN n[i] ELSE c[i - a]
    BY <1>1, <1>3, <2>1, BehindIs
  <2> QED
    BY <2>2, Zenon
<1>5. /\ j \in Seq(Int) /\ Len(j) = (a + 1) + b
      /\ \A i \in 1..((a + 1) + b) : j[i] = IF i <= a + 1 THEN m[i] ELSE service[i - (a + 1)]
  <2>1. j = m \o service
    BY <1>3, <1>4
  <2>2. a + 1 \in Nat
    OBVIOUS
  <2>3. /\ m \o service \in Seq(Int) /\ Len(m \o service) = (a + 1) + b
        /\ \A i \in 1..((a + 1) + b) : (m \o service)[i] = IF i <= a + 1 THEN m[i] ELSE service[i - (a + 1)]
    <3>1. Len(m) = a + 1
      BY <1>4
    <3>2. PICK e \in Nat : e = a + 1
      BY <2>2
    <3>3. /\ m \o service \in Seq(Int) /\ Len(m \o service) = e + b
          /\ \A i \in 1..(e + b) : (m \o service)[i] = IF i <= e THEN m[i] ELSE service[i - e]
      <4>1. PICK x \in Seq(Int), y \in Seq(Int) : x = m /\ y = service
        OBVIOUS
      <4>2. e = Len(x) /\ b = Len(y)
        BY <1>2, <3>1, <3>2, <4>1
      <4>3. /\ x \o y \in Seq(Int) /\ Len(x \o y) = e + b
            /\ \A i \in 1..(e + b) : (x \o y)[i] = IF i <= e THEN x[i] ELSE y[i - e]
        BY <4>2, BehindIs
      <4> QED
        BY <4>1, <4>3, Zenon
    <3> QED
      BY <3>2, <3>3, Zenon
  <2> QED
    BY <2>1, <2>3, Zenon
<1>6. j[a + 1] = Colon
  <2>1. a + 1 \in 1..((a + 1) + b) /\ a + 1 \in 1..(a + 1) /\ ~(a + 1 <= a) /\ (a + 1) - a = 1 /\ a + 1 <= a + 1
    OBVIOUS
  <2>2. j[a + 1] = m[a + 1]
    BY <1>5, <2>1, Zenon
  <2>3. m[a + 1] = c[1]
    BY <1>4, <2>1
  <2> QED
    BY <1>3, <2>2, <2>3
<1>7. ASSUME NEW i \in 1..a PROVE j[i] = n[i]
  <2>1. i \in 1..((a + 1) + b) /\ i \in 1..(a + 1) /\ i <= a /\ i <= a + 1
    OBVIOUS
  <2> QED
    BY <1>4, <1>5, <2>1
<1>8. ASSUME NEW i \in 1..b PROVE j[(a + 1) + i] = service[i]
  <2>1. (a + 1) + i \in 1..((a + 1) + b) /\ ~((a + 1) + i <= a + 1) /\ ((a + 1) + i) - (a + 1) = i
    OBVIOUS
  <2> QED
    BY <1>5, <2>1
<1>9. SubSeq(j, a + 2, Len(j)) = service
  <2>1. a + 2 \in Nat \ {0} /\ Len(j) \in Nat /\ Len(service) = Len(j) - (a + 2) + 1
    BY <1>2, <1>5
  <2>2. \A i \in 1..Len(service) : j[(a + 2) - 1 + i] = service[i]
    <3> TAKE i \in 1..Len(service)
    <3>1. (a + 2) - 1 + i = (a + 1) + i /\ i \in 1..b
      BY <1>2
    <3> QED
      BY <1>8, <3>1
  <2> QED
    BY <1>5, <2>1, <2>2, PartIs
<1> QED
  BY <1>1, <1>2, <1>5, <1>6, <1>7, <1>8, <1>9

(* A node between its brackets. *)
LEMMA BracketedIs ==
  ASSUME NEW node \in Seq(Int), NEW n, n = (<<OpenSign>> \o node) \o <<CloseSign>>
  PROVE  /\ n \in Seq(Int) /\ Len(n) = Len(node) + 2 /\ n[1] = OpenSign /\ n[Len(node) + 2] = CloseSign
         /\ \A i \in 1..Len(node) : n[1 + i] = node[i]
<1>1. PICK a \in Nat : a = Len(node)
  OBVIOUS
<1>2. PICK o \in Seq(Int) : o = <<OpenSign>> /\ Len(o) = 1 /\ o[1] = OpenSign
  <2>1. OpenSign \in Int
    BY DEF OpenSign
  <2>2. <<OpenSign>> \in Seq(Int) /\ Len(<<OpenSign>>) = 1 /\ <<OpenSign>>[1] = OpenSign
    BY <2>1
  <2> QED
    BY <2>2
<1>3. PICK c \in Seq(Int) : c = <<CloseSign>> /\ Len(c) = 1 /\ c[1] = CloseSign
  <2>1. CloseSign \in Int
    BY DEF CloseSign
  <2>2. <<CloseSign>> \in Seq(Int) /\ Len(<<CloseSign>>) = 1 /\ <<CloseSign>>[1] = CloseSign
    BY <2>1
  <2> QED
    BY <2>2
<1>4. PICK m \in Seq(Int) : /\ m = o \o node /\ Len(m) = 1 + a
                            /\ \A i \in 1..(1 + a) : m[i] = IF i <= 1 THEN o[i] ELSE node[i - 1]
  <2>1. 1 \in Nat
    OBVIOUS
  <2>2. /\ o \o node \in Seq(Int) /\ Len(o \o node) = 1 + a
        /\ \A i \in 1..(1 + a) : (o \o node)[i] = IF i <= 1 THEN o[i] ELSE node[i - 1]
    BY <1>1, <1>2, <2>1, BehindIs
  <2> QED
    BY <2>2, Zenon
<1>5. /\ n \in Seq(Int) /\ Len(n) = (1 + a) + 1
      /\ \A i \in 1..((1 + a) + 1) : n[i] = IF i <= 1 + a THEN m[i] ELSE c[i - (1 + a)]
  <2>1. n = m \o c
    BY <1>2, <1>3, <1>4
  <2>2. 1 + a \in Nat /\ 1 \in Nat
    OBVIOUS
  <2>3. /\ m \o c \in Seq(Int) /\ Len(m \o c) = (1 + a) + 1
        /\ \A i \in 1..((1 + a) + 1) : (m \o c)[i] = IF i <= 1 + a THEN m[i] ELSE c[i - (1 + a)]
    BY <1>3, <1>4, <2>2, BehindIs
  <2> QED
    BY <2>1, <2>3, Zenon
<1>6. n[1] = OpenSign
  <2>1. 1 \in 1..((1 + a) + 1) /\ 1 <= 1 + a /\ 1 \in 1..(1 + a) /\ 1 <= 1
    OBVIOUS
  <2> QED
    BY <1>2, <1>4, <1>5, <2>1
<1>7. n[a + 2] = CloseSign
  <2>1. a + 2 \in 1..((1 + a) + 1) /\ ~(a + 2 <= 1 + a) /\ (a + 2) - (1 + a) = 1
    OBVIOUS
  <2> QED
    BY <1>3, <1>5, <2>1
<1>8. ASSUME NEW i \in 1..a PROVE n[1 + i] = node[i]
  <2>1. 1 + i \in 1..((1 + a) + 1) /\ 1 + i \in 1..(1 + a) /\ 1 + i <= 1 + a /\ ~(1 + i <= 1) /\ (1 + i) - 1 = i
    OBVIOUS
  <2> QED
    BY <1>4, <1>5, <2>1
<1> QED
  BY <1>1, <1>5, <1>6, <1>7, <1>8

(* What was written together is taken apart. *)
LEMMA WrittenSplit ==
  ASSUME NEW host \in Seq(Int), NEW node \in Seq(Int), NEW service \in Seq(Int), Written(host, node, service)
  PROVE  HostParts(host) = [node |-> node, service |-> service]
<1> DEFINE Joint(n) == IF service = NoService THEN n ELSE (n \o <<Colon>>) \o service
<1>1. /\ node # <<>> /\ (service = NoService \/ Colon \notin Range(service))
      /\ \/ node[1] # OpenSign /\ Colon \notin Range(node) /\ host = Joint(node)
         \/ CloseSign \notin Range(node) /\ host = Joint((<<OpenSign>> \o node) \o <<CloseSign>>)
  BY Zenon DEF Written
<1>2. PICK len \in Nat \ {0} : len = Len(node)
  BY <1>1
<1>3. ASSUME NEW s \in Seq(Int), NEW sign, sign \notin Range(s), NEW i \in 1..Len(s) PROVE s[i] # sign
  BY <1>3, RangeEquality
<1>4. ASSUME NEW n \in Seq(Int), host = Joint(n)
      PROVE  /\ Len(n) <= Len(host) /\ \A i \in 1..Len(n) : host[i] = n[i]
             /\ service = NoService => Len(host) = Len(n)
             /\ service # NoService =>
                  /\ Len(host) > Len(n) /\ host[Len(n) + 1] = Colon /\ From(host, Len(n) + 2) = service
                  /\ \A i \in (Len(n) + 2)..Len(host) : host[i] # Colon
  <2>1. CASE service = NoService
    BY <1>4, <2>1
  <2>2. CASE service # NoService
    <3>1. host = (n \o <<Colon>>) \o service
      BY <1>4, <2>2
    <3>2. /\ Len(host) = Len(n) + 1 + Len(service) /\ host[Len(n) + 1] = Colon
          /\ \A i \in 1..Len(n) : host[i] = n[i]
          /\ \A i \in 1..Len(service) : host[Len(n) + 1 + i] = service[i]
          /\ SubSeq(host, Len(n) + 2, Len(host)) = service
      BY <3>1, JointIs
    <3>3. ASSUME NEW i \in (Len(n) + 2)..Len(host) PROVE host[i] # Colon
      <4>1. i - (Len(n) + 1) \in 1..Len(service) /\ Len(n) + 1 + (i - (Len(n) + 1)) = i
        BY <3>2
      <4>2. Colon \notin Range(service)
        BY <1>1, <2>2
      <4> QED
        <5>1. service[i - (Len(n) + 1)] # Colon
          BY <1>3, <4>1, <4>2
        <5>2. host[Len(n) + 1 + (i - (Len(n) + 1))] = service[i - (Len(n) + 1)]
          BY <3>2, <4>1
        <5> QED
          BY <4>1, <5>1, <5>2
    <3>4. Len(n) \in Nat /\ Len(service) \in Nat
      OBVIOUS
    <3>5. Len(n) <= Len(host) /\ Len(host) > Len(n)
      BY <3>2, <3>4
    <3> QED
      BY <2>2, <3>2, <3>3, <3>5 DEF From
  <2> QED
    BY <2>1, <2>2
<1> HIDE DEF Joint
<1>5. CASE node[1] # OpenSign /\ Colon \notin Range(node) /\ host = Joint(node)
  <2>1. /\ len <= Len(host) /\ \A i \in 1..len : host[i] = node[i]
        /\ service = NoService => Len(host) = len
        /\ service # NoService =>
                  /\ Len(host) > len /\ host[len + 1] = Colon /\ From(host, len + 2) = service
                  /\ \A i \in (len + 2)..Len(host) : host[i] # Colon
    BY <1>2, <1>4, <1>5
  <2>2. \A i \in 1..len : node[i] # Colon
    BY <1>2, <1>3, <1>5
  <2>3. HostParts(host) = [node |-> node, service |-> IF Len(host) = len THEN NoService ELSE From(host, len + 2)]
    <3>1. Len(host) > len => service # NoService
      BY <1>2, <2>1
    <3>2. Len(host) > len => host[len + 1] = Colon /\ \A i \in (len + 2)..Len(host) : host[i] # Colon
      BY <2>1, <3>1
    <3>3. \A i \in 1..len : host[i] = node[i] /\ node[i] # Colon
      BY <2>1, <2>2
    <3> QED
      BY <1>2, <1>5, <2>1, <3>2, <3>3, NameSplit
  <2> QED
    BY <1>2, <2>1, <2>3
<1>6. CASE CloseSign \notin Range(node) /\ host = Joint((<<OpenSign>> \o node) \o <<CloseSign>>)
  <2>1. PICK n : n = (<<OpenSign>> \o node) \o <<CloseSign>>
    OBVIOUS
  <2>2. /\ n \in Seq(Int) /\ Len(n) = len + 2 /\ n[1] = OpenSign /\ n[len + 2] = CloseSign
        /\ \A i \in 1..len : n[1 + i] = node[i]
    BY <1>2, <2>1, BracketedIs
  <2>3. /\ len + 2 <= Len(host) /\ \A i \in 1..(len + 2) : host[i] = n[i]
        /\ service = NoService => Len(host) = len + 2
        /\ service # NoService =>
              Len(host) > len + 2 /\ host[(len + 2) + 1] = Colon /\ From(host, (len + 2) + 2) = service
    <3>1. host = Joint(n)
      BY <1>6, <2>1, Zenon
    <3>2. /\ Len(n) <= Len(host) /\ \A i \in 1..Len(n) : host[i] = n[i]
          /\ service = NoService => Len(host) = Len(n)
          /\ service # NoService =>
               /\ Len(host) > Len(n) /\ host[Len(n) + 1] = Colon /\ From(host, Len(n) + 2) = service
               /\ \A i \in (Len(n) + 2)..Len(host) : host[i] # Colon
      BY <1>4, <2>2, <3>1, Zenon
    <3> QED
      BY <2>2, <3>2, Zenon
  <2>4. \A i \in 1..len : host[1 + i] = node[i] /\ node[i] # CloseSign
    <3> TAKE i \in 1..len
    <3>1. 1 + i \in 1..(len + 2)
      OBVIOUS
    <3>2. node[i] # CloseSign
      BY <1>2, <1>3, <1>6
    <3> QED
      BY <2>2, <2>3, <3>1, <3>2
  <2>5. host[1] = OpenSign /\ host[len + 2] = CloseSign
    <3>1. 1 \in 1..(len + 2) /\ len + 2 \in 1..(len + 2)
      OBVIOUS
    <3> QED
      BY <2>2, <2>3, <3>1
  <2>6. (len + 2) + 1 = len + 3 /\ (len + 2) + 2 = len + 4
    OBVIOUS
  <2>7. Len(host) > len + 2 => host[len + 3] = Colon
    BY <1>2, <2>3, <2>6
  <2>8. HostParts(host) =
          [node |-> node, service |-> IF Len(host) = len + 2 THEN NoService ELSE From(host, len + 4)]
    BY <1>2, <2>3, <2>4, <2>5, <2>7, BracketsSplit
  <2>9. service # NoService => Len(host) # len + 2
    BY <2>3
  <2> QED
    BY <2>3, <2>6, <2>8, <2>9
<1> QED
  BY <1>1, <1>5, <1>6

(* Without brackets, a text whose service has a colon is the node as a whole. *)
LEMMA ColonsLeft ==
  ASSUME NEW host \in Seq(Int), OpenSign \notin Range(host), NEW got, got = HostParts(host),
         got.service # NoService, Colon \in Range(got.service)
  PROVE  got.node = host /\ host[Len(host) - Len(got.service) + 1] = Colon
<1>1. PICK all \in Nat : all = Len(host)
  OBVIOUS
<1>2. host = <<>> \/ host[1] # OpenSign
  <2>1. host # <<>> => 1 \in 1..Len(host)
    OBVIOUS
  <2> QED
    BY <2>1, RangeEquality
<1>3. Bracketed(host).node = <<>>
  BY <1>2 DEF Bracketed
<1>4. got = IF Separated(host).node = <<>> THEN [Separated(host) EXCEPT !.node = host] ELSE Separated(host)
  BY <1>3, Zenon DEF HostParts
<1>5. PICK colon : colon = FirstAt(host, Colon, 1)
  OBVIOUS
<1> DEFINE second == FirstAt(host, Colon, colon + 1)
           none == [node |-> <<>>, service |-> NoService]
           whole == [node |-> <<>>, service |-> From(host, colon)]
           cut == [node |-> SubSeq(host, 1, colon - 1), service |-> From(host, colon + 1)]
<1>6. Separated(host) = IF colon = 0 THEN none ELSE IF second # 0 THEN whole ELSE cut
  BY <1>5, Zenon DEF Separated
<1>7. got.service = Separated(host).service
  <2>1. DOMAIN Separated(host) = {"node", "service"}
    <3>1. DOMAIN none = {"node", "service"} /\ DOMAIN whole = {"node", "service"} /\ DOMAIN cut = {"node", "service"}
      OBVIOUS
    <3> HIDE DEF none, whole, cut, second
    <3> QED
      BY <1>6, <3>1
  <2>2. PICK s : s = Separated(host)
    OBVIOUS
  <2>3. [s EXCEPT !.node = host].service = s.service
    BY <2>1, <2>2
  <2> QED
    BY <1>4, <2>2, <2>3
<1>8. colon # 0
  <2> SUFFICES ASSUME colon = 0 PROVE FALSE
    OBVIOUS
  <2>1. Separated(host).service = NoService
    BY <1>6
  <2> QED
    BY <1>7, <2>1
<1>9. colon \in 1..all /\ host[colon] = Colon
  BY <1>1, <1>5, <1>8, FirstAtIs
<1>10. second # 0
  <2> SUFFICES ASSUME second = 0 PROVE FALSE
    OBVIOUS
  <2>1. Separated(host).service = SubSeq(host, colon + 1, Len(host))
    <3>1. cut.service = SubSeq(host, colon + 1, Len(host))
      BY DEF From
    <3> HIDE DEF none, whole, cut, second
    <3>2. Separated(host) = cut
      BY <1>6, <1>8, Zenon
    <3> QED
      BY <3>1, <3>2
  <2>2. colon + 1 \in Nat \ {0}
    BY <1>9
  <2>3. \A i \in (colon + 1)..Len(host) : host[i] # Colon
    <3> TAKE i \in (colon + 1)..Len(host)
    <3>1. second = 0 /\ \A k \in (colon + 1)..Len(host) : host[k] # Colon
      <4>1. second \notin (colon + 1)..Len(host)
        BY <1>9
      <4> HIDE DEF second
      <4>2. \/ second = 0 /\ \A k \in (colon + 1)..Len(host) : host[k] # Colon
            \/ second \in (colon + 1)..Len(host)
        BY <2>2, FirstAtIs DEF second
      <4> QED
        BY <4>1, <4>2
    <3> QED
      BY <3>1
  <2>4. PICK t : t = SubSeq(host, colon + 1, Len(host))
    OBVIOUS
  <2>5. t \in Seq(Int) /\ Len(t) = all - colon /\ \A i \in 1..Len(t) : t[i] = host[colon + i]
    <3>1. PICK k \in Nat : k = colon + 1 /\ k >= 1 /\ k <= all + 1
      BY <1>9
    <3>2. t = SubSeq(host, k, all)
      BY <1>1, <2>4, <3>1
    <3>3. t \in Seq(Int) /\ Len(t) = all - k + 1 /\ \A i \in 1..Len(t) : t[i] = host[k - 1 + i]
      BY <1>1, <3>1, <3>2
    <3>4. Len(t) = all - colon
      BY <1>9, <3>1, <3>3
    <3>5. ASSUME NEW i \in 1..Len(t) PROVE t[i] = host[colon + i]
      <4>1. k - 1 + i = colon + i
        BY <1>9, <3>1, <3>4
      <4>2. t[i] = host[k - 1 + i]
        BY <3>3, Zenon
      <4> QED
        BY <4>1, <4>2, Zenon
    <3> QED
      BY <3>3, <3>4, <3>5, Zenon
  <2>6. PICK i \in 1..Len(t) : t[i] = Colon
    <3>1. got.service = t
      BY <1>7, <2>1, <2>4, Zenon
    <3>2. Range(t) = {t[i] : i \in 1..Len(t)}
      BY <2>5, RangeEquality, Zenon
    <3>3. Colon \in {t[i] : i \in 1..Len(t)}
      BY <3>1, <3>2, Zenon
    <3> QED
      BY <3>3, Zenon
  <2>7. colon + i \in (colon + 1)..Len(host)
    BY <1>1, <1>9, <2>5
  <2> QED
    BY <2>3, <2>5, <2>6, <2>7
<1>11. Separated(host) = whole
  BY <1>6, <1>8, <1>10, Zenon
<1>12. got.node = host /\ got.service = SubSeq(host, colon, Len(host))
  <2>1. whole.node = <<>> /\ whole.service = SubSeq(host, colon, Len(host))
    BY DEF From
  <2>2. [whole EXCEPT !.node = host].node = host /\ [whole EXCEPT !.node = host].service = whole.service
    OBVIOUS
  <2> HIDE DEF none, whole, cut, second
  <2>3. got = [whole EXCEPT !.node = host]
    BY <1>4, <1>11, <2>1, Zenon
  <2> QED
    BY <2>1, <2>2, <2>3
<1>13. Len(SubSeq(host, colon, Len(host))) = all - colon + 1
  BY <1>1, <1>9
<1>14. all - (all - colon + 1) + 1 = colon
  BY <1>9
<1> QED
  BY <1>1, <1>9, <1>12, <1>13, <1>14

(* The text of an IPv6 address with its port. *)
LEMMA PortSplit ==
  ASSUME NEW g \in V6Values, NEW s \in TextsOf(g)
  PROVE  HostParts(<<OpenSign>> \o s \o <<CloseSign, Colon, 0>>) = [node |-> s, service |-> <<0>>]
<1>1. s \in Seq(TextParts) /\ s # <<>>
  BY TextChars
<1>2. s \in Seq(Int) /\ CloseSign \notin Range(s)
  <2>1. TextParts \subseteq Int /\ CloseSign \notin TextParts
    BY DEF TextParts, Colon, CloseSign
  <2>2. Range(s) \subseteq TextParts
    BY <1>1, RangeOfSeq
  <2>3. \A i \in 1..Len(s) : s[i] \in TextParts
    BY <1>1, ElementOfSeq
  <2>4. s \in Seq(Int)
    <3>1. Len(s) \in Nat /\ s = [i \in 1..Len(s) |-> s[i]]
      BY <1>1
    <3>2. \A i \in 1..Len(s) : s[i] \in Int
      BY <2>1, <2>3
    <3>3. [i \in 1..Len(s) |-> s[i]] \in Seq(Int)
      BY <3>1, <3>2, IsASeq
    <3> QED
      BY <3>1, <3>3, Zenon
  <2> QED
    BY <2>1, <2>2, <2>4
<1>3. PICK len \in Nat \ {0} : len = Len(s)
  BY <1>1
<1>4. PICK e : e = <<CloseSign, Colon, 0>>
  OBVIOUS
<1>5. e \in Seq(Int) /\ Len(e) = 3 /\ e[1] = CloseSign /\ e[2] = Colon /\ e[3] = 0
  <2>1. CloseSign \in Int /\ Colon \in Int
    BY DEF CloseSign, Colon
  <2> QED
    BY <1>4, <2>1
<1>6. PICK o \in Seq(Int) : o = <<OpenSign>> /\ Len(o) = 1 /\ o[1] = OpenSign
  <2>1. OpenSign \in Int
    BY DEF OpenSign
  <2>2. <<OpenSign>> \in Seq(Int) /\ Len(<<OpenSign>>) = 1 /\ <<OpenSign>>[1] = OpenSign
    BY <2>1
  <2> QED
    BY <2>2
<1>7. PICK m \in Seq(Int) : /\ m = o \o s /\ Len(m) = 1 + len
                            /\ \A i \in 1..(1 + len) : m[i] = IF i <= 1 THEN o[i] ELSE s[i - 1]
  <2>1. 1 \in Nat
    OBVIOUS
  <2>2. /\ o \o s \in Seq(Int) /\ Len(o \o s) = 1 + len
        /\ \A i \in 1..(1 + len) : (o \o s)[i] = IF i <= 1 THEN o[i] ELSE s[i - 1]
    BY <1>2, <1>3, <1>6, <2>1, BehindIs
  <2> QED
    BY <2>2, Zenon
<1>8. PICK p \in Nat : p = 1 + len
  OBVIOUS
<1>9. PICK host \in Seq(Int) : /\ host = m \o e /\ Len(host) = p + 3
                               /\ \A i \in 1..(p + 3) : host[i] = IF i <= p THEN m[i] ELSE e[i - p]
  <2>1. Len(m) = p /\ 3 \in Nat
    BY <1>7, <1>8
  <2>2. /\ m \o e \in Seq(Int) /\ Len(m \o e) = p + 3
        /\ \A i \in 1..(p + 3) : (m \o e)[i] = IF i <= p THEN m[i] ELSE e[i - p]
    <3>1. PICK x \in Seq(Int), y \in Seq(Int), d \in Nat : x = m /\ y = e /\ d = 3
      BY <1>5, <2>1
    <3>2. p = Len(x) /\ d = Len(y)
      BY <1>5, <2>1, <3>1
    <3>3. /\ x \o y \in Seq(Int) /\ Len(x \o y) = p + d
          /\ \A i \in 1..(p + d) : (x \o y)[i] = IF i <= p THEN x[i] ELSE y[i - p]
      BY <3>2, BehindIs
    <3> QED
      BY <3>1, <3>3, Zenon
  <2> QED
    BY <2>2, Zenon
<1>10. host[1] = OpenSign
  <2>1. 1 \in 1..(p + 3) /\ 1 <= p /\ 1 \in 1..(1 + len) /\ 1 <= 1
    BY <1>8
  <2> QED
    BY <1>6, <1>7, <1>9, <2>1
<1>11. host[len + 2] = CloseSign /\ host[len + 3] = Colon /\ host[len + 4] = 0
  <2>1. ASSUME NEW k \in 1..3 PROVE host[p + k] = e[k]
    <3>1. p + k \in 1..(p + 3) /\ ~(p + k <= p) /\ (p + k) - p = k
      OBVIOUS
    <3> QED
      BY <1>9, <3>1
  <2>2. p + 1 = len + 2 /\ p + 2 = len + 3 /\ p + 3 = len + 4
    BY <1>8
  <2>3. host[p + 1] = CloseSign /\ host[p + 2] = Colon /\ host[p + 3] = 0
    BY <1>5, <2>1
  <2> QED
    BY <2>2, <2>3
<1>12. ASSUME NEW i \in 1..len PROVE host[1 + i] = s[i] /\ s[i] # CloseSign
  <2>1. 1 + i \in 1..(p + 3) /\ 1 + i <= p /\ 1 + i \in 1..(1 + len) /\ ~(1 + i <= 1) /\ (1 + i) - 1 = i
    BY <1>8
  <2>2. host[1 + i] = s[i]
    BY <1>7, <1>9, <2>1
  <2>3. s[i] \in Range(s)
    BY <1>2, <1>3, RangeEquality
  <2> QED
    BY <1>2, <2>2, <2>3
<1>13. Len(host) = len + 4 /\ len + 2 <= Len(host) /\ Len(host) # len + 2
  BY <1>8, <1>9
<1>14. HostParts(host) = [node |-> s, service |-> IF Len(host) = len + 2 THEN NoService ELSE From(host, len + 4)]
  BY <1>2, <1>3, <1>10, <1>11, <1>12, <1>13, BracketsSplit
<1>15. From(host, len + 4) = <<0>>
  <2>1. <<0>> \in Seq(Int) /\ Len(<<0>>) = 1 /\ <<0>>[1] = 0
    OBVIOUS
  <2>2. len + 4 \in Nat \ {0} /\ len + 4 \in Nat /\ 1 = (len + 4) - (len + 4) + 1
    OBVIOUS
  <2>3. \A i \in 1..1 : host[(len + 4) - 1 + i] = <<0>>[i]
    BY <1>11
  <2>4. SubSeq(host, len + 4, len + 4) = <<0>>
    <3>1. PICK z \in Seq(Int) : z = <<0>> /\ Len(z) = 1 /\ z[1] = 0
      BY <2>1
    <3>2. PICK k \in Nat \ {0} : k = len + 4
      BY <2>2
    <3>3. k <= Len(host) /\ Len(z) = k - k + 1 /\ k \in Nat
      BY <1>13, <3>1, <3>2
    <3>4. \A i \in 1..Len(z) : host[k - 1 + i] = z[i]
      BY <1>11, <3>1, <3>2
    <3>5. SubSeq(host, k, k) = z
      BY <3>3, <3>4, PartIs
    <3> QED
      BY <3>1, <3>2, <3>5
  <2> QED
    BY <1>13, <2>4 DEF From
<1>16. host = <<OpenSign>> \o s \o <<CloseSign, Colon, 0>>
  BY <1>4, <1>6, <1>7, <1>9
<1> QED
  BY <1>13, <1>14, <1>15, <1>16
-----------------------------------------------------------------------------
(* What every state keeps: a subnet belongs to the address and its prefix, a text to the
   groups of the address, and the node and service to the text that was looked up. *)
AddressInv ==
  /\ addr.v \in {4, 6}
  /\ looked.host \in Seq(Int) /\ looked.got = HostParts(looked.host)
  /\ ~computed => addr.v = 4 /\ prefix_len = 0
  /\ addr.v = 4 /\ prefix_len # 0 =>
       /\ addr.bits \in SUBSET (1..V4Bits) /\ prefix_len \in 0..V4Bits
       /\ subnet \in V4Subnets(addr.bits, prefix_len)
  /\ addr.v = 6 =>
       /\ addr.bits \in SUBSET (1..V6Bits) /\ prefix_len \in 0..V6Bits
       /\ subnet \in V6Subnets(addr.bits, prefix_len) /\ text = Insert(BitsAsGroups(addr.bits))

LEMMA AddressInitInv ==
  ASSUME AddressInit
  PROVE  AddressInv
<1>1. addr.v = 4 /\ prefix_len = 0 /\ computed = FALSE
  BY DEF AddressInit
<1>2. looked.host = <<>> /\ looked.got = HostParts(<<>>)
  BY DEF AddressInit
<1>3. looked.host \in Seq(Int)
  BY <1>2
<1>4. looked.got = HostParts(looked.host)
  BY <1>2, Zenon
<1>5. addr.v # 6 /\ addr.v \in {4, 6}
  BY <1>1
<1> QED
  <2>1. addr.v = 4 /\ prefix_len # 0 => FALSE
    BY <1>1
  <2>2. addr.v = 6 => FALSE
    BY <1>5
  <2> QED
    BY <1>1, <1>3, <1>4, <1>5, <2>1, <2>2, Zenon DEF AddressInv

LEMMA AddressNextInv ==
  ASSUME AddressInv, [AddressNext]_addressVars
  PROVE  AddressInv'
<1>1. ASSUME SubnetOf4
      PROVE  AddressInv'
  <2>1. PICK a \in SUBSET (1..V4Bits) : addr' = [v |-> 4, bits |-> a]
    BY <1>1 DEF SubnetOf4
  <2>2. addr'.v = 4 /\ addr'.bits = a
    BY <2>1
  <2>3. computed' = TRUE /\ looked' = looked /\ prefix_len' \in 0..V4Bits /\ subnet' \in V4Subnets(addr'.bits, prefix_len')
    BY <1>1 DEF SubnetOf4
  <2> QED
    BY <2>2, <2>3 DEF AddressInv
<1>2. ASSUME SubnetOf6
      PROVE  AddressInv'
  <2>1. PICK a \in SUBSET (1..V6Bits) : addr' = [v |-> 6, bits |-> a]
    BY <1>2 DEF SubnetOf6
  <2>2. addr'.v = 6 /\ addr'.bits = a
    BY <2>1
  <2>3. /\ computed' = TRUE /\ looked' = looked /\ text' = Insert(BitsAsGroups(addr'.bits))
        /\ prefix_len' \in 0..V6Bits /\ subnet' \in V6Subnets(addr'.bits, prefix_len')
    BY <1>2 DEF SubnetOf6
  <2> QED
    BY <2>2, <2>3 DEF AddressInv
<1>3. ASSUME LookupAny
      PROVE  AddressInv'
  <2>1. PICK host \in BoundedSeq({0, Colon, OpenSign, CloseSign}, MaxHost) :
          looked' = [host |-> host, got |-> HostParts(host)]
    BY <1>3 DEF LookupAny
  <2>2. host \in Seq(Int)
    <3>1. PICK m \in 0..MaxHost : host \in [1..m -> {0, Colon, OpenSign, CloseSign}]
      BY Zenon DEF BoundedSeq, SeqOf
    <3>2. m \in Nat /\ {0, Colon, OpenSign, CloseSign} \subseteq Int
      BY AddressAssumption DEF Colon, OpenSign, CloseSign
    <3>3. host \in [1..m -> Int]
      BY <3>1, <3>2
    <3> QED
      BY <3>2, <3>3
  <2>3. looked'.host = host /\ looked'.got = HostParts(host)
    BY <2>1
  <2>4. computed' = TRUE /\ addr' = addr /\ prefix_len' = prefix_len /\ subnet' = subnet /\ text' = text
    BY <1>3 DEF LookupAny
  <2> QED
    BY <2>2, <2>3, <2>4 DEF AddressInv
<1>4. ASSUME UNCHANGED addressVars
      PROVE  AddressInv'
  BY <1>4 DEF addressVars, AddressInv
<1> QED
  BY <1>1, <1>2, <1>3, <1>4 DEF AddressNext

(* The subnets are those of their prefixes. *)
LEMMA SubnetsHold ==
  ASSUME AddressInv
  PROVE  Subnets
<1> SUFFICES ASSUME computed, looked.host = <<>>, addr.v = 4 => prefix_len > 0
             PROVE  LET width == IF addr.v = 4 THEN V4Bits ELSE V6Bits
                        host == (prefix_len + 1)..width
                        byte == IF addr.v = 4 THEN 1..V4Bits ELSE ByteAt(prefix_len \div ByteBits)
                    IN /\ subnet.broadcast = addr.bits \cup host
                       /\ subnet.mask = (1..width) \ host
                       /\ subnet.network \ byte = (addr.bits \ host) \ byte
                       /\ subnet.scope => prefix_len = V6Bits
  BY DEF Subnets
<1>1. CASE addr.v = 4
  <2>1. prefix_len > 0 /\ prefix_len # 0
    BY <1>1
  <2>2. SubnetOf(V4Bits, 1..V4Bits, addr.bits, prefix_len, subnet)
    <3>1. /\ addr.bits \in SUBSET (1..V4Bits) /\ prefix_len \in 0..V4Bits
          /\ subnet \in V4Subnets(addr.bits, prefix_len)
      BY <1>1, <2>1 DEF AddressInv
    <3> QED
      BY <2>1, <3>1, Subnet4
  <2> QED
    BY <1>1, <2>2 DEF SubnetOf
<1>2. CASE addr.v = 6
  <2>1. SubnetOf(V6Bits, ByteAt(prefix_len \div ByteBits), addr.bits, prefix_len, subnet)
    <3>1. /\ addr.bits \in SUBSET (1..V6Bits) /\ prefix_len \in 0..V6Bits
          /\ subnet \in V6Subnets(addr.bits, prefix_len)
      BY <1>2 DEF AddressInv
    <3> QED
      BY <3>1, Subnet6
  <2>2. addr.v # 4
    BY <1>2
  <2> QED
    BY <2>1, <2>2, Zenon DEF SubnetOf
<1> QED
  BY <1>1, <1>2 DEF AddressInv

(* The text of an address is read as its groups. *)
LEMMA TextHolds ==
  ASSUME AddressInv, addr.v = 6
  PROVE  /\ BitsAsGroups(addr.bits) \in V6Values
         /\ text \in TextsOf(BitsAsGroups(addr.bits))
<1>1. BitsAsGroups(addr.bits) \in V6Values
  BY DEF BitsAsGroups, V6Values
<1> QED
  BY <1>1, InsertIsText DEF AddressInv

(* A part of a text is a text. *)
LEMMA PartOfSeq ==
  ASSUME NEW s \in Seq(Int), NEW i \in DOMAIN s, NEW j \in DOMAIN s
  PROVE  SubSeq(s, i, j) \in Seq(Int)
<1>1. PICK n \in Nat : n = Len(s) /\ i \in 1..n /\ j \in 1..n /\ DOMAIN s = 1..n
  OBVIOUS
<1>2. ASSUME NEW k \in i..j PROVE s[k] \in Int
  BY <1>1
<1> QED
  BY <1>1, <1>2

(* What is asked for is what was written. *)
LEMMA HostsHold ==
  ASSUME AddressInv
  PROVE  HostsSplit
<1> DEFINE host == looked.host
<1>1. host \in Seq(Int) /\ looked.got = HostParts(host)
  BY DEF AddressInv
<1>2. ASSUME NEW i \in DOMAIN host, NEW j \in DOMAIN host,
             NEW service \in Suffixes(host) \cup {NoService}, Written(host, SubSeq(host, i, j), service)
      PROVE  looked.got = [node |-> SubSeq(host, i, j), service |-> service]
  <2>1. SubSeq(host, i, j) \in Seq(Int)
    BY <1>1, PartOfSeq, Zenon
  <2>2. service \in Seq(Int)
    <3>1. CASE service = NoService
      BY <3>1 DEF NoService
    <3>2. CASE service = <<>>
      BY <3>2
    <3>3. CASE \E l \in 1..Len(host) : service = SubSeq(host, l, Len(host))
      <4>1. PICK s \in Seq(Int) : s = host
        BY <1>1
      <4>2. PICK l \in 1..Len(s) : service = SubSeq(s, l, Len(s))
        BY <3>3, <4>1
      <4>3. l \in DOMAIN s /\ Len(s) \in DOMAIN s
        OBVIOUS
      <4> QED
        BY <4>2, <4>3, PartOfSeq
    <3> QED
      BY <3>1, <3>2, <3>3 DEF Suffixes
  <2> QED
    BY <1>1, <1>2, <2>1, <2>2, WrittenSplit, Zenon
<1>3. ASSUME OpenSign \notin Range(host), looked.got.service # NoService, Colon \in Range(looked.got.service)
      PROVE  looked.got.node = host /\ host[Len(host) - Len(looked.got.service) + 1] = Colon
  BY <1>1, <1>3, ColonsLeft
<1>4. ASSUME computed, addr.v = 6
      PROVE  HostParts(<<OpenSign>> \o text \o <<CloseSign, Colon, 0>>) = [node |-> text, service |-> <<0>>]
  BY <1>4, TextHolds, PortSplit
<1>5. \A i \in DOMAIN host, j \in DOMAIN host, service \in Suffixes(host) \cup {NoService} :
        Written(host, SubSeq(host, i, j), service) =>
          looked.got = [node |-> SubSeq(host, i, j), service |-> service]
  BY <1>2, Zenon
<1>6. OpenSign \notin Range(host) /\ looked.got.service # NoService /\ Colon \in Range(looked.got.service) =>
        looked.got.node = host /\ host[Len(host) - Len(looked.got.service) + 1] = Colon
  BY <1>3, Zenon
<1>7. computed /\ addr.v = 6 =>
        HostParts(<<OpenSign>> \o text \o <<CloseSign, Colon, 0>>) = [node |-> text, service |-> <<0>>]
  BY <1>4, Zenon
<1> QED
  BY <1>5, <1>6, <1>7, Zenon DEF HostsSplit

(* address.cc: the subnet of every address and prefix is that of its bits, the text of every IPv6 address is
   one that inet_pton reads as that address, and Lookup asks for the node and the service that
   were written: for every width of addresses, of bytes and of groups. *)
THEOREM AddressesCorrect == AddressSpec => []AddressesRead
<1>1. AddressInit => AddressInv
  BY AddressInitInv
<1>2. AddressInv /\ [AddressNext]_addressVars => AddressInv'
  BY AddressNextInv
<1>3. AddressInv => AddressesRead
  <2> SUFFICES ASSUME AddressInv
               PROVE  AddressesRead
    OBVIOUS
  <2>1. TextIsRead
    BY TextHolds DEF TextIsRead
  <2> QED
    BY <2>1, SubnetsHold, HostsHold DEF AddressesRead
<1> QED
  BY <1>1, <1>2, <1>3, PTL DEF AddressSpec
=============================================================================
