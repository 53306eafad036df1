---------------------------- MODULE SocketObject ----------------------------
(***************************************************************************)
(* Socket of src/mumu/socket.cc: the descriptor, the flag and the two      *)
(* addresses an object keeps, against what the kernel knows of the         *)
(* descriptor.  A hooked connect parks its fiber, and another one may call *)
(* the same object meanwhile; every other call is one step.  The callers   *)
(* have the hook; accept does the same for those who do not.               *)
(***************************************************************************)
EXTENDS Integers, FiniteSets, FiniteSetsExt

CONSTANTS
  SockFibers,            \* fibers that connect
  SockObjects,           \* objects that may be alive
  SockNumbers,           \* descriptors, a set of naturals
  Addresses, FamilyOf,   \* addresses, and the family of each
  Families,              \* families of the objects
  MaxSockets             \* bound: descriptors opened in a behaviour

ASSUME SocketAssumption ==
  SockNumbers \subseteq Nat /\ MaxSockets \in Nat /\ Addresses \subseteq Nat \ {0}

VARIABLES
  kfd,             \* the kernel: each number's state, addresses and SO_ERROR
  opened,          \* descriptors opened so far
  kind,            \* of each object: "gone", "tcp" or "udp"
  m_family, m_sock, m_isConnected, m_localAddress, m_remoteAddress,
  parked,          \* of each fiber: the object and number of the connect it waits in
  stale,           \* history: objects whose local address was cached before the descriptor had
                   \* one, or that were given a new descriptor by bind or connect since
  tangled          \* history: objects called while a connect of theirs was parked, or misdirected

sockVars == <<kfd, opened, kind, m_family, m_sock, m_isConnected, m_localAddress, m_remoteAddress,
              parked, stale, tangled>>

(* Addresses are positive; those the kernel chooses are not. *)
NoAddress == 0
Client == -1
Unbound == -1      \* what getsockname says of a descriptor without an address
Ephemeral(n) == -2 - n
ClosedFd == [state |-> "closed", local |-> NoAddress, peer |-> NoAddress, err |-> FALSE]
NewFd == [ClosedFd EXCEPT !.state = "new"]
NotParked == [obj |-> "none", fd |-> -1, woken |-> FALSE]

SockInit ==
  /\ kfd = [n \in SockNumbers |-> ClosedFd] /\ opened = 0
  /\ kind = [o \in SockObjects |-> "gone"] /\ m_family = [o \in SockObjects |-> "none"]
  /\ m_sock = [o \in SockObjects |-> -1] /\ m_isConnected = [o \in SockObjects |-> FALSE]
  /\ m_localAddress = [o \in SockObjects |-> NoAddress]
  /\ m_remoteAddress = [o \in SockObjects |-> NoAddress]
  /\ parked = [f \in SockFibers |-> NotParked]
  /\ stale = {} /\ tangled = {}

Waiting(o) == \E f \in SockFibers : parked[f].obj = o
Disturbs(o) == tangled' = IF Waiting(o) THEN tangled \cup {o} ELSE tangled
Fits(o, a) == m_family[o] = IF a = Client THEN m_family[o] ELSE FamilyOf[a]
FreeNumbers == {n \in SockNumbers : kfd[n].state = "closed"}

(* The object's descriptor, or what newSock gets: the lowest free number, or -1. *)
Fd(o) == IF m_sock[o] # -1 THEN m_sock[o] ELSE IF FreeNumbers = {} THEN -1 ELSE Min(FreeNumbers)
NewSock(o) == opened' = IF m_sock[o] = -1 /\ Fd(o) # -1 THEN opened + 1 ELSE opened
KernelFd(o) == IF m_sock[o] = -1 THEN NewFd ELSE kfd[m_sock[o]]

Create(o) ==
  /\ kind[o] = "gone" /\ opened < MaxSockets
  /\ \E family \in Families, type \in {"tcp", "udp"} :
       /\ kind' = [kind EXCEPT ![o] = type] /\ m_family' = [m_family EXCEPT ![o] = family]
       /\ IF type = "tcp" THEN UNCHANGED <<kfd, opened, m_sock, m_isConnected>>
          ELSE /\ NewSock(o) /\ m_sock' = [m_sock EXCEPT ![o] = Fd(o)]
               /\ kfd' = IF Fd(o) = -1 THEN kfd ELSE [kfd EXCEPT ![Fd(o)] = NewFd]
               /\ m_isConnected' = [m_isConnected EXCEPT ![o] = TRUE]
  /\ UNCHANGED <<m_localAddress, m_remoteAddress, parked, stale, tangled>>

(* getLocalAddress asks the kernel once and keeps the answer. *)
Local(o, cached, k) == IF cached # NoAddress THEN cached ELSE k.local
InUse(a) == \E n \in SockNumbers : kfd[n].state # "closed" /\ kfd[n].local = a

Bind(o, a) ==
  LET fresh == m_sock[o] = -1
      k == KernelFd(o)
      ok == Fd(o) # -1 /\ Fits(o, a) /\ k.local = NoAddress /\ ~InUse(a)
      bound == IF ok THEN [k EXCEPT !.local = a] ELSE k
  IN /\ kind[o] # "gone" /\ ~(fresh /\ opened = MaxSockets) /\ NewSock(o)
     /\ m_sock' = [m_sock EXCEPT ![o] = Fd(o)]
     /\ kfd' = IF Fd(o) = -1 THEN kfd ELSE [kfd EXCEPT ![Fd(o)] = bound]
     /\ m_localAddress' = IF ok THEN [m_localAddress EXCEPT ![o] = Local(o, @, bound)] ELSE m_localAddress
     /\ stale' = IF fresh /\ m_localAddress[o] # NoAddress THEN stale \cup {o} ELSE stale
     /\ Disturbs(o)
     /\ UNCHANGED <<kind, m_family, m_isConnected, m_remoteAddress, parked>>

(* The kernel gives a socket that was not bound an address of its own. *)
Listen(o) ==
  /\ kind[o] = "tcp" /\ m_sock[o] # -1 /\ kfd[m_sock[o]].state = "new"
  /\ kfd' = [kfd EXCEPT ![m_sock[o]].state = "listening",
                        ![m_sock[o]].local = IF @ = NoAddress THEN Ephemeral(opened) ELSE @]
  /\ UNCHANGED <<opened, kind, m_family, m_sock, m_isConnected, m_localAddress, m_remoteAddress, parked,
                 stale, tangled>>

(* close(): the hooked close wakes what waits on the number. *)
CloseFd(o, k) ==
  LET n == Fd(o)
  IN IF n = -1 THEN UNCHANGED <<kfd, parked>>
     ELSE /\ kfd' = [kfd EXCEPT ![n] = k]
          /\ parked' = [f \in SockFibers |->
               IF k.state = "closed" /\ parked[f].fd = n THEN [parked[f] EXCEPT !.woken = TRUE] ELSE parked[f]]

Close(o) ==
  /\ kind[o] # "gone" /\ ~(~m_isConnected[o] /\ m_sock[o] = -1)
  /\ IF m_sock[o] # -1 THEN CloseFd(o, ClosedFd) ELSE UNCHANGED <<kfd, parked>>
  /\ m_sock' = [m_sock EXCEPT ![o] = -1] /\ m_isConnected' = [m_isConnected EXCEPT ![o] = FALSE]
  /\ Disturbs(o)
  /\ UNCHANGED <<opened, kind, m_family, m_localAddress, m_remoteAddress, stale>>

(* ~Socket() of an object that nobody uses any more. *)
Destroy(o) ==
  /\ kind[o] # "gone" /\ ~Waiting(o)
  /\ IF m_sock[o] # -1 THEN CloseFd(o, ClosedFd) ELSE UNCHANGED <<kfd, parked>>
  /\ kind' = [kind EXCEPT ![o] = "gone"] /\ m_sock' = [m_sock EXCEPT ![o] = -1]
  /\ m_isConnected' = [m_isConnected EXCEPT ![o] = FALSE]
  /\ m_localAddress' = [m_localAddress EXCEPT ![o] = NoAddress]
  /\ m_remoteAddress' = [m_remoteAddress EXCEPT ![o] = NoAddress]
  /\ m_family' = [m_family EXCEPT ![o] = "none"]
  /\ stale' = stale \ {o} /\ tangled' = tangled \ {o}
  /\ UNCHANGED opened

(* accept() and init(): the new object takes the descriptor, for which accept left an FdCtx
   whether or not the thread has the hook (hook.cc:287-293). *)
Accept(o) ==
  LET n == Min(FreeNumbers)
      k == [NewFd EXCEPT !.state = "connected", !.local = kfd[m_sock[o]].local, !.peer = Client]
  IN /\ kind[o] # "gone" /\ m_sock[o] # -1 /\ kfd[m_sock[o]].state = "listening"
     /\ FreeNumbers # {} /\ opened < MaxSockets /\ opened' = opened + 1
     /\ kfd' = [kfd EXCEPT ![n] = k]
     /\ \E new \in {p \in SockObjects : kind[p] = "gone"} :
          /\ kind' = [kind EXCEPT ![new] = "tcp"]
          /\ m_family' = [m_family EXCEPT ![new] = m_family[o]]
          /\ m_sock' = [m_sock EXCEPT ![new] = n]
          /\ m_isConnected' = [m_isConnected EXCEPT ![new] = TRUE]
          /\ m_localAddress' = [m_localAddress EXCEPT ![new] = Local(new, @, k)]
          /\ m_remoteAddress' = [m_remoteAddress EXCEPT ![new] = k.peer]
     /\ UNCHANGED <<parked, stale, tangled>>

(* getLocalAddress() of an object whose address is not cached: before bind or connect
   getsockname succeeds, and its answer without an address is kept for good. *)
GetLocalAddress(o) ==
  LET k == kfd[m_sock[o]]
  IN /\ kind[o] # "gone" /\ m_sock[o] # -1 /\ m_localAddress[o] = NoAddress
     /\ m_localAddress' = [m_localAddress EXCEPT ![o] = IF k.local = NoAddress THEN Unbound ELSE k.local]
     /\ stale' = IF k.local = NoAddress THEN stale \cup {o} ELSE stale
     /\ UNCHANGED <<kfd, opened, kind, m_family, m_sock, m_isConnected, m_remoteAddress, parked, tangled>>

-----------------------------------------------------------------------------
(* connect(): the address is kept before anything is tried; a failure of the kernel closes
   the descriptor, one of newSock or of the family does not. *)
ConnectTo(f, o, a, cached) ==
  LET fresh == m_sock[o] = -1
      k == [KernelFd(o) EXCEPT !.local = IF @ = NoAddress THEN Ephemeral(opened) ELSE @]
      tried == Fd(o) # -1 /\ Fits(o, a)
      udpOk == tried /\ kind[o] = "udp"
  IN /\ kind[o] # "gone" /\ parked[f] = NotParked
     /\ ~(fresh /\ opened = MaxSockets) /\ NewSock(o)
     /\ m_remoteAddress' = [m_remoteAddress EXCEPT ![o] = a]
     /\ tangled' = IF Waiting(o) \/ (~tried /\ m_isConnected[o]) THEN tangled \cup {o} ELSE tangled
     /\ \/ /\ ~tried
           /\ m_sock' = [m_sock EXCEPT ![o] = Fd(o)] /\ CloseFd(o, KernelFd(o))
           /\ m_localAddress' = [m_localAddress EXCEPT ![o] = cached] /\ UNCHANGED m_isConnected
        \/ LET kk == [k EXCEPT !.state = "connected", !.peer = a]
           IN /\ udpOk
              /\ m_sock' = [m_sock EXCEPT ![o] = Fd(o)] /\ CloseFd(o, kk)
              /\ m_isConnected' = [m_isConnected EXCEPT ![o] = TRUE]
              /\ m_localAddress' = [m_localAddress EXCEPT ![o] = Local(o, cached, kk)]
        \/ /\ tried /\ kind[o] = "tcp" /\ k.state = "new"      \* EINPROGRESS
           /\ m_sock' = [m_sock EXCEPT ![o] = Fd(o)]
           /\ kfd' = [kfd EXCEPT ![Fd(o)] = [k EXCEPT !.state = "connecting", !.peer = a]]
           /\ parked' = [parked EXCEPT ![f] = [obj |-> o, fd |-> Fd(o), woken |-> FALSE]]
           /\ m_localAddress' = [m_localAddress EXCEPT ![o] = cached] /\ UNCHANGED m_isConnected
        \/ /\ tried /\ kind[o] = "tcp"                        \* EISCONN, EALREADY, ENETUNREACH
           /\ m_sock' = [m_sock EXCEPT ![o] = -1] /\ CloseFd(o, ClosedFd)
           /\ m_isConnected' = [m_isConnected EXCEPT ![o] = FALSE]
           /\ m_localAddress' = [m_localAddress EXCEPT ![o] = cached]
     /\ UNCHANGED <<kind, m_family>>

Connect(f, o, a) ==
  /\ ConnectTo(f, o, a, m_localAddress[o])
  /\ stale' = IF m_sock[o] = -1 /\ m_localAddress[o] # NoAddress THEN stale \cup {o} ELSE stale

ReconnectKeeping(f, o) ==    \* mutant: the local address is not reset
  /\ m_remoteAddress[o] # NoAddress
  /\ ConnectTo(f, o, m_remoteAddress[o], m_localAddress[o])
  /\ stale' = stale \ {o}
Reconnect(f, o) ==
  /\ m_remoteAddress[o] # NoAddress
  /\ ConnectTo(f, o, m_remoteAddress[o], NoAddress)
  /\ stale' = stale \ {o}

(* The network answers a connect, cancelAll wakes whoever waits on the descriptor. *)
Established(n) ==
  /\ kfd[n].state = "connecting"
  /\ \E ok \in BOOLEAN :
       kfd' = [kfd EXCEPT ![n].state = IF ok THEN "connected" ELSE "refused", ![n].err = ~ok]
  /\ parked' = [f \in SockFibers |->
       IF parked[f].fd = n THEN [parked[f] EXCEPT !.woken = TRUE] ELSE parked[f]]
  /\ UNCHANGED <<opened, kind, m_family, m_sock, m_isConnected, m_localAddress, m_remoteAddress,
                 stale, tangled>>
CancelAll(o) ==
  /\ m_sock[o] # -1 /\ \E f \in SockFibers : parked[f].fd = m_sock[o] /\ ~parked[f].woken
  /\ parked' = [f \in SockFibers |->
       IF parked[f].fd = m_sock[o] THEN [parked[f] EXCEPT !.woken = TRUE] ELSE parked[f]]
  /\ Disturbs(o)
  /\ UNCHANGED <<kfd, opened, kind, m_family, m_sock, m_isConnected, m_localAddress, m_remoteAddress,
                 stale>>

(* The parked connect goes on: a time-out fails, otherwise SO_ERROR of the number decides,
   which by now may be another object's; reading it clears it. *)
ConnectReturns(f) ==
  LET o == parked[f].obj
      n == parked[f].fd
  IN /\ parked[f] # NotParked
     /\ \E timeout \in (IF parked[f].woken THEN BOOLEAN ELSE {TRUE}) :
          LET ok == ~timeout /\ kfd[n].state # "closed" /\ ~kfd[n].err
              seen == IF timeout THEN kfd ELSE [kfd EXCEPT ![n].err = FALSE]
          IN /\ m_isConnected' = [m_isConnected EXCEPT ![o] = ok]
             /\ IF ok \/ m_sock[o] = -1
                THEN /\ kfd' = seen /\ parked' = [parked EXCEPT ![f] = NotParked]
                     /\ UNCHANGED m_sock
                ELSE /\ kfd' = [seen EXCEPT ![m_sock[o]] = ClosedFd]
                     /\ m_sock' = [m_sock EXCEPT ![o] = -1]
                     /\ parked' = [g \in SockFibers |->
                          IF g = f THEN NotParked
                          ELSE IF parked[g].fd = m_sock[o] THEN [parked[g] EXCEPT !.woken = TRUE] ELSE parked[g]]
             /\ m_localAddress' = IF ok /\ m_sock[o] # -1
                                  THEN [m_localAddress EXCEPT ![o] = Local(o, @, kfd[m_sock[o]])] ELSE m_localAddress
             /\ tangled' = tangled \cup {p \in SockObjects \ {o} : ~timeout /\ m_sock[p] = n}
  /\ UNCHANGED <<opened, kind, m_family, m_remoteAddress, stale>>

SockNext ==
  \/ \E o \in SockObjects : Create(o) \/ Listen(o) \/ Close(o) \/ Destroy(o) \/ CancelAll(o)
                             \/ Accept(o) \/ GetLocalAddress(o)
  \/ \E o \in SockObjects, a \in Addresses : Bind(o, a)
  \/ \E f \in SockFibers, o \in SockObjects : Reconnect(f, o)
  \/ \E f \in SockFibers, o \in SockObjects, a \in Addresses : Connect(f, o, a)
  \/ \E n \in SockNumbers : Established(n)
  \/ \E f \in SockFibers : ConnectReturns(f)

SockSpec == SockInit /\ [][SockNext]_sockVars

-----------------------------------------------------------------------------
Locals == Addresses \cup {NoAddress, Unbound} \cup {Ephemeral(i) : i \in 0..MaxSockets}
SockTypeOK ==
  /\ kfd \in [SockNumbers -> [state : {"closed", "new", "listening", "connecting", "connected", "refused"},
                              local : Locals, peer : Addresses \cup {NoAddress, Client}, err : BOOLEAN]]
  /\ opened \in 0..MaxSockets /\ kind \in [SockObjects -> {"gone", "tcp", "udp"}]
  /\ m_family \in [SockObjects -> Families \cup {"none"}]
  /\ m_sock \in [SockObjects -> SockNumbers \cup {-1}] /\ m_isConnected \in [SockObjects -> BOOLEAN]
  /\ m_localAddress \in [SockObjects -> Locals]
  /\ m_remoteAddress \in [SockObjects -> Addresses \cup {NoAddress, Client}]
  /\ parked \in [SockFibers -> [obj : SockObjects \cup {"none"}, fd : SockNumbers \cup {-1}, woken : BOOLEAN]]
  /\ stale \cup tangled \subseteq SockObjects

(* An object holds an open descriptor of its own, and no descriptor is left without an object. *)
Owners ==
  /\ \A o, p \in SockObjects : m_sock[o] # -1 => kfd[m_sock[o]].state # "closed" /\ (m_sock[p] = m_sock[o] => o = p)
  /\ \A n \in SockNumbers : kfd[n].state # "closed" => \E o \in SockObjects : m_sock[o] = n

(* What the object says of its connection is what the kernel says of its descriptor. *)
ConnectedIsTrue ==
  \A o \in SockObjects \ tangled :
    m_isConnected[o] /\ kind[o] = "tcp" =>
      m_sock[o] # -1 /\ kfd[m_sock[o]].state = "connected" /\ kfd[m_sock[o]].peer = m_remoteAddress[o]
(* Of an object that is not stale, the address it cached is the one of its descriptor. *)
LocalIsTrue ==
  \A o \in SockObjects \ stale :
    m_sock[o] # -1 /\ m_localAddress[o] # NoAddress => kfd[m_sock[o]].local = m_localAddress[o]

(* The object and the kernel agree on who owns which descriptor, on the connection and on the
   cached addresses (Socket::accept, bind, connect, reconnect, close of socket.cc). *)
SocketsKept == Owners /\ ConnectedIsTrue /\ LocalIsTrue
=============================================================================
