---------------------------- MODULE System_proofs ----------------------------
(***************************************************************************)
(* What the library keeps of things of the system, for all values of the   *)
(* constants.  The two tables indexed by descriptor: the settings agree    *)
(* with the kernel, and the growth of the contexts of IOManager costs no   *)
(* wait.  The objects Socket and Thread: what they say of a descriptor or  *)
(* a thread is true.  Files: paths are made, moved and removed as asked, a *)
(* line that is logged is in the file, a transfer says what happened to it *)
(* and keeps its speed.  But for the named exceptions.                     *)
(***************************************************************************)
EXTENDS FdTable, ContextTable, SystemObjects, SequenceTheorems, WellFoundedInduction, TLAPS

(* A thread inside of a call is alone with its descriptor, which is open. *)
Exclusive ==
  /\ \A t \in FdThreads : doing[t] = Out \/ (doing[t].pc # "out" /\ doing[t].fd \in isOpen)
  /\ \A t, u \in FdThreads : doing[t].fd = doing[u].fd => t = u \/ doing[t] = Out

OpeningFd(fd) == \E t \in FdThreads : doing[t].pc \in {"lookup", "create"} /\ doing[t].fd = fd
ClosingFd(fd) == \E t \in FdThreads : doing[t].pc = "close" /\ doing[t].fd = fd

(* What is true of each number by itself. *)
SlotBirths(fd) ==
  /\ fd >= datasSize => m_datas[fd] = NoCtx
  /\ m_datas[fd] # NoCtx => m_datas[fd].birth \in 1..birth[fd]
  /\ fd \in isOpen => birth[fd] >= 1
  /\ m_datas[fd] # NoCtx =>
       fd \in leaked \/ (fd \in isOpen /\ m_datas[fd].birth = birth[fd] /\ ~ClosingFd(fd))
SlotSettings(fd) ==
  /\ m_datas[fd] # NoCtx /\ m_datas[fd].birth = birth[fd] =>
       m_datas[fd].user = asked[fd].nonblock /\ (asked[fd].past \/ m_datas[fd].to = asked[fd].to)
  /\ m_datas[fd] # NoCtx /\ ~m_datas[fd].user =>
       fd \in kNonblock \/ asked[fd].by = "ioctl" \/ fd \in leaked
  /\ OpeningFd(fd) => asked[fd] = NothingAsked

TableGrowsOnly == InitialDatas <= datasSize
FdInv ==
  /\ FdTypeOK /\ Exclusive /\ TableGrowsOnly /\ EdgeOnly
  /\ \A fd \in FdNumbers : SlotBirths(fd) /\ SlotSettings(fd)

LEMMA FdInitInv == FdInit => FdInv
BY FdTableAssumption
   DEF FdInit, FdInv, FdTypeOK, Exclusive, TableGrowsOnly, EdgeOnly, SlotBirths, SlotSettings, OpeningFd,
       ClosingFd, Out, NoCtx, NothingAsked, Alive, TimeoutsSet, AskRecords

(* A number that a step does not touch. *)
Untouched(fd) ==
  /\ birth'[fd] = birth[fd] /\ m_datas'[fd] = m_datas[fd] /\ asked'[fd] = asked[fd]
  /\ (fd \in isOpen') = (fd \in isOpen) /\ (fd \in kNonblock') = (fd \in kNonblock)
  /\ (fd \in leaked') = (fd \in leaked)
  /\ datasSize \in Nat /\ datasSize' \in Nat /\ datasSize <= datasSize'
  /\ \A t \in FdThreads : doing'[t] # doing[t] => doing[t].fd # fd /\ doing'[t].fd # fd

LEMMA UntouchedKept ==
  ASSUME NEW fd \in FdNumbers, SlotBirths(fd), SlotSettings(fd), Untouched(fd)
  PROVE  SlotBirths(fd)' /\ SlotSettings(fd)'
<1>1. fd \in Nat
  BY FdTableAssumption
<1>2. OpeningFd(fd)' = OpeningFd(fd) /\ ClosingFd(fd)' = ClosingFd(fd)
  BY DEF Untouched, OpeningFd, ClosingFd
<1>3. SlotBirths(fd)'
  BY <1>1, <1>2 DEF Untouched, SlotBirths
<1>4. SlotSettings(fd)'
  BY <1>2 DEF Untouched, SlotSettings
<1> QED
  BY <1>3, <1>4

(* A step of one thread with one number leaves the others alone. *)
LEMMA OneMoves ==
  ASSUME FdInv, FdTypeOK', EdgeOnly', NEW fd \in FdNumbers, NEW t \in FdThreads,
         datasSize <= datasSize',
         \A g \in FdNumbers \ {fd} :
           /\ birth'[g] = birth[g] /\ m_datas'[g] = m_datas[g] /\ asked'[g] = asked[g]
           /\ (g \in isOpen') = (g \in isOpen) /\ (g \in kNonblock') = (g \in kNonblock)
           /\ (g \in leaked') = (g \in leaked),
         \A u \in FdThreads \ {t} : doing'[u] = doing[u],
         doing'[t] = doing[t] \/ (doing[t].fd \in {fd, -1} /\ doing'[t].fd \in {fd, -1}),
         Exclusive', SlotBirths(fd)', SlotSettings(fd)'
  PROVE  FdInv'
<1>1. TableGrowsOnly'
  BY FdTableAssumption DEF FdInv, TableGrowsOnly, FdTypeOK
<1>2. \A g \in FdNumbers \ {fd} : Untouched(g)
  BY FdTableAssumption DEF FdInv, FdTypeOK, Untouched
<1>3. \A g \in FdNumbers \ {fd} : SlotBirths(g)' /\ SlotSettings(g)'
  BY <1>2, UntouchedKept DEF FdInv
<1> QED
  BY <1>1, <1>3 DEF FdInv

(* A thread whose place changes, alone with its number before and after. *)
LEMMA AloneAfter ==
  ASSUME FdTypeOK, Exclusive, NEW t \in FdThreads, NEW new,
         doing' = [doing EXCEPT ![t] = new],
         new = Out \/ (/\ new.pc # "out" /\ new.fd \in isOpen' /\ new.fd # -1
                      /\ \A u \in FdThreads \ {t} : doing[u].fd # new.fd),
         \A u \in FdThreads \ {t} : doing[u].fd \in isOpen => doing[u].fd \in isOpen'
  PROVE  /\ Exclusive' /\ doing'[t] = new
         /\ \A u \in FdThreads \ {t} : doing'[u] = doing[u]
<1>1. doing'[t] = new /\ \A u \in FdThreads \ {t} : doing'[u] = doing[u]
  BY DEF FdTypeOK
<1>2. \A u \in FdThreads : doing'[u] = Out \/ (doing'[u].pc # "out" /\ doing'[u].fd \in isOpen')
  BY <1>1 DEF Exclusive
<1>3. ASSUME NEW u \in FdThreads, NEW w \in FdThreads, doing'[u].fd = doing'[w].fd
      PROVE  u = w \/ doing'[u] = Out
  <2>1. -1 \notin isOpen
    BY FdTableAssumption DEF FdTypeOK
  <2>2. CASE u # t /\ w # t
    BY <1>1, <1>3, <2>2 DEF Exclusive
  <2>3. CASE u = t /\ w # t
    BY <1>1, <1>3, <2>3
  <2>4. CASE u # t /\ w = t
    <3>1. CASE new = Out
      BY <1>1, <1>3, <2>1, <2>4, <3>1 DEF Exclusive, Out
    <3>2. CASE new # Out
      BY <1>1, <1>3, <2>4, <3>2
    <3> QED
      BY <3>1, <3>2
  <2> QED
    BY <2>2, <2>3, <2>4
<1> QED
  BY <1>1, <1>2, <1>3 DEF Exclusive

LEMMA CtxIsSlot ==
  ASSUME FdInv, NEW fd \in FdNumbers
  PROVE  Ctx(fd) = m_datas[fd]
BY FdTableAssumption DEF FdInv, FdTypeOK, SlotBirths, Ctx

(* A table may be indexed beyond its end, at its size or at -1 only. *)
LEMMA AccessEdge ==
  ASSUME FdInv, fdDead = Alive, NEW fd \in FdNumbers \cup {-1}, Access(fd), datasSize' = datasSize
  PROVE  EdgeOnly' /\ fdDead' \in FdNumbers \cup {Alive, -1}
BY FdTableAssumption DEF FdInv, FdTypeOK, TableGrowsOnly, EdgeOnly, Access, Beyond, Alive

LEMMA SocketFInv == ASSUME FdInv, fdDead = Alive, NEW t \in FdThreads, SocketF(t) PROVE FdInv'
<1>1. PICK fd \in FdNumbers \ isOpen, call \in {"socket", "accept"} :
        /\ birth[fd] < MaxBirths[fd] /\ doing[t] = Out
        /\ birth' = [birth EXCEPT ![fd] = @ + 1] /\ isOpen' = isOpen \cup {fd}
        /\ kNonblock' = kNonblock \ {fd}
        /\ asked' = [asked EXCEPT ![fd] = NothingAsked]
        /\ FdGoto(t, IF t \in HookedThreads \/ call = "accept" THEN "lookup" ELSE "out", fd)
        /\ UNCHANGED <<m_datas, datasSize, leaked, fdDead>>
  BY DEF SocketF
<1> DEFINE new == IF t \in HookedThreads \/ call = "accept" THEN [pc |-> "lookup", fd |-> fd] ELSE Out
<1>2. doing' = [doing EXCEPT ![t] = new]
  BY <1>1 DEF FdGoto
<1>3. fd \in Nat /\ fd # -1 /\ -1 \notin isOpen
  BY FdTableAssumption DEF FdInv, FdTypeOK
<1>4. \A u \in FdThreads : doing[u].fd # fd
  BY <1>1, <1>3 DEF FdInv, Exclusive, Out
<1>5. FdTypeOK'
  <2>1. birth' \in [FdNumbers -> Nat] /\ \A g \in FdNumbers : birth'[g] <= MaxBirths[g]
    <3>1. birth \in [FdNumbers -> Nat] /\ \A g \in FdNumbers : birth[g] <= MaxBirths[g]
      BY DEF FdInv, FdTypeOK
    <3>2. birth' \in [FdNumbers -> Nat]
      BY <1>1, <3>1
    <3>3. \A g \in FdNumbers : birth'[g] = IF g = fd THEN birth[g] + 1 ELSE birth[g]
      BY <1>1, <3>1
    <3>4. birth[fd] + 1 <= MaxBirths[fd]
      BY <1>1, <3>1, FdTableAssumption
    <3> QED
      BY <3>1, <3>2, <3>3, <3>4
  <2>2. asked' \in [FdNumbers -> AskRecords]
    BY <1>1 DEF FdInv, FdTypeOK, NothingAsked, TimeoutsSet, AskRecords
  <2>3. doing' \in [FdThreads -> [pc : {"out", "lookup", "create", "close"}, fd : FdNumbers \cup {-1}]]
    BY <1>2 DEF FdInv, FdTypeOK, Out
  <2> QED
    BY <1>1, <2>1, <2>2, <2>3 DEF FdInv, FdTypeOK
<1>6. /\ Exclusive' /\ doing'[t] = new
      /\ \A u \in FdThreads \ {t} : doing'[u] = doing[u]
  BY <1>1, <1>2, <1>3, <1>4, AloneAfter DEF FdInv, Out
<1>7. /\ birth'[fd] = birth[fd] + 1 /\ birth[fd] \in Nat /\ asked'[fd] = NothingAsked
      /\ \A g \in FdNumbers \ {fd} : birth'[g] = birth[g] /\ asked'[g] = asked[g]
  BY <1>1, FdTableAssumption DEF FdInv, FdTypeOK
<1>8. SlotBirths(fd) /\ SlotSettings(fd)
  BY DEF FdInv
<1>9. SlotBirths(fd)'
  BY <1>1, <1>3, <1>7, <1>8 DEF SlotBirths
<1>10. SlotSettings(fd)'
  BY <1>1, <1>7, <1>8 DEF SlotBirths, SlotSettings
<1>11. EdgeOnly' /\ datasSize <= datasSize'
  BY <1>1 DEF FdInv, FdTypeOK, EdgeOnly
<1> HIDE DEF new
<1>12. doing'[t] = doing[t] \/ (doing[t].fd \in {fd, -1} /\ doing'[t].fd \in {fd, -1})
  BY <1>1, <1>6 DEF Out, new
<1> QED
  BY <1>1, <1>5, <1>6, <1>7, <1>9, <1>10, <1>11, <1>12, OneMoves

(* The number of a thread inside of a call. *)
LEMMA InsideOpen ==
  ASSUME FdInv, NEW t \in FdThreads, doing[t].pc # "out"
  PROVE  /\ doing[t].fd \in isOpen /\ doing[t].fd \in FdNumbers /\ doing[t].fd # -1
         /\ doing[t].fd \in Nat \ {0, 1} /\ doing[t] # Out
         /\ \A u \in FdThreads \ {t} : doing[u].fd # doing[t].fd
<1>1. doing[t] # Out
  BY DEF Out
<1>2. doing[t].fd \in isOpen /\ \A u \in FdThreads \ {t} : doing[u].fd # doing[t].fd
  BY <1>1 DEF FdInv, Exclusive
<1>3. isOpen \subseteq FdNumbers
  BY DEF FdInv, FdTypeOK
<1>4. \A fd \in FdNumbers : fd \in Nat \ {0, 1} /\ fd # -1
  BY FdTableAssumption
<1> QED
  BY <1>1, <1>2, <1>3, <1>4, Zenon

LEMMA GetLookupInv == ASSUME FdInv, fdDead = Alive, NEW t \in FdThreads, GetLookup(t) PROVE FdInv'
<1>0. PICK fd \in FdNumbers : fd = doing[t].fd
  BY InsideOpen DEF GetLookup
<1> DEFINE new == IF Ctx(fd) # NoCtx THEN Out ELSE [pc |-> "create", fd |-> fd]
<1>1. /\ doing[t].pc = "lookup" /\ Access(fd) /\ doing' = [doing EXCEPT ![t] = new]
      /\ UNCHANGED <<birth, isOpen, kNonblock, m_datas, datasSize, asked, leaked>>
  BY <1>0 DEF GetLookup, FdGoto
<1>2. /\ fd \in isOpen /\ fd \in FdNumbers /\ fd # -1
      /\ \A u \in FdThreads \ {t} : doing[u].fd # fd
  BY <1>0, <1>1, InsideOpen
<1>3. EdgeOnly' /\ fdDead' \in FdNumbers \cup {Alive, -1} /\ datasSize <= datasSize'
  BY <1>1, <1>2, AccessEdge DEF FdInv, FdTypeOK
<1>4. FdTypeOK'
  <2>1. doing' \in [FdThreads -> [pc : {"out", "lookup", "create", "close"}, fd : FdNumbers \cup {-1}]]
    BY <1>1, <1>2 DEF FdInv, FdTypeOK, Out
  <2> QED
    BY <1>1, <1>3, <2>1 DEF FdInv, FdTypeOK
<1>5. /\ Exclusive' /\ doing'[t] = new
      /\ \A u \in FdThreads \ {t} : doing'[u] = doing[u]
  BY <1>1, <1>2, AloneAfter DEF FdInv
<1>6. SlotBirths(fd) /\ SlotSettings(fd)
  BY <1>2 DEF FdInv
<1>7. OpeningFd(fd) /\ ~ClosingFd(fd)'
  BY <1>0, <1>1, <1>2, <1>5 DEF OpeningFd, ClosingFd, Out
<1>8. SlotBirths(fd)'
  BY <1>1, <1>6, <1>7 DEF SlotBirths
<1>9. SlotSettings(fd)'
  BY <1>1, <1>6, <1>7 DEF SlotSettings
<1>10. doing[t].fd \in {fd, -1} /\ doing'[t].fd \in {fd, -1}
  BY <1>0, <1>5 DEF Out
<1> HIDE DEF new
<1> QED
  BY <1>1, <1>2, <1>3, <1>4, <1>5, <1>8, <1>9, <1>10, OneMoves

(* Half as much again is room for the descriptor itself. *)
LEMMA RoomForFd == ASSUME NEW fd \in Nat \ {0, 1} PROVE (fd * 3) \div 2 \in Nat /\ fd < (fd * 3) \div 2
OBVIOUS

LEMMA GetCreateInv == ASSUME FdInv, fdDead = Alive, NEW t \in FdThreads, GetCreate(t) PROVE FdInv'
<1>0. PICK fd \in FdNumbers : fd = doing[t].fd
  BY InsideOpen DEF GetCreate
<1>1. /\ doing[t].pc = "create" /\ doing' = [doing EXCEPT ![t] = Out]
      /\ datasSize' = (IF fd >= datasSize THEN (fd * 3) \div 2 ELSE datasSize)
      /\ m_datas' = [g \in FdNumbers |-> IF g = fd THEN NewCtx(fd)
                                         ELSE IF g < datasSize' THEN m_datas[g] ELSE NoCtx]
      /\ kNonblock' = kNonblock \cup {fd}
      /\ UNCHANGED <<birth, isOpen, asked, leaked, fdDead>>
  BY <1>0 DEF GetCreate, FdGoto
<1>2. /\ fd \in isOpen /\ fd \in FdNumbers /\ fd # -1 /\ fd \in Nat \ {0, 1}
      /\ \A u \in FdThreads \ {t} : doing[u].fd # fd
  BY <1>0, <1>1, InsideOpen
<1>3. datasSize \in Nat /\ datasSize' \in Nat /\ datasSize <= datasSize' /\ fd < datasSize'
  BY <1>1, <1>2, RoomForFd DEF FdInv, FdTypeOK
<1>4. birth[fd] \in Nat
  BY <1>2 DEF FdInv, FdTypeOK
<1>5. m_datas' \in [FdNumbers -> [birth : Nat, user : BOOLEAN, to : TimeoutsSet]]
  <2>1. NewCtx(fd) \in [birth : Nat, user : BOOLEAN, to : TimeoutsSet]
    BY <1>4 DEF NewCtx, TimeoutsSet
  <2>2. NoCtx \in [birth : Nat, user : BOOLEAN, to : TimeoutsSet]
    BY DEF NoCtx, TimeoutsSet
  <2> QED
    BY <1>1, <2>1, <2>2 DEF FdInv, FdTypeOK
<1>6. FdTypeOK'
  <2>1. doing' \in [FdThreads -> [pc : {"out", "lookup", "create", "close"}, fd : FdNumbers \cup {-1}]]
    BY <1>1 DEF FdInv, FdTypeOK, Out
  <2> QED
    BY <1>1, <1>2, <1>3, <1>5, <2>1 DEF FdInv, FdTypeOK
<1>7. \A g \in FdNumbers \ {fd} : m_datas'[g] = m_datas[g]
  <2> SUFFICES ASSUME NEW g \in FdNumbers \ {fd} PROVE m_datas'[g] = m_datas[g]
    OBVIOUS
  <2>1. g \in Nat /\ (g >= datasSize => m_datas[g] = NoCtx)
    BY FdTableAssumption DEF FdInv, SlotBirths
  <2> QED
    BY <1>1, <1>3, <2>1
<1>8. m_datas'[fd] = NewCtx(fd)
  BY <1>1, <1>2
<1>9. /\ Exclusive' /\ doing'[t] = Out
      /\ \A u \in FdThreads \ {t} : doing'[u] = doing[u]
  BY <1>1, <1>2, AloneAfter DEF FdInv
<1>10. EdgeOnly'
  BY <1>1, FdTableAssumption DEF EdgeOnly, Alive
<1>11. ~OpeningFd(fd)' /\ ~ClosingFd(fd)'
  BY <1>2, <1>9 DEF OpeningFd, ClosingFd, Out
<1>12. birth[fd] >= 1 /\ asked[fd] = NothingAsked
  BY <1>0, <1>1, <1>2 DEF FdInv, SlotBirths, SlotSettings, OpeningFd
<1>13. SlotBirths(fd)'
  BY <1>1, <1>2, <1>3, <1>4, <1>8, <1>11, <1>12 DEF SlotBirths, NewCtx
<1>14. SlotSettings(fd)'
  <2>1. m_datas'[fd].user = FALSE /\ m_datas'[fd].to = "none"
    BY <1>8 DEF NewCtx
  <2>2. asked'[fd].nonblock = FALSE /\ asked'[fd].to = "none"
    BY <1>1, <1>12 DEF NothingAsked
  <2>3. fd \in kNonblock'
    BY <1>1
  <2> QED
    BY <1>11, <2>1, <2>2, <2>3 DEF SlotSettings
<1>15. doing[t].fd \in {fd, -1} /\ doing'[t].fd \in {fd, -1}
  BY <1>0, <1>9 DEF Out
<1> QED
  BY <1>1, <1>2, <1>3, <1>6, <1>7, <1>9, <1>10, <1>13, <1>14, <1>15, OneMoves

LEMMA FdDelInv == ASSUME FdInv, fdDead = Alive, NEW t \in FdThreads, FdDel(t) PROVE FdInv'
<1>1. PICK fd \in isOpen :
        /\ doing[t] = Out /\ ~Busy(fd)
        /\ IF t \in HookedThreads THEN Access(fd) ELSE UNCHANGED fdDead
        /\ doing' = [doing EXCEPT ![t] = [pc |-> "close", fd |-> fd]]
        /\ m_datas' = (IF t \in HookedThreads THEN [m_datas EXCEPT ![fd] = NoCtx] ELSE m_datas)
        /\ leaked' = (IF m_datas'[fd] # NoCtx THEN leaked \cup {fd} ELSE leaked \ {fd})
        /\ UNCHANGED <<birth, isOpen, kNonblock, datasSize, asked>>
  BY DEF FdDel, FdGoto
<1>2. fd \in FdNumbers /\ fd # -1 /\ \A u \in FdThreads : doing[u].fd # fd
  BY <1>1, FdTableAssumption DEF FdInv, FdTypeOK, Busy
<1>3. EdgeOnly' /\ fdDead' \in FdNumbers \cup {Alive, -1} /\ datasSize <= datasSize'
  <2>1. CASE t \in HookedThreads
    BY <1>1, <1>2, <2>1, AccessEdge DEF FdInv, FdTypeOK
  <2>2. CASE t \notin HookedThreads
    BY <1>1, <2>2 DEF FdInv, FdTypeOK, EdgeOnly, Alive
  <2> QED
    BY <2>1, <2>2
<1>4. FdTypeOK'
  <2>1. doing' \in [FdThreads -> [pc : {"out", "lookup", "create", "close"}, fd : FdNumbers \cup {-1}]]
    BY <1>1, <1>2 DEF FdInv, FdTypeOK, Out
  <2>2. m_datas' \in [FdNumbers -> [birth : Nat, user : BOOLEAN, to : TimeoutsSet]]
    BY <1>1, <1>2 DEF FdInv, FdTypeOK, NoCtx, TimeoutsSet
  <2> QED
    BY <1>1, <1>2, <1>3, <2>1, <2>2 DEF FdInv, FdTypeOK
<1>5. /\ Exclusive' /\ doing'[t] = [pc |-> "close", fd |-> fd]
      /\ \A u \in FdThreads \ {t} : doing'[u] = doing[u]
  BY <1>1, <1>2, AloneAfter DEF FdInv
<1>6. SlotBirths(fd) /\ SlotSettings(fd)
  BY <1>2 DEF FdInv
<1>7. ~OpeningFd(fd)'
  BY <1>2, <1>5 DEF OpeningFd
<1>8. m_datas'[fd] = NoCtx \/ (m_datas'[fd] = m_datas[fd] /\ fd \in leaked')
  BY <1>1, <1>2 DEF FdInv, FdTypeOK
<1>9. \A g \in FdNumbers \ {fd} : m_datas'[g] = m_datas[g] /\ (g \in leaked') = (g \in leaked)
  BY <1>1 DEF FdInv, FdTypeOK
<1>10. SlotBirths(fd)'
  BY <1>1, <1>6, <1>8 DEF SlotBirths
<1>11. SlotSettings(fd)'
  BY <1>1, <1>6, <1>7, <1>8 DEF SlotSettings
<1>12. doing[t].fd \in {fd, -1} /\ doing'[t].fd \in {fd, -1}
  BY <1>1, <1>5 DEF Out
<1> QED
  BY <1>1, <1>2, <1>3, <1>4, <1>5, <1>9, <1>10, <1>11, <1>12, OneMoves

LEMMA FdCloseFInv == ASSUME FdInv, fdDead = Alive, NEW t \in FdThreads, FdCloseF(t) PROVE FdInv'
<1>0. PICK fd \in FdNumbers : fd = doing[t].fd
  BY InsideOpen DEF FdCloseF
<1>1. /\ doing[t].pc = "close" /\ isOpen' = isOpen \ {fd} /\ doing' = [doing EXCEPT ![t] = Out]
      /\ UNCHANGED <<birth, kNonblock, m_datas, datasSize, asked, leaked, fdDead>>
  BY <1>0 DEF FdCloseF, FdGoto
<1>2. fd # -1 /\ \A u \in FdThreads \ {t} : doing[u].fd # fd
  BY <1>0, <1>1, InsideOpen
<1>3. FdTypeOK' /\ EdgeOnly' /\ datasSize <= datasSize'
  <2>1. doing' \in [FdThreads -> [pc : {"out", "lookup", "create", "close"}, fd : FdNumbers \cup {-1}]]
    BY <1>1 DEF FdInv, FdTypeOK, Out
  <2> QED
    BY <1>1, <2>1 DEF FdInv, FdTypeOK, EdgeOnly
<1>4. /\ Exclusive' /\ doing'[t] = Out
      /\ \A u \in FdThreads \ {t} : doing'[u] = doing[u]
  BY <1>1, <1>2, AloneAfter DEF FdInv
<1>5. SlotBirths(fd) /\ SlotSettings(fd) /\ ClosingFd(fd)
  BY <1>0, <1>1 DEF FdInv, ClosingFd
<1>6. ~OpeningFd(fd)'
  BY <1>2, <1>4 DEF OpeningFd, Out
<1>7. SlotBirths(fd)'
  BY <1>1, <1>5 DEF SlotBirths
<1>8. SlotSettings(fd)'
  BY <1>1, <1>5, <1>6 DEF SlotSettings
<1>9. doing[t].fd \in {fd, -1} /\ doing'[t].fd \in {fd, -1}
  BY <1>0, <1>4 DEF Out
<1> QED
  BY <1>1, <1>2, <1>3, <1>4, <1>7, <1>8, <1>9, OneMoves

(* fcntl, ioctl and setsockopt: `own` is the FdCtx with what was asked for. *)
LEMMA AskedFor ==
  ASSUME FdInv, fdDead = Alive, NEW fd \in isOpen, Access(fd), ~Busy(fd),
         NEW own \in [birth : Nat, user : BOOLEAN, to : TimeoutsSet],
         NEW ask \in AskRecords,
         own.birth = m_datas[fd].birth,
         m_datas[fd].birth = birth[fd] /\ m_datas[fd] # NoCtx =>
           own.user = ask.nonblock /\ (ask.past \/ own.to = ask.to),
         m_datas' = (IF Ctx(fd) = NoCtx THEN m_datas ELSE [m_datas EXCEPT ![fd] = own]),
         asked' = [asked EXCEPT ![fd] = ask],
         kNonblock' \in {kNonblock, kNonblock \cup {fd}, kNonblock \ {fd}},
         m_datas[fd] # NoCtx /\ ~own.user => fd \in kNonblock' \/ ask.by = "ioctl" \/ fd \in leaked,
         UNCHANGED <<birth, isOpen, datasSize, doing, leaked>>
  PROVE  FdInv'
<1>1. fd \in FdNumbers /\ \A u \in FdThreads : doing[u].fd # fd
  BY DEF FdInv, FdTypeOK, Busy
<1>2. EdgeOnly' /\ fdDead' \in FdNumbers \cup {Alive, -1}
  BY <1>1, AccessEdge
<1>3. Ctx(fd) = m_datas[fd]
  BY <1>1, CtxIsSlot
<1>4. /\ m_datas \in [FdNumbers -> [birth : Nat, user : BOOLEAN, to : TimeoutsSet]]
      /\ asked \in [FdNumbers -> AskRecords]
  BY DEF FdInv, FdTypeOK
<1>5. /\ m_datas'[fd] = IF m_datas[fd] = NoCtx THEN NoCtx ELSE own
      /\ asked'[fd] = ask
      /\ \A g \in FdNumbers \ {fd} : m_datas'[g] = m_datas[g] /\ asked'[g] = asked[g]
  BY <1>1, <1>3, <1>4
<1>6. FdTypeOK'
  <2>1. m_datas' \in [FdNumbers -> [birth : Nat, user : BOOLEAN, to : TimeoutsSet]]
    BY <1>4
  <2>2. asked' \in [FdNumbers -> AskRecords]
    BY <1>4
  <2> QED
    BY <1>1, <1>2, <2>1, <2>2 DEF FdInv, FdTypeOK
<1>7. SlotBirths(fd) /\ SlotSettings(fd)
  BY <1>1 DEF FdInv
<1>8. ~OpeningFd(fd)' /\ ClosingFd(fd)' = ClosingFd(fd)
  BY <1>1 DEF OpeningFd, ClosingFd
<1>9. SlotBirths(fd)'
  BY <1>5, <1>7, <1>8 DEF SlotBirths
<1>10. SlotSettings(fd)'
  BY <1>5, <1>8 DEF SlotSettings
<1>11. Exclusive' /\ TableGrowsOnly'
  BY DEF FdInv, Exclusive, TableGrowsOnly
<1>12. \A g \in FdNumbers \ {fd} : Untouched(g)
  BY <1>5 DEF Untouched, FdInv, FdTypeOK
<1>13. \A g \in FdNumbers \ {fd} : SlotBirths(g)' /\ SlotSettings(g)'
  BY <1>12, UntouchedKept DEF FdInv
<1> QED
  BY <1>2, <1>6, <1>9, <1>10, <1>11, <1>13 DEF FdInv

(* What the setters leave in the FdCtx. *)
LEMMA OwnOfFd ==
  ASSUME FdInv, NEW fd \in isOpen
  PROVE  /\ fd \in FdNumbers
         /\ m_datas[fd] \in [birth : Nat, user : BOOLEAN, to : TimeoutsSet]
         /\ asked[fd] \in AskRecords
         /\ SlotSettings(fd)
BY DEF FdInv, FdTypeOK

LEMMA FcntlInv ==
  ASSUME FdInv, fdDead = Alive, NEW fd \in isOpen, ~Busy(fd), NEW nb \in BOOLEAN, Fcntl(fd, nb)
  PROVE  FdInv'
<1> DEFINE own == [m_datas[fd] EXCEPT !.user = nb]
           ask == [asked[fd] EXCEPT !.nonblock = nb, !.by = "fcntl"]
<1>1. /\ own \in [birth : Nat, user : BOOLEAN, to : TimeoutsSet]
      /\ ask \in AskRecords
  BY OwnOfFd DEF AskRecords
<1>2. /\ own.birth = m_datas[fd].birth /\ own.to = m_datas[fd].to
      /\ ask.to = asked[fd].to /\ ask.past = asked[fd].past
  BY OwnOfFd DEF AskRecords
<1>3. own.user = nb /\ ask.nonblock = nb
  BY OwnOfFd DEF AskRecords
<1>4. m_datas' = (IF Ctx(fd) = NoCtx THEN m_datas ELSE [m_datas EXCEPT ![fd] = own])
  BY DEF Fcntl
<1>5. asked' = [asked EXCEPT ![fd] = ask]
  BY DEF Fcntl
<1>6. Ctx(fd) = m_datas[fd]
  BY OwnOfFd, CtxIsSlot
<1>7. /\ kNonblock' \in {kNonblock, kNonblock \cup {fd}, kNonblock \ {fd}}
      /\ m_datas[fd] # NoCtx => fd \in kNonblock'
      /\ Access(fd) /\ UNCHANGED <<birth, isOpen, datasSize, doing, leaked>>
  BY <1>6 DEF Fcntl
<1>8. m_datas[fd].birth = birth[fd] /\ m_datas[fd] # NoCtx => ask.past \/ own.to = ask.to
  BY <1>2, OwnOfFd DEF SlotSettings
<1> HIDE DEF own, ask
<1>9. m_datas[fd].birth = birth[fd] /\ m_datas[fd] # NoCtx => own.user = ask.nonblock /\ (ask.past \/ own.to = ask.to)
  BY <1>3, <1>8, Zenon
<1> QED
  BY <1>1, <1>2, <1>4, <1>5, <1>7, <1>9, AskedFor

LEMMA IoctlInv ==
  ASSUME FdInv, fdDead = Alive, NEW fd \in isOpen, ~Busy(fd), NEW nb \in BOOLEAN, Ioctl(fd, nb)
  PROVE  FdInv'
<1> DEFINE own == [m_datas[fd] EXCEPT !.user = nb]
           ask == [asked[fd] EXCEPT !.nonblock = nb, !.by = "ioctl"]
<1>1. /\ own \in [birth : Nat, user : BOOLEAN, to : TimeoutsSet]
      /\ ask \in AskRecords
  BY OwnOfFd DEF AskRecords
<1>2. /\ own.birth = m_datas[fd].birth /\ own.to = m_datas[fd].to
      /\ ask.to = asked[fd].to /\ ask.past = asked[fd].past /\ ask.by = "ioctl"
  BY OwnOfFd DEF AskRecords
<1>3. own.user = nb /\ ask.nonblock = nb
  BY OwnOfFd DEF AskRecords
<1>4. m_datas' = (IF Ctx(fd) = NoCtx THEN m_datas ELSE [m_datas EXCEPT ![fd] = own])
  BY DEF Ioctl
<1>5. asked' = [asked EXCEPT ![fd] = ask]
  BY DEF Ioctl
<1>6. /\ kNonblock' \in {kNonblock, kNonblock \cup {fd}, kNonblock \ {fd}}
      /\ Access(fd) /\ UNCHANGED <<birth, isOpen, datasSize, doing, leaked>>
  BY DEF Ioctl
<1>7. m_datas[fd].birth = birth[fd] /\ m_datas[fd] # NoCtx => ask.past \/ own.to = ask.to
  BY <1>2, OwnOfFd DEF SlotSettings
<1> HIDE DEF own, ask
<1>8. m_datas[fd].birth = birth[fd] /\ m_datas[fd] # NoCtx => own.user = ask.nonblock /\ (ask.past \/ own.to = ask.to)
  BY <1>3, <1>7, Zenon
<1> QED
  BY <1>1, <1>2, <1>4, <1>5, <1>6, <1>8, AskedFor

LEMMA SetSockOptInv ==
  ASSUME FdInv, fdDead = Alive, NEW t \in FdThreads, NEW fd \in isOpen, ~Busy(fd), NEW to \in TimeoutsSet,
         SetSockOpt(t, fd, to)
  PROVE  FdInv'
<1> DEFINE hooked == t \in HookedThreads
           own == IF hooked THEN [m_datas[fd] EXCEPT !.to = to] ELSE m_datas[fd]
           ask == [asked[fd] EXCEPT !.to = to, !.past = ~hooked]
<1>1. own \in [birth : Nat, user : BOOLEAN, to : TimeoutsSet] /\ ask \in AskRecords
  BY OwnOfFd DEF AskRecords
<1>2. /\ own.birth = m_datas[fd].birth /\ own.user = m_datas[fd].user /\ (hooked => own.to = to)
      /\ ask.to = to /\ ask.by = asked[fd].by /\ ask.nonblock = asked[fd].nonblock /\ ask.past = ~hooked
  BY OwnOfFd DEF AskRecords
<1>3. m_datas' = (IF Ctx(fd) = NoCtx THEN m_datas ELSE [m_datas EXCEPT ![fd] = own])
  <2>1. fd \in FdNumbers /\ m_datas \in [FdNumbers -> [birth : Nat, user : BOOLEAN, to : TimeoutsSet]]
    BY OwnOfFd DEF FdInv, FdTypeOK
  <2>2. CASE hooked
    BY <2>2 DEF SetSockOpt
  <2>3. CASE ~hooked
    <3>1. [m_datas EXCEPT ![fd] = m_datas[fd]] = m_datas
      BY <2>1
    <3> QED
      BY <2>3, <3>1 DEF SetSockOpt
  <2> QED
    BY <2>2, <2>3
<1>4. asked' = [asked EXCEPT ![fd] = ask]
  BY DEF SetSockOpt
<1>5. Access(fd)
  <2>1. CASE hooked
    BY <2>1 DEF SetSockOpt
  <2>2. CASE ~hooked
    BY <2>2 DEF SetSockOpt, Access
  <2> QED
    BY <2>1, <2>2
<1>6. kNonblock' = kNonblock /\ UNCHANGED <<birth, isOpen, datasSize, doing, leaked>>
  BY DEF SetSockOpt
<1> HIDE DEF own, ask
<1>7. m_datas[fd].birth = birth[fd] /\ m_datas[fd] # NoCtx =>
        own.user = ask.nonblock /\ (ask.past \/ own.to = ask.to)
  BY <1>2, OwnOfFd DEF SlotSettings
<1>8. m_datas[fd] # NoCtx /\ ~own.user => fd \in kNonblock' \/ ask.by = "ioctl" \/ fd \in leaked
  BY <1>2, <1>6, OwnOfFd DEF SlotSettings
<1> HIDE DEF hooked
<1> QED
  BY <1>1, <1>2, <1>3, <1>4, <1>5, <1>6, <1>7, <1>8, AskedFor

LEMMA IoOnClosedInv == ASSUME FdInv, fdDead = Alive, NEW t \in FdThreads, IoOnClosed(t) PROVE FdInv'
<1>1. Access(-1) /\ UNCHANGED <<birth, isOpen, kNonblock, m_datas, datasSize, doing, asked, leaked>>
  BY DEF IoOnClosed
<1>2. EdgeOnly' /\ fdDead' \in FdNumbers \cup {Alive, -1}
  BY <1>1, AccessEdge
<1>3. FdTypeOK' /\ Exclusive' /\ TableGrowsOnly'
  BY <1>1, <1>2 DEF FdInv, FdTypeOK, Exclusive, TableGrowsOnly
<1>4. \A fd \in FdNumbers : SlotBirths(fd)' /\ SlotSettings(fd)'
  BY <1>1 DEF FdInv, SlotBirths, SlotSettings, OpeningFd, ClosingFd
<1> QED
  BY <1>2, <1>3, <1>4 DEF FdInv

(* Every step keeps the invariant. *)
LEMMA FdStepInv == FdInv /\ [FdNext]_fdVars => FdInv'
<1> SUFFICES ASSUME FdInv, [FdNext]_fdVars PROVE FdInv'
  OBVIOUS
<1>1. CASE UNCHANGED fdVars
  <2>1. FdTypeOK' /\ Exclusive' /\ TableGrowsOnly' /\ EdgeOnly'
    BY <1>1 DEF fdVars, FdInv, FdTypeOK, Exclusive, TableGrowsOnly, EdgeOnly
  <2>2. \A fd \in FdNumbers : SlotBirths(fd)' /\ SlotSettings(fd)'
    BY <1>1 DEF fdVars, FdInv, SlotBirths, SlotSettings, OpeningFd, ClosingFd
  <2> QED
    BY <2>1, <2>2 DEF FdInv
<1>2. CASE FdNext
  <2>1. fdDead = Alive
    BY <1>2 DEF FdNext
  <2>2. PICK t \in FdThreads :
          \/ SocketF(t) \/ GetLookup(t) \/ GetCreate(t) \/ FdDel(t) \/ FdCloseF(t) \/ IoOnClosed(t)
          \/ \E fd \in isOpen : ~Busy(fd) /\ \/ \E nb \in BOOLEAN : Fcntl(fd, nb) \/ Ioctl(fd, nb)
                                             \/ \E to \in TimeoutsSet : SetSockOpt(t, fd, to)
    BY <1>2 DEF FdNext
  <2> QED
    BY <2>1, <2>2, SocketFInv, GetLookupInv, GetCreateInv, FdDelInv, FdCloseFInv, IoOnClosedInv,
       FcntlInv, IoctlInv, SetSockOptInv
<1> QED
  BY <1>1, <1>2

(* An FdCtx goes only when its number is closed. *)
LEMMA SlotStays ==
  FdInv /\ [FdNext]_fdVars =>
    \A fd \in isOpen : m_datas[fd] # NoCtx /\ m_datas'[fd] = NoCtx =>
      \E t \in HookedThreads : doing'[t] = [pc |-> "close", fd |-> fd]
<1> SUFFICES ASSUME FdInv, [FdNext]_fdVars, NEW fd \in isOpen, m_datas[fd] # NoCtx, m_datas'[fd] = NoCtx
             PROVE  \E t \in HookedThreads : doing'[t] = [pc |-> "close", fd |-> fd]
  OBVIOUS
<1>1. /\ fd \in FdNumbers /\ fd \in Nat /\ fd < datasSize /\ datasSize \in Nat /\ birth[fd] \in Nat
      /\ m_datas[fd].birth # 0 /\ birth[fd] >= 1
      /\ m_datas \in [FdNumbers -> [birth : Nat, user : BOOLEAN, to : TimeoutsSet]]
      /\ doing \in [FdThreads -> [pc : {"out", "lookup", "create", "close"}, fd : FdNumbers \cup {-1}]]
  BY FdTableAssumption DEF FdInv, FdTypeOK, SlotBirths
<1>2. m_datas'[fd] # m_datas[fd] /\ m_datas'[fd].birth = 0
  BY DEF NoCtx
<1>3. ASSUME NEW t \in FdThreads, GetCreate(t) PROVE FALSE
  <2>1. m_datas'[fd] \in {NewCtx(fd), m_datas[fd]} \/ ~(fd < datasSize')
    BY <1>1, <1>3 DEF GetCreate
  <2>2. PICK c \in Nat \ {0, 1} : c = doing[t].fd
    BY <1>3, InsideOpen DEF GetCreate
  <2>3. fd < datasSize'
    BY <1>1, <1>3, <2>2, RoomForFd DEF GetCreate
  <2> QED
    BY <1>1, <1>2, <2>1, <2>3 DEF NewCtx
<1>4. ASSUME NEW g \in isOpen,
             \/ \E nb \in BOOLEAN : Fcntl(g, nb) \/ Ioctl(g, nb)
             \/ \E t \in FdThreads, to \in TimeoutsSet : SetSockOpt(t, g, to)
      PROVE  FALSE
  <2>1. \/ m_datas' = m_datas
        \/ \E nb \in BOOLEAN : m_datas' = [m_datas EXCEPT ![g] = [@ EXCEPT !.user = nb]]
        \/ \E to \in TimeoutsSet : m_datas' = [m_datas EXCEPT ![g] = [@ EXCEPT !.to = to]]
    BY <1>4 DEF Fcntl, Ioctl, SetSockOpt
  <2>2. m_datas'[fd].birth = m_datas[fd].birth
    BY <1>1, <2>1
  <2> QED
    BY <1>1, <1>2, <2>2
<1>5. ASSUME NEW t \in FdThreads, FdDel(t)
      PROVE  \E u \in HookedThreads : doing'[u] = [pc |-> "close", fd |-> fd]
  <2>1. PICK g \in isOpen :
          /\ m_datas' = (IF t \in HookedThreads THEN [m_datas EXCEPT ![g] = NoCtx] ELSE m_datas)
          /\ doing' = [doing EXCEPT ![t] = [pc |-> "close", fd |-> g]]
    BY <1>5 DEF FdDel, FdGoto
  <2>2. t \in HookedThreads /\ g = fd
    BY <1>1, <1>2, <2>1
  <2> QED
    BY <1>1, <2>1, <2>2
<1>6. ASSUME UNCHANGED m_datas PROVE FALSE
  BY <1>2, <1>6
<1>7. CASE FdNext
  <2>1. PICK t \in FdThreads :
          \/ SocketF(t) \/ GetLookup(t) \/ GetCreate(t) \/ FdDel(t) \/ FdCloseF(t) \/ IoOnClosed(t)
          \/ \E g \in isOpen : \/ \E nb \in BOOLEAN : Fcntl(g, nb) \/ Ioctl(g, nb)
                               \/ \E to \in TimeoutsSet : SetSockOpt(t, g, to)
    BY <1>7 DEF FdNext
  <2>2. CASE SocketF(t) \/ GetLookup(t) \/ FdCloseF(t) \/ IoOnClosed(t)
    BY <1>6, <2>2 DEF SocketF, GetLookup, FdCloseF, IoOnClosed
  <2> QED
    BY <1>3, <1>4, <1>5, <2>1, <2>2
<1> QED
  BY <1>6, <1>7 DEF fdVars

(* The table of FdCtx (fd_manager.cc:96-126) and the kernel agree on every open socket, but for
   sockets that a thread without the hook closed, time-outs that one set last, and ioctl, and get() and del() leave the
   table only at its very end, for any number of threads and descriptors. *)
THEOREM SettingsCorrect == FdSpec => SettingsSound
<1>1. FdInit => FdInv
  BY FdInitInv
<1>2. FdInv /\ [FdNext]_fdVars => FdInv'
  BY FdStepInv
<1>3. FdInv => OwnSettings /\ SettingsKept /\ ThreadNeverBlocks /\ EdgeOnly
  <2> SUFFICES ASSUME FdInv, NEW fd \in isOpen, Ctx(fd) # NoCtx
               PROVE  /\ Ctx(fd).birth = birth[fd] \/ fd \in leaked
                      /\ Ctx(fd).birth = birth[fd] =>
                           Ctx(fd).user = asked[fd].nonblock /\ (asked[fd].past \/ Ctx(fd).to = asked[fd].to)
                      /\ ~Ctx(fd).user => fd \in kNonblock \/ asked[fd].by = "ioctl" \/ fd \in leaked
    BY DEF FdInv, OwnSettings, SettingsKept, ThreadNeverBlocks
  <2>1. fd \in FdNumbers /\ Ctx(fd) = m_datas[fd]
    BY CtxIsSlot DEF FdInv, FdTypeOK
  <2>2. SlotBirths(fd) /\ SlotSettings(fd)
    BY <2>1 DEF FdInv
  <2> QED
    BY <2>1, <2>2 DEF SlotBirths, SlotSettings
<1>4. FdInv /\ FdInv' /\ [FdNext]_fdVars =>
        [\A fd \in isOpen : Ctx(fd) # NoCtx /\ Ctx(fd)' = NoCtx =>
           \E t \in HookedThreads : doing'[t] = [pc |-> "close", fd |-> fd]]_fdVars
  <2> SUFFICES ASSUME FdInv, FdInv', [FdNext]_fdVars, NEW fd \in isOpen, Ctx(fd) # NoCtx, Ctx(fd)' = NoCtx
               PROVE  \E t \in HookedThreads : doing'[t] = [pc |-> "close", fd |-> fd]
    OBVIOUS
  <2>1. fd \in FdNumbers /\ Ctx(fd) = m_datas[fd]
    BY CtxIsSlot DEF FdInv, FdTypeOK
  <2>2. Ctx(fd)' = m_datas'[fd]
    BY <2>1, FdTableAssumption DEF FdInv, FdTypeOK, SlotBirths, Ctx
  <2> QED
    BY <2>1, <2>2, SlotStays
<1> QED
  BY <1>1, <1>2, <1>3, <1>4, PTL DEF FdSpec, SettingsSound, CtxStays

-----------------------------------------------------------------------------
(* A descriptor without the exception keeps one context: the slot exists exactly below
   the size, a wait and an addEvent under way hold what is in it. *)
SlotsBelowSize == \A fd \in Descriptors : slot[fd] # 0 <=> fd < tableSize
CallersHold ==
  \A t \in TableThreads :
    /\ caller[t].pc # "out" => caller[t].key \in Keys
    /\ caller[t].pc = "grow" => caller[t].seen <= FdOf(t)
    /\ caller[t].pc = "register" =>
         \/ FdOf(t) \in dropped
         \/ FdOf(t) < tableSize /\ caller[t].ctx = slot[FdOf(t)]
TableInv ==
  /\ TableTypeOK /\ SlotsBelowSize /\ CallersHold
  /\ WaitReachable /\ RefusedOnlyDropped

(* contextResize(fd * 1.5) makes room for fd itself: descriptors begin at 2. *)
LEMMA RoomForItself ==
  ASSUME NEW fd \in Nat \ {0, 1}
  PROVE  (fd * 3) \div 2 \in Nat /\ fd < (fd * 3) \div 2
  BY SMT

LEMMA KeyParts ==
  ASSUME NEW k \in Keys
  PROVE  k[1] \in Descriptors /\ k[1] \in Nat \ {0, 1}
<1>1. k[1] \in Descriptors
  BY DEF Keys
<1> QED
  BY <1>1, ContextTableAssumption

LEMMA TableInitInv == TableInit => TableInv
<1> SUFFICES ASSUME TableInit PROVE TableInv
  OBVIOUS
<1> USE ContextTableAssumption DEF TableInit
<1>1. TableTypeOK
  BY DEF TableTypeOK, NotIn
<1>2. SlotsBelowSize
  BY DEF SlotsBelowSize
<1>3. CallersHold
  BY DEF CallersHold, NotIn
<1>4. WaitReachable /\ RefusedOnlyDropped
  BY DEF WaitReachable, RefusedOnlyDropped
<1> QED
  BY <1>1, <1>2, <1>3, <1>4 DEF TableInv

LEMMA TableStepInv == TableInv /\ [TableNext]_tableVars => TableInv'
<1> SUFFICES ASSUME TableInv, [TableNext]_tableVars PROVE TableInv'
  OBVIOUS
<1> USE ContextTableAssumption DEF TableInv
<1>1. ASSUME NEW t \in TableThreads, NEW k \in Keys, LookUp(t, k) PROVE TableInv'
  <2>0. k[1] \in Descriptors /\ k[1] \in Nat
    BY KeyParts
  <2> USE <1>1, <2>0 DEF LookUp
  <2>1. TableTypeOK'
    BY DEF TableTypeOK, NotIn
  <2>2. SlotsBelowSize'
    BY DEF SlotsBelowSize
  <2>3. CallersHold'
    BY DEF CallersHold, FdOf, TableTypeOK
  <2>4. (WaitReachable /\ RefusedOnlyDropped)'
    BY DEF WaitReachable, RefusedOnlyDropped, Reaches
  <2> QED
    BY <2>1, <2>2, <2>3, <2>4
<1>2. ASSUME NEW t \in TableThreads, Grow(t) PROVE TableInv'
  <2> DEFINE fd == FdOf(t)
             size == (fd * 3) \div 2
  <2>0. caller[t].key \in Keys /\ fd \in Descriptors /\ fd \in Nat \ {0, 1}
    BY <1>2, KeyParts DEF Grow, CallersHold, FdOf
  <2>1. size \in Nat /\ fd < size
    BY <2>0, RoomForItself
  <2>2. /\ ContextResize(size) /\ UNCHANGED <<waiting, waits, refused>>
        /\ caller' = [caller EXCEPT ![t].pc = "register", ![t].ctx = slot'[fd]]
    BY <1>2 DEF Grow
  <2> HIDE DEF size, fd
  <2>3. slot' \in [Descriptors -> Nat] /\ made' \in [Descriptors -> Nat] /\ dropped \subseteq dropped'
    BY <2>2 DEF ContextResize, TableTypeOK
  <2>4. TableTypeOK'
    <3>1. tableSize' \in Nat /\ dropped' \subseteq Descriptors
      BY <2>1, <2>2 DEF TableTypeOK, ContextResize
    <3>2. slot'[fd] \in Nat
      BY <2>0, <2>3
    <3>3. caller' \in [TableThreads -> [pc : {"out", "grow", "register"}, key : Keys \cup {NotIn.key},
                                       seen : Nat, ctx : Nat]]
      BY <2>2, <3>2, ZenonT(30) DEF TableTypeOK
    <3> QED
      BY <2>2, <2>3, <3>1, <3>3 DEF TableTypeOK
  <2>5. SlotsBelowSize'
    <3>0. tableSize' = size
      BY <2>2 DEF ContextResize
    <3> SUFFICES ASSUME NEW g \in Descriptors PROVE slot'[g] # 0 <=> g < size
      BY <3>0 DEF SlotsBelowSize
    <3>1. g \in Nat /\ made[g] + 1 # 0
      BY DEF TableTypeOK
    <3>2. slot'[g] = IF g >= size THEN 0 ELSE IF slot[g] = 0 THEN made[g] + 1 ELSE slot[g]
      BY <2>2 DEF ContextResize
    <3> QED
      BY <2>1, <3>1, <3>2
  <2>6. \A g \in Descriptors : slot[g] # 0 => g \in dropped' \/ (g < size /\ slot'[g] = slot[g])
    BY <2>1, <2>2 DEF ContextResize, TableTypeOK
  <2>7. CallersHold'
    <3> SUFFICES ASSUME NEW u \in TableThreads
                 PROVE  /\ caller'[u].pc # "out" => caller'[u].key \in Keys
                        /\ caller'[u].pc = "grow" => caller'[u].seen <= caller'[u].key[1]
                        /\ caller'[u].pc = "register" =>
                             \/ caller'[u].key[1] \in dropped'
                             \/ caller'[u].key[1] < tableSize' /\ caller'[u].ctx = slot'[caller'[u].key[1]]
      BY DEF CallersHold, FdOf
    <3>1. CASE u = t
      BY <3>1, <2>0, <2>1, <2>2 DEF TableTypeOK, fd, FdOf, ContextResize
    <3>2. CASE u # t
      <4>1. caller'[u] = caller[u]
        BY <3>2, <2>2 DEF TableTypeOK
      <4>2. ASSUME caller[u].pc = "register", caller[u].key[1] \notin dropped'
            PROVE  caller[u].key[1] < tableSize' /\ caller[u].ctx = slot'[caller[u].key[1]]
        <5>1. caller[u].key[1] \in Descriptors
          BY <4>2, KeyParts DEF CallersHold
        <5> QED
          BY <4>2, <5>1, <2>2, <2>3, <2>6 DEF CallersHold, FdOf, SlotsBelowSize, ContextResize
      <4> QED
        BY <4>1, <4>2 DEF CallersHold, FdOf
    <3> QED
      BY <3>1, <3>2
  <2>8. WaitReachable'
    <3> SUFFICES ASSUME NEW k \in Keys, waiting[k] # 0, k[1] \notin dropped'
                 PROVE  k[1] < tableSize' /\ waiting[k] = slot'[k[1]]
      BY <2>2 DEF WaitReachable, Reaches
    <3>1. k[1] \in Descriptors /\ waiting[k] = slot[k[1]]
      BY <2>3, KeyParts DEF WaitReachable, Reaches
    <3> QED
      BY <3>1, <2>2, <2>6 DEF ContextResize
  <2>9. RefusedOnlyDropped'
    BY <2>2, <2>3 DEF RefusedOnlyDropped
  <2> QED
    BY <2>4, <2>5, <2>7, <2>8, <2>9
<1>3. ASSUME NEW t \in TableThreads, Register(t) PROVE TableInv'
  <2> DEFINE fd == FdOf(t)
  <2>0. caller[t].key \in Keys /\ fd \in Descriptors /\ fd = caller[t].key[1]
    BY <1>3, KeyParts DEF Register, CallersHold, FdOf
  <2>1. /\ UNCHANGED <<tableSize, slot, made, waits, dropped>>
        /\ caller' = [caller EXCEPT ![t] = NotIn] /\ caller[t].pc = "register"
        /\ IF Holders(fd) \subseteq {caller[t].ctx}
           THEN waiting' = [waiting EXCEPT ![caller[t].key] = caller[t].ctx] /\ refused' = refused
           ELSE refused' = refused \cup {fd} /\ waiting' = waiting
    BY <1>3 DEF Register
  <2> HIDE DEF fd
  <2>2. TableTypeOK'
    BY <2>0, <2>1 DEF TableTypeOK, NotIn
  <2>3. SlotsBelowSize'
    BY <2>1 DEF SlotsBelowSize
  <2>4. CallersHold'
    BY <2>1 DEF CallersHold, FdOf, NotIn, TableTypeOK
  <2>5. fd \in dropped \/ (fd < tableSize /\ caller[t].ctx = slot[fd])
    BY <2>1 DEF CallersHold, fd
  <2>6. WaitReachable'
    <3> SUFFICES ASSUME NEW k \in Keys, waiting'[k] # 0
                 PROVE  k[1] \in dropped \/ (k[1] < tableSize /\ waiting'[k] = slot[k[1]])
      BY <2>1 DEF WaitReachable, Reaches
    <3>1. CASE waiting'[k] = waiting[k]
      BY <3>1 DEF WaitReachable, Reaches
    <3>2. CASE waiting'[k] # waiting[k]
      <4>1. k = caller[t].key /\ waiting'[k] = caller[t].ctx
        BY <3>2, <2>1 DEF TableTypeOK
      <4> QED
        BY <4>1, <2>0, <2>5
    <3> QED
      BY <3>1, <3>2
  <2>7. fd \notin dropped => Holders(fd) \subseteq {caller[t].ctx}
    <3> SUFFICES ASSUME fd \notin dropped, NEW e \in EventKinds, waiting[<<fd, e>>] # 0
                 PROVE  waiting[<<fd, e>>] = caller[t].ctx
      BY DEF Holders
    <3>1. <<fd, e>> \in Keys /\ <<fd, e>>[1] = fd
      BY <2>0 DEF Keys
    <3> QED
      BY <3>1, <2>5 DEF WaitReachable, Reaches
  <2>8. RefusedOnlyDropped'
    BY <2>1, <2>7 DEF RefusedOnlyDropped
  <2> QED
    BY <2>2, <2>3, <2>4, <2>6, <2>8
<1>4. ASSUME NEW k \in Keys, Cancel(k) \/ Report(k) PROVE TableInv'
  <2>1. /\ UNCHANGED <<tableSize, slot, made, caller, waits, dropped, refused>>
        /\ waiting' = [waiting EXCEPT ![k] = 0]
    BY <1>4 DEF Cancel, Report
  <2>2. TableTypeOK'
    BY <2>1 DEF TableTypeOK
  <2>3. (SlotsBelowSize /\ CallersHold /\ RefusedOnlyDropped)'
    BY <2>1 DEF SlotsBelowSize, CallersHold, RefusedOnlyDropped, FdOf
  <2>4. WaitReachable'
    BY <2>1 DEF WaitReachable, Reaches, TableTypeOK
  <2> QED
    BY <2>2, <2>3, <2>4
<1>5. ASSUME UNCHANGED tableVars PROVE TableInv'
  BY <1>5 DEF tableVars, TableTypeOK, SlotsBelowSize, CallersHold, FdOf, WaitReachable, Reaches,
     RefusedOnlyDropped
<1> QED
  BY <1>1, <1>2, <1>3, <1>4, <1>5 DEF TableNext

(* A step that makes the table smaller is a resize for a descriptor that had found it
   too small, so that it has grown since. *)
LEMMA ShrinkStep ==
  TableInv /\ [TableNext]_tableVars =>
    (tableSize' < tableSize =>
       \E t \in TableThreads : caller[t].pc = "grow" /\ caller[t].seen < tableSize)
<1> SUFFICES ASSUME TableInv, [TableNext]_tableVars, tableSize' < tableSize
             PROVE  \E t \in TableThreads : caller[t].pc = "grow" /\ caller[t].seen < tableSize
  OBVIOUS
<1>1. tableSize' # tableSize
  BY DEF TableInv, TableTypeOK
<1>2. PICK t \in TableThreads : Grow(t)
  BY <1>1 DEF TableNext, tableVars, LookUp, Register, Cancel, Report
<1>3. caller[t].pc = "grow" /\ caller[t].seen <= FdOf(t) /\ FdOf(t) \in Nat \ {0, 1}
  BY <1>2, KeyParts DEF Grow, TableInv, CallersHold, FdOf
<1>4. tableSize' = (FdOf(t) * 3) \div 2
  BY <1>2 DEF Grow, ContextResize
<1>5. FdOf(t) < tableSize'
  BY <1>3, <1>4, RoomForItself
<1>6. tableSize \in Nat /\ tableSize' \in Nat /\ caller[t].seen \in Nat
  BY <1>3, <1>4, RoomForItself DEF TableInv, TableTypeOK
<1> QED
  BY <1>3, <1>5, <1>6

(* addEvent's growth of the table (iomanager.cc:147-159) never costs a wait or refuses one,
   but where two threads grow it at once, for any number of threads, descriptors and events. *)
THEOREM GrowthCorrect == TableSpec => GrowthSound
<1>1. TableInit => TableInv
  BY TableInitInv
<1>2. TableInv /\ [TableNext]_tableVars => TableInv'
  BY TableStepInv
<1>3. TableInv => WaitReachable /\ RefusedOnlyDropped
  BY DEF TableInv
<1>4. TableInv /\ [TableNext]_tableVars =>
        [tableSize' < tableSize =>
           \E t \in TableThreads : caller[t].pc = "grow" /\ caller[t].seen < tableSize]_tableVars
  BY ShrinkStep
<1> QED
  BY <1>1, <1>2, <1>3, <1>4, PTL DEF TableSpec, GrowthSound, ShrinksOnlyByRace
-----------------------------------------------------------------------------
(* The objects Socket and Thread. *)

KernelRecords == [state : {"closed", "new", "listening", "connecting", "connected", "refused"},
                  local : Locals, peer : Addresses \cup {NoAddress, Client}, err : BOOLEAN]
ParkRecords == [obj : SockObjects \cup {"none"}, fd : SockNumbers \cup {-1}, woken : BOOLEAN]

(* What is true of each object by itself, and of a fiber parked in a connect. *)
Waits(f, o) == parked[f] # NotParked /\ parked[f].obj = o
ConnectionOf(o) ==
  o \notin tangled /\ m_isConnected[o] /\ kind[o] = "tcp" =>
    m_sock[o] # -1 /\ kfd[m_sock[o]].state = "connected" /\ kfd[m_sock[o]].peer = m_remoteAddress[o]
LocalOf(o) ==
  o \notin stale /\ m_sock[o] # -1 /\ m_localAddress[o] # NoAddress => kfd[m_sock[o]].local = m_localAddress[o]
GoneIsEmpty(o) ==
  kind[o] = "gone" =>
    m_sock[o] = -1 /\ ~m_isConnected[o] /\ m_localAddress[o] = NoAddress /\ \A f \in SockFibers : ~Waits(f, o)
ParkedSound(f) ==
  parked[f] # NotParked =>
    parked[f].fd # -1 /\ parked[f].obj \in SockObjects /\ kind[parked[f].obj] = "tcp"

(* A connect that nobody disturbs is the only one of its object, on the descriptor it began with,
   and it is woken by the answer of the network. *)
ConnectsAlone(f) ==
  parked[f] # NotParked /\ parked[f].obj \notin tangled =>
    /\ m_sock[parked[f].obj] = parked[f].fd /\ ~m_isConnected[parked[f].obj]
    /\ kfd[parked[f].fd].peer = m_remoteAddress[parked[f].obj]
    /\ IF parked[f].woken THEN kfd[parked[f].fd].state = IF kfd[parked[f].fd].err THEN "refused" ELSE "connected"
       ELSE kfd[parked[f].fd].state = "connecting"
    /\ \A g \in SockFibers : Waits(g, parked[f].obj) => g = f

SockInv ==
  /\ SockTypeOK /\ Owners
  /\ \A o \in SockObjects : ConnectionOf(o) /\ LocalOf(o) /\ GoneIsEmpty(o)
  /\ \A f \in SockFibers : ParkedSound(f) /\ ConnectsAlone(f)

LEMMA SockInitInv == SockInit => SockInv
<1> SUFFICES ASSUME SockInit PROVE SockInv
  OBVIOUS
<1> USE SocketAssumption DEF SockInit
<1>1. NoAddress \in Locals
  BY DEF Locals
<1>2. SockTypeOK
  BY <1>1 DEF SockTypeOK, KernelRecords, ParkRecords, ClosedFd, NotParked, NoAddress
<1>3. Owners
  BY DEF Owners, ClosedFd
<1>4. \A o \in SockObjects : ConnectionOf(o) /\ LocalOf(o) /\ GoneIsEmpty(o)
  BY DEF ConnectionOf, LocalOf, GoneIsEmpty, Waits
<1>5. \A f \in SockFibers : ParkedSound(f) /\ ConnectsAlone(f)
  BY DEF ParkedSound, ConnectsAlone
<1> QED
  BY <1>2, <1>3, <1>4, <1>5 DEF SockInv

LEMMA ClosedRecords ==
  ClosedFd \in KernelRecords /\ NewFd \in KernelRecords /\ ClosedFd.state = "closed"
  /\ NewFd.state = "new" /\ NewFd.local = NoAddress /\ NotParked.obj = "none" /\ NotParked \in ParkRecords
<1>1. NoAddress \in Locals
  BY DEF Locals
<1> QED
  BY <1>1 DEF ClosedFd, NewFd, NotParked, KernelRecords, ParkRecords

(* The kernel gives the lowest free number. *)
LEMMA LowestFree ==
  ASSUME FreeNumbers # {}
  PROVE  Min(FreeNumbers) \in FreeNumbers
<1>1. FreeNumbers \in SUBSET Nat
  BY SocketAssumption DEF FreeNumbers
<1>2. PICK x \in FreeNumbers : \A y \in FreeNumbers : ~(<<y, x>> \in OpToRel(<, Nat))
  BY <1>1, WFMin, NatLessThanWellFounded
<1>3. \A y \in FreeNumbers : x =< y
  <2> SUFFICES ASSUME NEW y \in FreeNumbers, y < x PROVE FALSE
    BY <1>1
  <2>1. <<y, x>> \in OpToRel(<, Nat)
    BY <1>1, Zenon DEF OpToRel
  <2> QED
    BY <1>2, <2>1
<1> QED
  BY <1>3 DEF Min

(* The descriptor of an object is open and its own; what newSock gets for it was closed. *)
LEMMA FdFacts ==
  ASSUME SockTypeOK, Owners, NEW o \in SockObjects
  PROVE  /\ -1 \notin SockNumbers /\ Fd(o) \in SockNumbers \cup {-1}
         /\ m_sock[o] # -1 => Fd(o) = m_sock[o] /\ kfd[Fd(o)].state # "closed"
         /\ m_sock[o] = -1 /\ Fd(o) # -1 => kfd[Fd(o)].state = "closed"
         /\ \A p \in SockObjects \ {o} : m_sock[p] # -1 => m_sock[p] # Fd(o)
         /\ kfd \in [SockNumbers -> KernelRecords]
<1>1. -1 \notin SockNumbers
  BY SocketAssumption
<1>2. CASE m_sock[o] # -1
  <2>1. Fd(o) = m_sock[o]
    BY <1>2 DEF Fd
  <2> QED
    BY <1>1, <1>2, <2>1 DEF SockTypeOK, KernelRecords, ParkRecords, Owners
<1>3. CASE m_sock[o] = -1
  <2>1. Fd(o) = -1 \/ Fd(o) \in FreeNumbers
    BY <1>3, LowestFree DEF Fd
  <2>2. Fd(o) # -1 => Fd(o) \in SockNumbers /\ kfd[Fd(o)].state = "closed"
    BY <2>1 DEF FreeNumbers
  <2> QED
    BY <1>1, <1>3, <2>2 DEF SockTypeOK, KernelRecords, ParkRecords, Owners
<1> QED
  BY <1>2, <1>3

(* What happens to one object and its descriptor leaves the others as they were, as long as whoever
   takes an error from another's descriptor counts that object as disturbed. *)
OneObject(o) ==
  /\ \A n \in SockNumbers \ {Fd(o)} :
       /\ kfd'[n].state = kfd[n].state /\ kfd'[n].local = kfd[n].local /\ kfd'[n].peer = kfd[n].peer
       /\ kfd'[n].err = kfd[n].err \/ \A p \in SockObjects \ {o} : m_sock[p] = n => p \in tangled'
  /\ \A p \in SockObjects \ {o} :
       /\ kind'[p] = kind[p] /\ m_sock'[p] = m_sock[p] /\ m_isConnected'[p] = m_isConnected[p]
       /\ m_localAddress'[p] = m_localAddress[p] /\ m_remoteAddress'[p] = m_remoteAddress[p]
       /\ (p \in tangled => p \in tangled') /\ (p \in stale' <=> p \in stale)
  /\ \/ m_sock'[o] = -1 /\ (Fd(o) # -1 => kfd'[Fd(o)].state = "closed")
     \/ m_sock'[o] = Fd(o) /\ (Fd(o) # -1 => kfd'[Fd(o)].state # "closed")
  /\ \A g \in SockFibers :
       \/ parked'[g] = NotParked
       \/ parked'[g] # NotParked /\ parked'[g].obj = o
       \/ /\ parked'[g] # NotParked /\ parked[g] # NotParked
          /\ parked'[g].obj = parked[g].obj /\ parked'[g].fd = parked[g].fd
          /\ parked'[g].fd = Fd(o) \/ parked'[g].woken = parked[g].woken

LEMMA OthersKept ==
  ASSUME SockInv, NEW o \in SockObjects, OneObject(o)
  PROVE  /\ Owners'
         /\ \A p \in SockObjects \ {o} : ConnectionOf(p)' /\ LocalOf(p)' /\ GoneIsEmpty(p)'
         /\ \A g \in SockFibers : parked'[g] # NotParked /\ parked'[g].obj # o => ParkedSound(g)' /\ ConnectsAlone(g)'
<1>1. /\ -1 \notin SockNumbers /\ Fd(o) \in SockNumbers \cup {-1}
      /\ m_sock[o] # -1 => Fd(o) = m_sock[o] /\ kfd[Fd(o)].state # "closed"
      /\ m_sock[o] = -1 /\ Fd(o) # -1 => kfd[Fd(o)].state = "closed"
      /\ \A p \in SockObjects \ {o} : m_sock[p] # -1 => m_sock[p] # Fd(o)
  BY FdFacts DEF SockInv
<1> DEFINE n == Fd(o)
<1>2. \A p \in SockObjects : m_sock[p] \in SockNumbers \cup {-1}
  BY DEF SockInv, SockTypeOK, KernelRecords, ParkRecords
<1> HIDE DEF n
<1>3. Owners'
  <2>1. \A p, q \in SockObjects : m_sock'[p] # -1 => kfd'[m_sock'[p]].state # "closed"
                                                    /\ (m_sock'[q] = m_sock'[p] => p = q)
    BY <1>1, <1>2 DEF OneObject, SockInv, Owners
  <2>2. \A m \in SockNumbers : kfd'[m].state # "closed" => \E p \in SockObjects : m_sock'[p] = m
    <3> SUFFICES ASSUME NEW m \in SockNumbers, kfd'[m].state # "closed"
                 PROVE  \E p \in SockObjects : m_sock'[p] = m
      OBVIOUS
    <3>1. CASE m = Fd(o)
      BY <1>1, <3>1 DEF OneObject
    <3>2. CASE m # Fd(o)
      <4>1. PICK p \in SockObjects : m_sock[p] = m
        BY <3>2 DEF OneObject, SockInv, Owners
      <4> QED
        BY <1>1, <3>2, <4>1 DEF OneObject
    <3> QED
      BY <3>1, <3>2
  <2> QED
    BY <2>1, <2>2 DEF Owners
<1>4. ASSUME NEW p \in SockObjects \ {o}
      PROVE  ConnectionOf(p)' /\ LocalOf(p)' /\ GoneIsEmpty(p)'
  <2>1. m_sock[p] # -1 => m_sock[p] \in SockNumbers \ {Fd(o)}
    BY <1>1, <1>2
  <2>2. ConnectionOf(p)'
    BY <2>1 DEF OneObject, SockInv, ConnectionOf
  <2>3. LocalOf(p)'
    BY <2>1 DEF OneObject, SockInv, LocalOf
  <2>4. GoneIsEmpty(p)'
    BY DEF OneObject, SockInv, GoneIsEmpty, Waits
  <2> QED
    BY <2>2, <2>3, <2>4
<1>5. ASSUME NEW g \in SockFibers, parked'[g] # NotParked, parked'[g].obj # o
      PROVE  ParkedSound(g)' /\ ConnectsAlone(g)'
  <2>1. /\ parked[g] # NotParked /\ parked'[g].obj = parked[g].obj /\ parked'[g].fd = parked[g].fd
        /\ parked'[g].fd = Fd(o) \/ parked'[g].woken = parked[g].woken
    BY <1>5 DEF OneObject
  <2>2. parked[g].obj \in SockObjects \ {o} /\ parked[g].fd # -1
    BY <1>5, <2>1 DEF SockInv, ParkedSound
  <2>3. ParkedSound(g)'
    BY <2>1, <2>2 DEF OneObject, SockInv, ParkedSound
  <2>4. ASSUME parked[g].obj \notin tangled'
        PROVE  ConnectsAlone(g)'
    <3>1. ConnectsAlone(g) /\ parked[g].obj \notin tangled
      BY <2>2, <2>4 DEF OneObject, SockInv
    <3>2. m_sock[parked[g].obj] = parked[g].fd /\ parked[g].fd \in SockNumbers \ {Fd(o)}
      BY <1>1, <1>2, <2>1, <2>2, <3>1 DEF ConnectsAlone
    <3>3. /\ kfd'[parked[g].fd].state = kfd[parked[g].fd].state /\ kfd'[parked[g].fd].peer = kfd[parked[g].fd].peer
          /\ kfd'[parked[g].fd].err = kfd[parked[g].fd].err
      BY <2>2, <2>4, <3>2 DEF OneObject
    <3>4. \A h \in SockFibers : parked'[h] # NotParked /\ parked'[h].obj = parked'[g].obj => h = g
      BY <2>1, <2>2, <3>1 DEF OneObject, ConnectsAlone, Waits
    <3> QED
      BY <2>1, <2>2, <3>1, <3>2, <3>3, <3>4 DEF OneObject, ConnectsAlone, Waits
  <2> QED
    BY <2>1, <2>3, <2>4 DEF ConnectsAlone
<1> QED
  BY <1>3, <1>4, <1>5

LEMMA ObjectStep ==
  ASSUME SockInv, SockTypeOK', NEW o \in SockObjects, OneObject(o),
         ConnectionOf(o)', LocalOf(o)', GoneIsEmpty(o)',
         \A g \in SockFibers : parked'[g] # NotParked /\ parked'[g].obj = o => ParkedSound(g)' /\ ConnectsAlone(g)'
  PROVE  SockInv'
<1>1. /\ Owners'
      /\ \A p \in SockObjects \ {o} : ConnectionOf(p)' /\ LocalOf(p)' /\ GoneIsEmpty(p)'
      /\ \A g \in SockFibers : parked'[g] # NotParked /\ parked'[g].obj # o => ParkedSound(g)' /\ ConnectsAlone(g)'
  BY OthersKept
<1>2. \A g \in SockFibers : parked'[g] = NotParked => ParkedSound(g)' /\ ConnectsAlone(g)'
  BY DEF ParkedSound, ConnectsAlone
<1> QED
  BY <1>1, <1>2 DEF SockInv

(* A fiber that still waits for an object after a call on it has seen the object disturbed. *)
LEMMA DisturbedWaits ==
  ASSUME SockInv, NEW o \in SockObjects, Disturbs(o), kind'[o] = kind[o],
         \A g \in SockFibers : /\ parked'[g].obj = parked[g].obj /\ parked'[g].fd = parked[g].fd
                               /\ parked[g] = NotParked => parked'[g] = NotParked
  PROVE  \A g \in SockFibers : parked'[g] # NotParked /\ parked'[g].obj = o => ParkedSound(g)' /\ ConnectsAlone(g)'
<1> SUFFICES ASSUME NEW g \in SockFibers, parked'[g] # NotParked, parked'[g].obj = o
             PROVE  ParkedSound(g)' /\ ConnectsAlone(g)'
  OBVIOUS
<1>1. parked[g] # NotParked /\ parked[g].obj = o
  OBVIOUS
<1>2. o \in tangled'
  BY <1>1 DEF Disturbs, Waiting
<1>3. ParkedSound(g)'
  BY <1>1 DEF SockInv, ParkedSound
<1> QED
  BY <1>2, <1>3 DEF ConnectsAlone

(* What close() does to the parked fibers. *)
LEMMA CloseWakes ==
  ASSUME SockInv, NEW o \in SockObjects, NEW k, CloseFd(o, k)
  PROVE  /\ \A g \in SockFibers : /\ parked'[g].obj = parked[g].obj /\ parked'[g].fd = parked[g].fd
                                  /\ parked[g].fd = Fd(o) \/ parked'[g] = parked[g]
                                  /\ parked[g] = NotParked <=> parked'[g] = NotParked
         /\ parked' \in [SockFibers -> ParkRecords]
         /\ \A n \in SockNumbers : kfd'[n] = IF n = Fd(o) THEN k ELSE kfd[n]
         /\ k \in KernelRecords
              => kfd' \in [SockNumbers -> KernelRecords]
<1>1. /\ -1 \notin SockNumbers /\ Fd(o) \in SockNumbers \cup {-1}
      /\ kfd \in [SockNumbers -> KernelRecords]
  BY FdFacts DEF SockInv
<1>2. parked \in [SockFibers -> ParkRecords]
  BY DEF SockInv, SockTypeOK, KernelRecords, ParkRecords
<1>3. \A g \in SockFibers : parked[g].fd = -1 => parked[g] = NotParked
  BY DEF SockInv, ParkedSound
<1>4. CASE Fd(o) = -1
  BY <1>1, <1>2, <1>4 DEF CloseFd
<1>5. CASE Fd(o) # -1
  <2>1. /\ kfd' = [kfd EXCEPT ![Fd(o)] = k]
        /\ parked' = [f \in SockFibers |->
               IF k.state = "closed" /\ parked[f].fd = Fd(o) THEN [parked[f] EXCEPT !.woken = TRUE] ELSE parked[f]]
    BY <1>5 DEF CloseFd
  <2>2. \A g \in SockFibers : /\ parked'[g].obj = parked[g].obj /\ parked'[g].fd = parked[g].fd
                              /\ parked[g].fd = Fd(o) \/ parked'[g] = parked[g]
    BY <1>2, <2>1
  <2>3. \A g \in SockFibers : parked[g].fd = Fd(o) => parked'[g] # NotParked /\ parked[g] # NotParked
    BY <1>5, <2>2 DEF NotParked
  <2>4. parked' \in [SockFibers -> ParkRecords]
    BY <1>2, <2>1 DEF ParkRecords
  <2> QED
    BY <1>1, <2>1, <2>2, <2>3, <2>4
<1> QED
  BY <1>4, <1>5

(* close() and the destructor let go of the descriptor, if there is one. *)
LEMMA LetsGo ==
  ASSUME SockInv, NEW o \in SockObjects,
         IF m_sock[o] # -1 THEN CloseFd(o, ClosedFd) ELSE UNCHANGED <<kfd, parked>>
  PROVE  /\ \A g \in SockFibers : /\ parked'[g].obj = parked[g].obj /\ parked'[g].fd = parked[g].fd
                                  /\ parked[g].fd = Fd(o) \/ parked'[g] = parked[g]
                                  /\ parked[g] = NotParked <=> parked'[g] = NotParked
         /\ parked' \in [SockFibers -> ParkRecords] /\ kfd' \in [SockNumbers -> KernelRecords]
         /\ \A n \in SockNumbers \ {Fd(o)} : kfd'[n] = kfd[n]
         /\ Fd(o) # -1 => kfd'[Fd(o)].state = "closed"
<1>1. /\ Fd(o) \in SockNumbers \cup {-1}
      /\ m_sock[o] = -1 /\ Fd(o) # -1 => kfd[Fd(o)].state = "closed"
  BY FdFacts DEF SockInv
<1>2. ClosedFd \in KernelRecords /\ ClosedFd.state = "closed"
  BY ClosedRecords
<1>3. CASE m_sock[o] # -1
  <2>1. CloseFd(o, ClosedFd)
    BY <1>3
  <2>2. /\ \A g \in SockFibers : /\ parked'[g].obj = parked[g].obj /\ parked'[g].fd = parked[g].fd
                                 /\ parked[g].fd = Fd(o) \/ parked'[g] = parked[g]
                                 /\ parked[g] = NotParked <=> parked'[g] = NotParked
        /\ parked' \in [SockFibers -> ParkRecords] /\ kfd' \in [SockNumbers -> KernelRecords]
        /\ \A n \in SockNumbers : kfd'[n] = IF n = Fd(o) THEN ClosedFd ELSE kfd[n]
    BY <1>2, <2>1, CloseWakes, Zenon
  <2>3. Fd(o) # -1 => kfd'[Fd(o)] = ClosedFd
    BY <1>1, <2>2
  <2> QED
    BY <1>2, <2>2, <2>3
<1>4. CASE m_sock[o] = -1
  <2>1. kfd' = kfd /\ parked' = parked
    BY <1>4
  <2>2. parked' \in [SockFibers -> ParkRecords] /\ kfd' \in [SockNumbers -> KernelRecords]
    BY <2>1 DEF SockInv, SockTypeOK, KernelRecords, ParkRecords
  <2> QED
    BY <1>1, <1>4, <2>1, <2>2
<1> QED
  BY <1>3, <1>4

LEMMA CloseInv ==
  ASSUME SockInv, NEW o \in SockObjects, Close(o)
  PROVE  SockInv'
<1>1. /\ \A g \in SockFibers : /\ parked'[g].obj = parked[g].obj /\ parked'[g].fd = parked[g].fd
                               /\ parked[g].fd = Fd(o) \/ parked'[g] = parked[g]
                               /\ parked[g] = NotParked <=> parked'[g] = NotParked
      /\ parked' \in [SockFibers -> ParkRecords] /\ kfd' \in [SockNumbers -> KernelRecords]
      /\ \A n \in SockNumbers \ {Fd(o)} : kfd'[n] = kfd[n]
      /\ Fd(o) # -1 => kfd'[Fd(o)].state = "closed"
  BY LetsGo DEF Close
<1>2. \A p \in SockObjects : /\ m_sock'[p] = IF p = o THEN -1 ELSE m_sock[p]
                             /\ m_isConnected'[p] = IF p = o THEN FALSE ELSE m_isConnected[p]
  BY DEF Close, SockInv, SockTypeOK
<1>3. SockTypeOK'
  BY <1>1 DEF Close, Disturbs, SockInv, SockTypeOK, KernelRecords, ParkRecords
<1>4. OneObject(o)
  BY <1>1, <1>2 DEF Close, Disturbs, OneObject
<1>5. ConnectionOf(o)' /\ LocalOf(o)' /\ GoneIsEmpty(o)'
  BY <1>2 DEF Close, ConnectionOf, LocalOf, GoneIsEmpty
<1>6. \A g \in SockFibers : parked'[g] # NotParked /\ parked'[g].obj = o => ParkedSound(g)' /\ ConnectsAlone(g)'
  BY <1>1, DisturbedWaits DEF Close
<1> QED
  BY <1>3, <1>4, <1>5, <1>6, ObjectStep

LEMMA DestroyInv ==
  ASSUME SockInv, NEW o \in SockObjects, Destroy(o)
  PROVE  SockInv'
<1>1. /\ \A g \in SockFibers : /\ parked'[g].obj = parked[g].obj /\ parked'[g].fd = parked[g].fd
                               /\ parked[g].fd = Fd(o) \/ parked'[g] = parked[g]
                               /\ parked[g] = NotParked <=> parked'[g] = NotParked
      /\ parked' \in [SockFibers -> ParkRecords] /\ kfd' \in [SockNumbers -> KernelRecords]
      /\ \A n \in SockNumbers \ {Fd(o)} : kfd'[n] = kfd[n]
      /\ Fd(o) # -1 => kfd'[Fd(o)].state = "closed"
  BY LetsGo DEF Destroy
<1>2. \A p \in SockObjects : /\ kind'[p] = IF p = o THEN "gone" ELSE kind[p]
                             /\ m_sock'[p] = IF p = o THEN -1 ELSE m_sock[p]
                             /\ m_isConnected'[p] = IF p = o THEN FALSE ELSE m_isConnected[p]
                             /\ m_localAddress'[p] = IF p = o THEN NoAddress ELSE m_localAddress[p]
                             /\ m_remoteAddress'[p] = IF p = o THEN NoAddress ELSE m_remoteAddress[p]
  BY DEF Destroy, SockInv, SockTypeOK
<1>3. SockTypeOK'
  <2>1. NoAddress \in Locals
    BY DEF Locals
  <2> QED
    BY <1>1, <2>1 DEF Destroy, SockInv, SockTypeOK, KernelRecords, ParkRecords
<1>4. OneObject(o)
  BY <1>1, <1>2 DEF Destroy, OneObject
<1>5. \A g \in SockFibers : parked'[g].obj # o
  BY <1>1 DEF Destroy, Waiting
<1>6. ConnectionOf(o)' /\ LocalOf(o)' /\ GoneIsEmpty(o)'
  BY <1>2, <1>5 DEF ConnectionOf, LocalOf, GoneIsEmpty, Waits
<1> QED
  BY <1>3, <1>4, <1>5, <1>6, ObjectStep

LEMMA CreateInv ==
  ASSUME SockInv, NEW o \in SockObjects, Create(o)
  PROVE  SockInv'
<1>1. PICK family \in Families, type \in {"tcp", "udp"} :
        /\ kind' = [kind EXCEPT ![o] = type] /\ m_family' = [m_family EXCEPT ![o] = family]
        /\ IF type = "tcp" THEN UNCHANGED <<kfd, opened, m_sock, m_isConnected>>
           ELSE /\ NewSock(o) /\ m_sock' = [m_sock EXCEPT ![o] = Fd(o)]
                /\ kfd' = IF Fd(o) = -1 THEN kfd ELSE [kfd EXCEPT ![Fd(o)] = NewFd]
                /\ m_isConnected' = [m_isConnected EXCEPT ![o] = TRUE]
  BY DEF Create
<1>2. /\ m_sock[o] = -1 /\ ~m_isConnected[o] /\ m_localAddress[o] = NoAddress
      /\ \A f \in SockFibers : parked[f] # NotParked => parked[f].obj # o
  BY DEF Create, SockInv, GoneIsEmpty, Waits
<1>3. /\ -1 \notin SockNumbers /\ Fd(o) \in SockNumbers \cup {-1}
      /\ Fd(o) # -1 => kfd[Fd(o)].state = "closed"
      /\ kfd \in [SockNumbers -> KernelRecords]
  BY <1>2, FdFacts DEF SockInv
<1>4. NewFd \in KernelRecords /\ NewFd.state = "new"
  BY ClosedRecords
<1>5. \A p \in SockObjects : /\ kind'[p] = IF p = o THEN type ELSE kind[p]
                             /\ p # o => m_sock'[p] = m_sock[p] /\ m_isConnected'[p] = m_isConnected[p]
  BY <1>1 DEF SockInv, SockTypeOK
<1>6. /\ \A n \in SockNumbers \ {Fd(o)} : kfd'[n] = kfd[n]
      /\ kfd' \in [SockNumbers -> KernelRecords]
      /\ \/ m_sock'[o] = -1 /\ type = "tcp" /\ kfd' = kfd /\ ~m_isConnected'[o]
         \/ m_sock'[o] = Fd(o) /\ type = "udp" /\ (Fd(o) # -1 => kfd'[Fd(o)].state = "new")
  BY <1>1, <1>2, <1>3, <1>4 DEF SockInv, SockTypeOK
<1>7. SockTypeOK'
  <2>1. opened' \in 0..MaxSockets
    BY <1>1, SocketAssumption DEF Create, NewSock, SockInv, SockTypeOK
  <2>2. m_sock' \in [SockObjects -> SockNumbers \cup {-1}] /\ m_isConnected' \in [SockObjects -> BOOLEAN]
    BY <1>1, <1>3, ZenonT(30) DEF SockInv, SockTypeOK
  <2> QED
    BY <1>1, <1>6, <2>1, <2>2 DEF Create, SockInv, SockTypeOK, KernelRecords, ParkRecords
<1>8. OneObject(o)
  BY <1>2, <1>3, <1>5, <1>6 DEF Create, OneObject
<1>9. ConnectionOf(o)' /\ LocalOf(o)' /\ GoneIsEmpty(o)'
  BY <1>1, <1>2, <1>5, <1>6 DEF Create, ConnectionOf, LocalOf, GoneIsEmpty, Waits
<1> QED
  BY <1>2, <1>7, <1>8, <1>9, ObjectStep DEF Create

LEMMA ListenInv ==
  ASSUME SockInv, NEW o \in SockObjects, Listen(o)
  PROVE  SockInv'
<1>1. /\ -1 \notin SockNumbers /\ m_sock[o] \in SockNumbers /\ Fd(o) = m_sock[o]
      /\ kfd \in [SockNumbers -> KernelRecords]
  BY FdFacts DEF Listen, SockInv
<1>2. /\ \A n \in SockNumbers : n # m_sock[o] => kfd'[n] = kfd[n]
      /\ kfd'[m_sock[o]].state = "listening"
      /\ kfd'[m_sock[o]].local = kfd[m_sock[o]].local \/ kfd[m_sock[o]].local = NoAddress
      /\ kfd' \in [SockNumbers -> KernelRecords]
  <2>1. Ephemeral(opened) \in Locals
    BY DEF SockInv, SockTypeOK, Locals
  <2> QED
    BY <1>1, <2>1 DEF Listen, KernelRecords
<1>3. SockTypeOK'
  BY <1>2 DEF Listen, SockInv, SockTypeOK, KernelRecords, ParkRecords
<1>4. OneObject(o)
  BY <1>1, <1>2 DEF Listen, OneObject
<1>5. ConnectionOf(o)' /\ LocalOf(o)' /\ GoneIsEmpty(o)'
  BY <1>2 DEF Listen, SockInv, ConnectionOf, LocalOf, GoneIsEmpty, Waits
<1>6. \A g \in SockFibers : parked'[g] # NotParked /\ parked'[g].obj = o => ParkedSound(g)' /\ ConnectsAlone(g)'
  BY <1>1 DEF Listen, SockInv, ParkedSound, ConnectsAlone
<1> QED
  BY <1>3, <1>4, <1>5, <1>6, ObjectStep

LEMMA CancelAllInv ==
  ASSUME SockInv, NEW o \in SockObjects, CancelAll(o)
  PROVE  SockInv'
<1>1. -1 \notin SockNumbers /\ Fd(o) = m_sock[o] /\ m_sock[o] # -1 /\ kfd[m_sock[o]].state # "closed"
  BY FdFacts DEF CancelAll, SockInv
<1>2. parked \in [SockFibers -> ParkRecords]
  BY DEF SockInv, SockTypeOK, ParkRecords
<1>3. /\ \A g \in SockFibers : /\ parked'[g].obj = parked[g].obj /\ parked'[g].fd = parked[g].fd
                               /\ parked[g].fd = Fd(o) \/ parked'[g] = parked[g]
      /\ parked' \in [SockFibers -> ParkRecords]
  BY <1>1, <1>2 DEF CancelAll, ParkRecords
<1>4. \A g \in SockFibers : parked[g] = NotParked => parked'[g] = NotParked
  BY <1>1, <1>3 DEF NotParked
<1>5. SockTypeOK'
  BY <1>3 DEF CancelAll, Disturbs, SockInv, SockTypeOK, KernelRecords, ParkRecords
<1>6. OneObject(o)
  BY <1>1, <1>3, <1>4 DEF CancelAll, Disturbs, OneObject
<1>7. ConnectionOf(o)' /\ LocalOf(o)' /\ GoneIsEmpty(o)'
  BY <1>1 DEF CancelAll, Disturbs, SockInv, ConnectionOf, LocalOf, GoneIsEmpty
<1>8. \A g \in SockFibers : parked'[g] # NotParked /\ parked'[g].obj = o => ParkedSound(g)' /\ ConnectsAlone(g)'
  BY <1>3, <1>4, DisturbedWaits DEF CancelAll
<1> QED
  BY <1>5, <1>6, <1>7, <1>8, ObjectStep

(* The record of the object's descriptor, or of the one it is about to get. *)
LEMMA KernelFdFacts ==
  ASSUME SockInv, NEW o \in SockObjects
  PROVE  /\ KernelFd(o) \in KernelRecords /\ KernelFd(o).state # "closed"
         /\ m_sock[o] # -1 => KernelFd(o) = kfd[Fd(o)] /\ Fd(o) = m_sock[o]
         /\ m_sock[o] = -1 => KernelFd(o) = NewFd /\ KernelFd(o).local = NoAddress
  BY FdFacts, ClosedRecords DEF SockInv, KernelFd

LEMMA NewSockCount ==
  ASSUME SockTypeOK, NEW o \in SockObjects, NewSock(o), ~(m_sock[o] = -1 /\ opened = MaxSockets)
  PROVE  opened' \in 0..MaxSockets
<1>1. opened \in 0..MaxSockets /\ MaxSockets \in Nat
  BY SocketAssumption DEF SockTypeOK
<1> QED
  BY <1>1 DEF NewSock

LEMMA BindInv ==
  ASSUME SockInv, NEW o \in SockObjects, NEW a \in Addresses, Bind(o, a)
  PROVE  SockInv'
<1> DEFINE ok == Fd(o) # -1 /\ Fits(o, a) /\ KernelFd(o).local = NoAddress /\ ~InUse(a)
           k == KernelFd(o)
           bound == IF ok THEN [k EXCEPT !.local = a] ELSE k
<1>1. /\ -1 \notin SockNumbers /\ Fd(o) \in SockNumbers \cup {-1}
      /\ kfd \in [SockNumbers -> KernelRecords]
  BY FdFacts DEF SockInv
<1>2. /\ k \in KernelRecords /\ k.state # "closed"
      /\ m_sock[o] # -1 => k = kfd[Fd(o)] /\ Fd(o) = m_sock[o]
      /\ m_sock[o] = -1 => k.local = NoAddress
  BY KernelFdFacts
<1>3. /\ NewSock(o) /\ m_sock' = [m_sock EXCEPT ![o] = Fd(o)]
      /\ kfd' = IF Fd(o) = -1 THEN kfd ELSE [kfd EXCEPT ![Fd(o)] = bound]
      /\ m_localAddress' = IF ok THEN [m_localAddress EXCEPT ![o] = Local(o, @, bound)] ELSE m_localAddress
      /\ stale' = IF m_sock[o] = -1 /\ m_localAddress[o] # NoAddress THEN stale \cup {o} ELSE stale
      /\ kind[o] # "gone" /\ ~(m_sock[o] = -1 /\ opened = MaxSockets)
      /\ Disturbs(o) /\ UNCHANGED <<kind, m_family, m_isConnected, m_remoteAddress, parked>>
  BY DEF Bind
<1>4. ok => Fd(o) # -1 /\ k.local = NoAddress
  OBVIOUS
<1>5. a \in Locals /\ a # NoAddress
  BY SocketAssumption DEF Locals, NoAddress
<1>6. /\ bound \in KernelRecords /\ bound.state = k.state /\ bound.peer = k.peer
      /\ bound.local = IF ok THEN a ELSE k.local
  BY <1>2, <1>5 DEF KernelRecords
<1> HIDE DEF ok, k, bound
<1>7. /\ \A p \in SockObjects : m_sock'[p] = IF p = o THEN Fd(o) ELSE m_sock[p]
      /\ \A p \in SockObjects \ {o} : m_localAddress'[p] = m_localAddress[p]
      /\ m_localAddress'[o] = IF ok /\ m_localAddress[o] = NoAddress THEN a ELSE m_localAddress[o]
  BY <1>3, <1>6 DEF SockInv, SockTypeOK, Local
<1>8. /\ \A n \in SockNumbers \ {Fd(o)} : kfd'[n] = kfd[n]
      /\ Fd(o) # -1 => kfd'[Fd(o)] = bound
      /\ kfd' \in [SockNumbers -> KernelRecords]
  BY <1>1, <1>3, <1>6
<1>9. SockTypeOK'
  <2>1. opened' \in 0..MaxSockets
    BY <1>3, NewSockCount DEF SockInv
  <2>2. m_sock' \in [SockObjects -> SockNumbers \cup {-1}]
    BY <1>1, <1>3 DEF SockInv, SockTypeOK
  <2>3. m_localAddress' \in [SockObjects -> Locals]
    BY <1>3, <1>5, <1>6, <1>7 DEF SockInv, SockTypeOK
  <2> QED
    BY <1>3, <1>8, <2>1, <2>2, <2>3 DEF Disturbs, SockInv, SockTypeOK, KernelRecords, ParkRecords
<1>10. OneObject(o)
  BY <1>2, <1>3, <1>6, <1>7, <1>8 DEF Disturbs, OneObject
<1>11. ConnectionOf(o)'
  <2> SUFFICES ASSUME o \notin tangled', m_isConnected'[o], kind'[o] = "tcp"
               PROVE  m_sock'[o] # -1 /\ kfd'[m_sock'[o]].state = "connected"
                      /\ kfd'[m_sock'[o]].peer = m_remoteAddress'[o]
    BY DEF ConnectionOf
  <2>1. m_sock[o] # -1 /\ kfd[m_sock[o]].state = "connected" /\ kfd[m_sock[o]].peer = m_remoteAddress[o]
    BY <1>3 DEF Disturbs, SockInv, ConnectionOf
  <2> QED
    BY <1>2, <1>3, <1>6, <1>7, <1>8, <2>1
<1>12. LocalOf(o)'
  <2> SUFFICES ASSUME o \notin stale', m_sock'[o] # -1, m_localAddress'[o] # NoAddress
               PROVE  kfd'[m_sock'[o]].local = m_localAddress'[o]
    BY DEF LocalOf
  <2>1. o \notin stale /\ (m_sock[o] = -1 => m_localAddress[o] = NoAddress)
    BY <1>3
  <2>2. kfd'[m_sock'[o]].local = IF ok THEN a ELSE k.local
    BY <1>6, <1>7, <1>8
  <2>3. CASE m_localAddress[o] # NoAddress
    <3>1. k.local = m_localAddress[o]
      BY <1>2, <2>1, <2>3 DEF SockInv, LocalOf
    <3> QED
      BY <1>7, <2>2, <2>3, <3>1 DEF ok, k
  <2>4. CASE m_localAddress[o] = NoAddress
    BY <1>7, <2>2, <2>4
  <2> QED
    BY <2>3, <2>4
<1>13. GoneIsEmpty(o)'
  BY <1>3 DEF GoneIsEmpty
<1>14. \A g \in SockFibers : parked'[g] # NotParked /\ parked'[g].obj = o => ParkedSound(g)' /\ ConnectsAlone(g)'
  BY <1>3, DisturbedWaits
<1> QED
  BY <1>9, <1>10, <1>11, <1>12, <1>13, <1>14, ObjectStep

LEMMA AcceptInv ==
  ASSUME SockInv, NEW o \in SockObjects, Accept(o)
  PROVE  SockInv'
<1> DEFINE n == Min(FreeNumbers)
           k == [NewFd EXCEPT !.state = "connected", !.local = kfd[m_sock[o]].local, !.peer = Client]
<1>1. n \in SockNumbers /\ kfd[n].state = "closed"
  BY LowestFree DEF Accept, FreeNumbers
<1>2. /\ -1 \notin SockNumbers /\ m_sock[o] \in SockNumbers
      /\ kfd \in [SockNumbers -> KernelRecords]
  BY FdFacts DEF Accept, SockInv
<1>3. k \in KernelRecords /\ k.state = "connected" /\ k.peer = Client /\ k.local \in Locals
  BY <1>2, ClosedRecords DEF KernelRecords
<1>4. \A p \in SockObjects : m_sock[p] # n
  BY <1>1, <1>2 DEF SockInv, Owners
<1>5. kfd' = [kfd EXCEPT ![n] = k]
  BY DEF Accept
<1>6. PICK new \in SockObjects :
        /\ kind[new] = "gone"
        /\ kind' = [kind EXCEPT ![new] = "tcp"]
        /\ m_family' = [m_family EXCEPT ![new] = m_family[o]]
        /\ m_sock' = [m_sock EXCEPT ![new] = n]
        /\ m_isConnected' = [m_isConnected EXCEPT ![new] = TRUE]
        /\ m_localAddress' = [m_localAddress EXCEPT ![new] = Local(new, @, k)]
        /\ m_remoteAddress' = [m_remoteAddress EXCEPT ![new] = k.peer]
  BY DEF Accept
<1> HIDE DEF k
<1>7. /\ m_sock[new] = -1 /\ m_localAddress[new] = NoAddress
      /\ \A g \in SockFibers : parked[g] # NotParked => parked[g].obj # new
  BY <1>6 DEF SockInv, GoneIsEmpty, Waits
<1>8. FreeNumbers # {}
  BY DEF Accept
<1>9. Fd(new) = n
  BY <1>7, <1>8 DEF Fd
<1> HIDE DEF n
<1>10. /\ \A m \in SockNumbers : kfd'[m] = IF m = n THEN k ELSE kfd[m]
       /\ kfd' \in [SockNumbers -> KernelRecords]
       /\ opened' \in 0..MaxSockets
  <2>1. opened' \in 0..MaxSockets
    BY SocketAssumption DEF Accept, SockInv, SockTypeOK
  <2> QED
    BY <1>2, <1>3, <1>5, <2>1
<1>11. /\ \A p \in SockObjects \ {new} :
           /\ kind'[p] = kind[p] /\ m_sock'[p] = m_sock[p] /\ m_isConnected'[p] = m_isConnected[p]
           /\ m_localAddress'[p] = m_localAddress[p] /\ m_remoteAddress'[p] = m_remoteAddress[p]
      /\ kind'[new] = "tcp" /\ m_sock'[new] = n /\ m_localAddress'[new] = k.local /\ m_remoteAddress'[new] = k.peer
      /\ UNCHANGED <<parked, stale, tangled>>
  <2>1. /\ DOMAIN kind = SockObjects /\ DOMAIN m_sock = SockObjects /\ DOMAIN m_isConnected = SockObjects
        /\ DOMAIN m_localAddress = SockObjects /\ DOMAIN m_remoteAddress = SockObjects
    BY DEF SockInv, SockTypeOK
  <2>2. UNCHANGED <<parked, stale, tangled>>
    BY DEF Accept
  <2>3. m_localAddress'[new] = k.local
    BY <1>6, <1>7, <2>1 DEF Local
  <2> QED
    BY <1>6, <2>1, <2>2, <2>3
<1>12. SockTypeOK'
  <2>1. /\ kind' \in [SockObjects -> {"gone", "tcp", "udp"}]
        /\ m_family' \in [SockObjects -> Families \cup {"none"}]
        /\ m_sock' \in [SockObjects -> SockNumbers \cup {-1}] /\ m_isConnected' \in [SockObjects -> BOOLEAN]
        /\ m_localAddress' \in [SockObjects -> Locals]
        /\ m_remoteAddress' \in [SockObjects -> Addresses \cup {NoAddress, Client}]
    <3>1. SockTypeOK /\ Client \in Addresses \cup {NoAddress, Client} /\ Local(new, m_localAddress[new], k) = k.local
      BY <1>7 DEF SockInv, Local
    <3>2. /\ kind' = [kind EXCEPT ![new] = "tcp"] /\ m_family' = [m_family EXCEPT ![new] = m_family[o]]
          /\ m_sock' = [m_sock EXCEPT ![new] = n] /\ m_isConnected' = [m_isConnected EXCEPT ![new] = TRUE]
          /\ m_localAddress' = [m_localAddress EXCEPT ![new] = k.local]
          /\ m_remoteAddress' = [m_remoteAddress EXCEPT ![new] = Client]
      BY <1>3, <1>6, <3>1
    <3> QED
      BY <1>1, <1>3, <3>1, <3>2 DEF SockTypeOK
  <2>2. SockTypeOK
    BY DEF SockInv
  <2>3. /\ kfd' \in [SockNumbers -> KernelRecords] /\ opened' \in 0..MaxSockets
        /\ UNCHANGED <<parked, stale, tangled>>
    BY <1>10, <1>11
  <2> QED
    BY <2>1, <2>2, <2>3 DEF SockTypeOK, KernelRecords
<1>13. OneObject(new)
  <2>1. \A m \in SockNumbers \ {Fd(new)} : kfd'[m] = kfd[m]
    BY <1>9, <1>10
  <2>2. m_sock'[new] = Fd(new) /\ kfd'[Fd(new)].state # "closed"
    BY <1>1, <1>3, <1>9, <1>10, <1>11
  <2>3. parked' = parked /\ stale' = stale /\ tangled' = tangled
    BY <1>11
  <2> QED
    BY <1>11, <2>1, <2>2, <2>3, <1>7 DEF OneObject
<1>14. ConnectionOf(new)' /\ LocalOf(new)' /\ GoneIsEmpty(new)'
  BY <1>1, <1>2, <1>3, <1>10, <1>11 DEF ConnectionOf, LocalOf, GoneIsEmpty
<1> QED
  BY <1>7, <1>11, <1>12, <1>13, <1>14, ObjectStep

LEMMA GetLocalAddressInv ==
  ASSUME SockInv, NEW o \in SockObjects, GetLocalAddress(o)
  PROVE  SockInv'
<1>1. -1 \notin SockNumbers /\ m_sock[o] \in SockNumbers /\ Fd(o) = m_sock[o] /\ kfd \in [SockNumbers -> KernelRecords]
      /\ kfd[m_sock[o]].state # "closed"
  BY FdFacts DEF GetLocalAddress, SockInv
<1>2. /\ UNCHANGED <<kfd, opened, kind, m_family, m_sock, m_isConnected, m_remoteAddress, parked, tangled>>
      /\ stale' = IF kfd[m_sock[o]].local = NoAddress THEN stale \cup {o} ELSE stale
      /\ m_localAddress' = [m_localAddress EXCEPT ![o] = IF kfd[m_sock[o]].local = NoAddress THEN Unbound
                                                         ELSE kfd[m_sock[o]].local]
      /\ kind[o] # "gone"
  BY DEF GetLocalAddress
<1>3. /\ \A p \in SockObjects \ {o} : m_localAddress'[p] = m_localAddress[p]
      /\ kfd[m_sock[o]].local # NoAddress => m_localAddress'[o] = kfd[m_sock[o]].local
      /\ m_localAddress' \in [SockObjects -> Locals]
  <2>1. Unbound \in Locals /\ kfd[m_sock[o]].local \in Locals
    BY <1>1 DEF Locals, KernelRecords
  <2> QED
    BY <1>2, <2>1 DEF SockInv, SockTypeOK
<1>4. SockTypeOK'
  BY <1>2, <1>3 DEF SockInv, SockTypeOK
<1>5. OneObject(o)
  BY <1>1, <1>2, <1>3 DEF OneObject
<1>6. ConnectionOf(o)' /\ LocalOf(o)' /\ GoneIsEmpty(o)'
  BY <1>2, <1>3 DEF SockInv, ConnectionOf, LocalOf, GoneIsEmpty
<1>7. \A g \in SockFibers : parked'[g] # NotParked /\ parked'[g].obj = o => ParkedSound(g)' /\ ConnectsAlone(g)'
  BY <1>2 DEF SockInv, ParkedSound, ConnectsAlone, Waits
<1> QED
  BY <1>4, <1>5, <1>6, <1>7, ObjectStep

LEMMA EstablishedInv ==
  ASSUME SockInv, NEW n \in SockNumbers, Established(n)
  PROVE  SockInv'
<1>1. PICK ok \in BOOLEAN :
        kfd' = [kfd EXCEPT ![n].state = IF ok THEN "connected" ELSE "refused", ![n].err = ~ok]
  BY DEF Established
<1>2. -1 \notin SockNumbers
  BY SocketAssumption
<1>3. kfd \in [SockNumbers -> KernelRecords] /\ parked \in [SockFibers -> ParkRecords]
  BY DEF SockInv, SockTypeOK, KernelRecords, ParkRecords
<1>4. /\ \A m \in SockNumbers : m # n => kfd'[m] = kfd[m]
      /\ kfd'[n].state = IF ok THEN "connected" ELSE "refused"
      /\ kfd'[n].err = ~ok /\ kfd'[n].local = kfd[n].local /\ kfd'[n].peer = kfd[n].peer
      /\ kfd' \in [SockNumbers -> KernelRecords]
  BY <1>1, <1>3, ZenonT(30) DEF KernelRecords
<1>5. /\ \A g \in SockFibers : /\ parked'[g].obj = parked[g].obj /\ parked'[g].fd = parked[g].fd
                               /\ parked[g].fd = n => parked'[g].woken
                               /\ parked[g].fd # n => parked'[g] = parked[g]
      /\ parked' \in [SockFibers -> ParkRecords]
  <2>1. parked' = [f \in SockFibers |->
          IF parked[f].fd = n THEN [parked[f] EXCEPT !.woken = TRUE] ELSE parked[f]]
    BY DEF Established
  <2>2. ASSUME NEW g \in SockFibers
        PROVE  /\ parked'[g].obj = parked[g].obj /\ parked'[g].fd = parked[g].fd
               /\ parked[g].fd = n => parked'[g].woken
               /\ parked[g].fd # n => parked'[g] = parked[g]
               /\ parked'[g] \in ParkRecords
    <3>1. parked[g] \in ParkRecords
      BY <1>3
    <3>2. parked'[g] = IF parked[g].fd = n THEN [parked[g] EXCEPT !.woken = TRUE] ELSE parked[g]
      BY <2>1
    <3> QED
      BY <3>1, <3>2 DEF ParkRecords
  <2> QED
    BY <2>1, <2>2
<1>6. \A g \in SockFibers : parked'[g] = NotParked <=> parked[g] = NotParked
  <2>1. NotParked.fd = -1 /\ n # -1
    BY <1>2 DEF NotParked
  <2> QED
    BY <1>5, <2>1
<1>7. kfd[n].state = "connecting"
        /\ UNCHANGED <<opened, kind, m_family, m_sock, m_isConnected, m_localAddress, m_remoteAddress, stale, tangled>>
  BY DEF Established
<1>8. SockTypeOK'
  <2>1. SockTypeOK
    BY DEF SockInv
  <2>2. kfd' \in [SockNumbers -> KernelRecords] /\ parked' \in [SockFibers -> ParkRecords]
    BY <1>4, <1>5
  <2> QED
    BY <1>7, <2>1, <2>2 DEF SockTypeOK, KernelRecords, ParkRecords
<1>9. Owners'
  <2>1. Owners /\ SockTypeOK
    BY DEF SockInv
  <2>2. \A m \in SockNumbers : kfd'[m].state = "closed" <=> kfd[m].state = "closed"
    BY <1>4, <1>7
  <2>3. \A p \in SockObjects : m_sock[p] \in SockNumbers \cup {-1}
    BY <2>1 DEF SockTypeOK
  <2>4. m_sock' = m_sock
    BY <1>7
  <2> QED
    BY <2>1, <2>2, <2>3, <2>4 DEF Owners
<1>10. ASSUME NEW p \in SockObjects PROVE ConnectionOf(p)' /\ LocalOf(p)' /\ GoneIsEmpty(p)'
  <2>1. m_sock[p] \in SockNumbers \cup {-1}
    BY DEF SockInv, SockTypeOK
  <2>2. ConnectionOf(p)'
    BY <1>4, <1>7, <2>1 DEF SockInv, ConnectionOf
  <2>3. LocalOf(p)'
    BY <1>4, <1>7, <2>1 DEF SockInv, LocalOf
  <2>4. GoneIsEmpty(p)'
    BY <1>5, <1>6, <1>7 DEF SockInv, GoneIsEmpty, Waits
  <2> QED
    BY <2>2, <2>3, <2>4
<1>11. ASSUME NEW g \in SockFibers PROVE ParkedSound(g)' /\ ConnectsAlone(g)'
  <2>1. ParkedSound(g)'
    BY <1>5, <1>6, <1>7 DEF SockInv, ParkedSound
  <2>2. ASSUME parked[g] # NotParked, parked[g].obj \notin tangled
        PROVE  ConnectsAlone(g)'
    <3>1. ConnectsAlone(g) /\ parked[g].obj \in SockObjects
      BY <2>2 DEF SockInv, ParkedSound
    <3>2. parked[g].fd \in SockNumbers
      BY <1>3, <2>2 DEF SockInv, ParkedSound, ParkRecords
    <3>3. \A h \in SockFibers : parked'[h] # NotParked /\ parked'[h].obj = parked'[g].obj => h = g
      BY <1>5, <1>6, <2>2, <3>1 DEF ConnectsAlone, Waits
    <3>4. CASE parked[g].fd = n
      BY <1>4, <1>5, <1>6, <1>7, <2>2, <3>1, <3>3, <3>4 DEF ConnectsAlone, Waits
    <3>5. CASE parked[g].fd # n
      BY <1>4, <1>5, <1>6, <1>7, <2>2, <3>1, <3>2, <3>3, <3>5 DEF ConnectsAlone, Waits
    <3> QED
      BY <3>4, <3>5
  <2> QED
    BY <1>5, <1>6, <1>7, <2>1, <2>2 DEF ConnectsAlone
<1> QED
  BY <1>8, <1>9, <1>10, <1>11 DEF SockInv

(* A connect that is begun, with the local address that the object has kept, or none. *)
LEMMA ConnectToInv ==
  ASSUME SockInv, NEW f \in SockFibers, NEW o \in SockObjects, NEW a \in Addresses \cup {Client},
         NEW cached \in Locals, ConnectTo(f, o, a, cached),
         stale' \subseteq SockObjects, \A p \in SockObjects \ {o} : p \in stale' <=> p \in stale,
         o \notin stale' /\ cached # NoAddress => o \notin stale /\ cached = m_localAddress[o] /\ m_sock[o] # -1
  PROVE  SockInv'
<1> DEFINE kk == [KernelFd(o) EXCEPT !.local = IF @ = NoAddress THEN Ephemeral(opened) ELSE @]
           tried == Fd(o) # -1 /\ Fits(o, a)
           done == [kk EXCEPT !.state = "connected", !.peer = a]
           begun == [kk EXCEPT !.state = "connecting", !.peer = a]
<1>1. /\ kind[o] # "gone" /\ parked[f] = NotParked
      /\ ~(m_sock[o] = -1 /\ opened = MaxSockets) /\ NewSock(o)
      /\ m_remoteAddress' = [m_remoteAddress EXCEPT ![o] = a]
      /\ tangled' = IF Waiting(o) \/ (~tried /\ m_isConnected[o]) THEN tangled \cup {o} ELSE tangled
      /\ UNCHANGED <<kind, m_family>>
  BY DEF ConnectTo
<1>2. \/ /\ ~tried
         /\ m_sock' = [m_sock EXCEPT ![o] = Fd(o)] /\ CloseFd(o, KernelFd(o))
         /\ m_localAddress' = [m_localAddress EXCEPT ![o] = cached] /\ UNCHANGED m_isConnected
      \/ /\ tried /\ kind[o] = "udp"
         /\ m_sock' = [m_sock EXCEPT ![o] = Fd(o)] /\ CloseFd(o, done)
         /\ m_isConnected' = [m_isConnected EXCEPT ![o] = TRUE]
         /\ m_localAddress' = [m_localAddress EXCEPT ![o] = Local(o, cached, done)]
      \/ /\ tried /\ kind[o] = "tcp" /\ kk.state = "new"
         /\ m_sock' = [m_sock EXCEPT ![o] = Fd(o)]
         /\ kfd' = [kfd EXCEPT ![Fd(o)] = begun]
         /\ parked' = [parked EXCEPT ![f] = [obj |-> o, fd |-> Fd(o), woken |-> FALSE]]
         /\ m_localAddress' = [m_localAddress EXCEPT ![o] = cached] /\ UNCHANGED m_isConnected
      \/ /\ tried /\ kind[o] = "tcp"
         /\ m_sock' = [m_sock EXCEPT ![o] = -1] /\ CloseFd(o, ClosedFd)
         /\ m_isConnected' = [m_isConnected EXCEPT ![o] = FALSE]
         /\ m_localAddress' = [m_localAddress EXCEPT ![o] = cached]
  BY DEF ConnectTo
<1>3. tried => Fd(o) # -1
  OBVIOUS
<1>4. /\ KernelFd(o) \in KernelRecords /\ KernelFd(o).state # "closed"
      /\ m_sock[o] # -1 => KernelFd(o) = kfd[Fd(o)] /\ Fd(o) = m_sock[o]
  BY KernelFdFacts
<1>5. /\ -1 \notin SockNumbers /\ Fd(o) \in SockNumbers \cup {-1}
      /\ kfd \in [SockNumbers -> KernelRecords] /\ parked \in [SockFibers -> ParkRecords]
  <2>1. parked \in [SockFibers -> ParkRecords]
    BY DEF SockInv, SockTypeOK, ParkRecords
  <2> QED
    BY <2>1, FdFacts DEF SockInv
<1>6. Ephemeral(opened) \in Locals /\ Ephemeral(opened) # NoAddress
  <2>1. opened \in 0..MaxSockets /\ MaxSockets \in Nat
    BY SocketAssumption DEF SockInv, SockTypeOK
  <2> QED
    BY <2>1 DEF Locals, Ephemeral, NoAddress
<1>7. /\ kk \in KernelRecords /\ kk.state = KernelFd(o).state
      /\ KernelFd(o).local # NoAddress => kk.local = KernelFd(o).local
  BY <1>4, <1>6 DEF KernelRecords
<1> HIDE DEF kk, tried
<1>8. /\ done \in KernelRecords /\ done.state = "connected" /\ done.peer = a /\ done.local = kk.local
      /\ begun \in KernelRecords /\ begun.state = "connecting" /\ begun.peer = a /\ begun.local = kk.local
  BY <1>7 DEF KernelRecords
<1> HIDE DEF done, begun
<1>9. ClosedFd \in KernelRecords /\ ClosedFd.state = "closed"
  BY ClosedRecords
<1>10. opened' \in 0..MaxSockets
  BY <1>1, NewSockCount DEF SockInv
<1>11. /\ \A p \in SockObjects : m_remoteAddress'[p] = IF p = o THEN a ELSE m_remoteAddress[p]
       /\ m_remoteAddress' \in [SockObjects -> Addresses \cup {NoAddress, Client}]
  BY <1>1 DEF SockInv, SockTypeOK
<1>12. /\ tangled' \subseteq SockObjects /\ \A p \in tangled : p \in tangled'
       /\ Waiting(o) => o \in tangled'
  BY <1>1 DEF SockInv, SockTypeOK
(* What all four ways have in common. *)
<1>13. ASSUME m_sock' = [m_sock EXCEPT ![o] = Fd(o)] \/ m_sock' = [m_sock EXCEPT ![o] = -1],
              m_isConnected' \in [SockObjects -> BOOLEAN],
              \A p \in SockObjects \ {o} : m_isConnected'[p] = m_isConnected[p],
              NEW l \in Locals, m_localAddress' = [m_localAddress EXCEPT ![o] = l],
              kfd' \in [SockNumbers -> KernelRecords], parked' \in [SockFibers -> ParkRecords],
              \A n \in SockNumbers \ {Fd(o)} : kfd'[n] = kfd[n],
              \/ m_sock'[o] = -1 /\ (Fd(o) # -1 => kfd'[Fd(o)].state = "closed")
              \/ m_sock'[o] = Fd(o) /\ (Fd(o) # -1 => kfd'[Fd(o)].state # "closed"),
              \A g \in SockFibers :
                \/ g = f /\ parked'[g] # NotParked /\ parked'[g].obj = o /\ ConnectsAlone(g)' /\ ParkedSound(g)'
                \/ /\ parked'[g].obj = parked[g].obj /\ parked'[g].fd = parked[g].fd
                   /\ parked[g].fd = Fd(o) \/ parked'[g] = parked[g]
                   /\ parked[g] = NotParked <=> parked'[g] = NotParked,
              ConnectionOf(o)', LocalOf(o)'
       PROVE  SockInv'
  <2>1. /\ m_sock' \in [SockObjects -> SockNumbers \cup {-1}] /\ m_localAddress' \in [SockObjects -> Locals]
        /\ \A p \in SockObjects \ {o} : m_sock'[p] = m_sock[p] /\ m_localAddress'[p] = m_localAddress[p]
    BY <1>5, <1>13 DEF SockInv, SockTypeOK
  <2>2. SockTypeOK'
    <3>1. SockTypeOK
      BY DEF SockInv
    <3> QED
      BY <1>1, <1>10, <1>11, <1>12, <1>13, <2>1, <3>1 DEF SockTypeOK, KernelRecords, ParkRecords
  <2>3. OneObject(o)
    BY <1>1, <1>11, <1>12, <1>13, <2>1 DEF OneObject
  <2>4. GoneIsEmpty(o)'
    BY <1>1 DEF GoneIsEmpty
  <2>5. ASSUME NEW g \in SockFibers, parked'[g] # NotParked, parked'[g].obj = o
        PROVE  ParkedSound(g)' /\ ConnectsAlone(g)'
    <3>1. CASE g = f /\ ConnectsAlone(g)' /\ ParkedSound(g)'
      BY <3>1
    <3>2. CASE parked[g] # NotParked /\ parked'[g].obj = parked[g].obj /\ parked'[g].fd = parked[g].fd
      <4>1. o \in tangled'
        BY <1>12, <2>5, <3>2 DEF Waiting
      <4>2. ParkedSound(g)'
        BY <1>1, <2>5, <3>2 DEF SockInv, ParkedSound
      <4> QED
        BY <2>5, <4>1, <4>2 DEF ConnectsAlone
    <3> QED
      BY <1>13, <2>5, <3>1, <3>2
  <2> QED
    BY <1>13, <2>2, <2>3, <2>4, <2>5, ObjectStep
<1>14. CASE /\ ~tried
            /\ m_sock' = [m_sock EXCEPT ![o] = Fd(o)] /\ CloseFd(o, KernelFd(o))
            /\ m_localAddress' = [m_localAddress EXCEPT ![o] = cached] /\ UNCHANGED m_isConnected
  <2>1. /\ \A g \in SockFibers : /\ parked'[g].obj = parked[g].obj /\ parked'[g].fd = parked[g].fd
                                 /\ parked[g].fd = Fd(o) \/ parked'[g] = parked[g]
                                 /\ parked[g] = NotParked <=> parked'[g] = NotParked
        /\ parked' \in [SockFibers -> ParkRecords] /\ kfd' \in [SockNumbers -> KernelRecords]
        /\ \A n \in SockNumbers : kfd'[n] = IF n = Fd(o) THEN KernelFd(o) ELSE kfd[n]
    BY <1>4, <1>14, CloseWakes, Zenon
  <2>2. /\ m_sock'[o] = Fd(o) /\ m_localAddress'[o] = cached /\ m_isConnected' = m_isConnected
        /\ m_isConnected \in [SockObjects -> BOOLEAN]
    BY <1>14 DEF SockInv, SockTypeOK
  <2>3. Fd(o) # -1 => kfd'[Fd(o)] = KernelFd(o)
    BY <1>5, <2>1
  <2>4. ConnectionOf(o)'
    BY <1>1, <1>14, <2>2 DEF ConnectionOf
  <2>5. LocalOf(o)'
    <3> SUFFICES ASSUME o \notin stale', Fd(o) # -1, cached # NoAddress
                 PROVE  KernelFd(o).local = cached
      BY <2>2, <2>3 DEF LocalOf
    <3> QED
      BY <1>4 DEF SockInv, LocalOf
  <2> QED
    BY <1>4, <1>13, <1>14, <2>1, <2>2, <2>3, <2>4, <2>5
<1>15. CASE /\ tried /\ kind[o] = "udp"
            /\ m_sock' = [m_sock EXCEPT ![o] = Fd(o)] /\ CloseFd(o, done)
            /\ m_isConnected' = [m_isConnected EXCEPT ![o] = TRUE]
            /\ m_localAddress' = [m_localAddress EXCEPT ![o] = Local(o, cached, done)]
  <2>1. /\ \A g \in SockFibers : /\ parked'[g].obj = parked[g].obj /\ parked'[g].fd = parked[g].fd
                                 /\ parked[g].fd = Fd(o) \/ parked'[g] = parked[g]
                                 /\ parked[g] = NotParked <=> parked'[g] = NotParked
        /\ parked' \in [SockFibers -> ParkRecords] /\ kfd' \in [SockNumbers -> KernelRecords]
        /\ \A n \in SockNumbers : kfd'[n] = IF n = Fd(o) THEN done ELSE kfd[n]
    BY <1>8, <1>15, CloseWakes, Zenon
  <2>2. /\ m_sock'[o] = Fd(o) /\ m_localAddress'[o] = Local(o, cached, done)
        /\ m_isConnected' \in [SockObjects -> BOOLEAN]
        /\ \A p \in SockObjects \ {o} : m_isConnected'[p] = m_isConnected[p]
    BY <1>15 DEF SockInv, SockTypeOK
  <2>3. Local(o, cached, done) \in Locals
    BY <1>8 DEF Local, KernelRecords
  <2>4. Fd(o) # -1 => kfd'[Fd(o)] = done
    BY <1>5, <2>1
  <2>5. ConnectionOf(o)'
    BY <1>1, <1>15 DEF ConnectionOf
  <2>6. LocalOf(o)'
    <3> SUFFICES ASSUME o \notin stale', Fd(o) # -1, cached # NoAddress
                 PROVE  kk.local = cached
      BY <1>8, <2>2, <2>4 DEF LocalOf, Local
    <3>1. KernelFd(o).local = cached
      BY <1>4 DEF SockInv, LocalOf
    <3> QED
      BY <1>7, <3>1
  <2> QED
    BY <1>8, <1>13, <1>15, <2>1, <2>2, <2>3, <2>4, <2>5, <2>6
<1>16. CASE /\ tried /\ kind[o] = "tcp" /\ kk.state = "new"
            /\ m_sock' = [m_sock EXCEPT ![o] = Fd(o)]
            /\ kfd' = [kfd EXCEPT ![Fd(o)] = begun]
            /\ parked' = [parked EXCEPT ![f] = [obj |-> o, fd |-> Fd(o), woken |-> FALSE]]
            /\ m_localAddress' = [m_localAddress EXCEPT ![o] = cached] /\ UNCHANGED m_isConnected
  <2>1. Fd(o) \in SockNumbers /\ Fd(o) # -1
    BY <1>3, <1>5, <1>16
  <2>2. /\ \A n \in SockNumbers : kfd'[n] = IF n = Fd(o) THEN begun ELSE kfd[n]
        /\ kfd' \in [SockNumbers -> KernelRecords] /\ kfd'[Fd(o)] = begun
    BY <1>5, <1>8, <1>16, <2>1
  <2>3. /\ \A g \in SockFibers \ {f} : parked'[g] = parked[g]
        /\ parked'[f].obj = o /\ parked'[f].fd = Fd(o) /\ ~parked'[f].woken
        /\ parked' \in [SockFibers -> ParkRecords]
    BY <1>5, <1>16, <2>1 DEF ParkRecords
  <2>4. parked'[f] # NotParked
    BY <2>1, <2>3 DEF NotParked
  <2>5. /\ m_sock'[o] = Fd(o) /\ m_localAddress'[o] = cached /\ m_isConnected' = m_isConnected
        /\ m_isConnected \in [SockObjects -> BOOLEAN]
    BY <1>16 DEF SockInv, SockTypeOK
  <2>6. o \notin tangled' => ~m_isConnected[o]
    <3>1. o \notin tangled' => o \notin tangled
      BY <1>12
    <3>2. m_sock[o] # -1 => kfd[m_sock[o]].state = "new"
      BY <1>4, <1>7, <1>16
    <3> QED
      BY <1>16, <3>1, <3>2 DEF SockInv, ConnectionOf
  <2>7. ConnectionOf(o)'
    BY <2>5, <2>6 DEF ConnectionOf
  <2>8. LocalOf(o)'
    <3> SUFFICES ASSUME o \notin stale', cached # NoAddress
                 PROVE  kk.local = cached
      BY <1>8, <2>2, <2>5 DEF LocalOf
    <3>1. KernelFd(o).local = cached
      BY <1>4 DEF SockInv, LocalOf
    <3> QED
      BY <1>7, <3>1
  <2>9. ParkedSound(f)'
    BY <1>1, <1>16, <2>1, <2>3 DEF ParkedSound
  <2>10. ConnectsAlone(f)'
    <3> SUFFICES ASSUME o \notin tangled'
                 PROVE  ConnectsAlone(f)'
      BY <2>3 DEF ConnectsAlone
    <3>1. \A g \in SockFibers : parked'[g] # NotParked /\ parked'[g].obj = o => g = f
      BY <1>12, <2>3 DEF Waiting
    <3> QED
      BY <1>8, <1>11, <2>2, <2>3, <2>5, <2>6, <3>1 DEF ConnectsAlone, Waits
  <2>11. \A g \in SockFibers :
           \/ g = f /\ parked'[g] # NotParked /\ parked'[g].obj = o /\ ConnectsAlone(g)' /\ ParkedSound(g)'
           \/ /\ parked'[g].obj = parked[g].obj /\ parked'[g].fd = parked[g].fd
              /\ parked[g].fd = Fd(o) \/ parked'[g] = parked[g]
              /\ parked[g] = NotParked <=> parked'[g] = NotParked
    BY <2>3, <2>4, <2>9, <2>10
  <2> QED
    BY <1>8, <1>13, <1>16, <2>2, <2>3, <2>5, <2>7, <2>8, <2>11
<1>17. CASE /\ tried /\ kind[o] = "tcp"
            /\ m_sock' = [m_sock EXCEPT ![o] = -1] /\ CloseFd(o, ClosedFd)
            /\ m_isConnected' = [m_isConnected EXCEPT ![o] = FALSE]
            /\ m_localAddress' = [m_localAddress EXCEPT ![o] = cached]
  <2>1. /\ \A g \in SockFibers : /\ parked'[g].obj = parked[g].obj /\ parked'[g].fd = parked[g].fd
                                 /\ parked[g].fd = Fd(o) \/ parked'[g] = parked[g]
                                 /\ parked[g] = NotParked <=> parked'[g] = NotParked
        /\ parked' \in [SockFibers -> ParkRecords] /\ kfd' \in [SockNumbers -> KernelRecords]
        /\ \A n \in SockNumbers : kfd'[n] = IF n = Fd(o) THEN ClosedFd ELSE kfd[n]
    BY <1>9, <1>17, CloseWakes, Zenon
  <2>2. /\ m_sock'[o] = -1 /\ m_isConnected'[o] = FALSE
        /\ m_isConnected' \in [SockObjects -> BOOLEAN]
        /\ \A p \in SockObjects \ {o} : m_isConnected'[p] = m_isConnected[p]
    BY <1>17 DEF SockInv, SockTypeOK
  <2>3. Fd(o) # -1 => kfd'[Fd(o)] = ClosedFd
    BY <1>5, <2>1
  <2>4. ConnectionOf(o)' /\ LocalOf(o)'
    BY <2>2 DEF ConnectionOf, LocalOf
  <2> QED
    BY <1>9, <1>13, <1>17, <2>1, <2>2, <2>3, <2>4
<1> QED
  BY <1>2, <1>14, <1>15, <1>16, <1>17

LEMMA ConnectInv ==
  ASSUME SockInv, NEW f \in SockFibers, NEW o \in SockObjects, NEW a \in Addresses, Connect(f, o, a)
  PROVE  SockInv'
<1>1. /\ ConnectTo(f, o, a, m_localAddress[o])
      /\ stale' = IF m_sock[o] = -1 /\ m_localAddress[o] # NoAddress THEN stale \cup {o} ELSE stale
  BY DEF Connect
<1>2. m_localAddress[o] \in Locals /\ stale \subseteq SockObjects
  BY DEF SockInv, SockTypeOK
<1>3. /\ stale' \subseteq SockObjects /\ \A p \in SockObjects \ {o} : p \in stale' <=> p \in stale
      /\ o \notin stale' /\ m_localAddress[o] # NoAddress => o \notin stale /\ m_sock[o] # -1
  BY <1>1, <1>2
<1> QED
  BY <1>1, <1>2, <1>3, ConnectToInv

LEMMA ReconnectInv ==
  ASSUME SockInv, NEW f \in SockFibers, NEW o \in SockObjects, Reconnect(f, o)
  PROVE  SockInv'
<1>1. /\ m_remoteAddress[o] # NoAddress /\ ConnectTo(f, o, m_remoteAddress[o], NoAddress)
      /\ stale' = stale \ {o}
  BY DEF Reconnect
<1>2. m_remoteAddress[o] \in Addresses \cup {Client} /\ NoAddress \in Locals /\ stale \subseteq SockObjects
  BY <1>1 DEF SockInv, SockTypeOK, Locals
<1>3. stale' \subseteq SockObjects /\ \A p \in SockObjects \ {o} : p \in stale' <=> p \in stale
  BY <1>1, <1>2
<1> QED
  BY <1>1, <1>2, <1>3, ConnectToInv

LEMMA ConnectReturnsInv ==
  ASSUME SockInv, NEW f \in SockFibers, ConnectReturns(f)
  PROVE  SockInv'
<1>1. PICK o \in SockObjects, n \in SockNumbers :
        parked[f] # NotParked /\ parked[f].obj = o /\ parked[f].fd = n /\ kind[o] = "tcp"
  BY DEF ConnectReturns, SockInv, SockTypeOK, ParkedSound
<1>2. PICK timeout \in BOOLEAN :
        /\ ~timeout => parked[f].woken
        /\ LET ok == ~timeout /\ kfd[n].state # "closed" /\ ~kfd[n].err
               seen == IF timeout THEN kfd ELSE [kfd EXCEPT ![n].err = FALSE]
           IN /\ m_isConnected' = [m_isConnected EXCEPT ![o] = ok]
              /\ IF ok \/ m_sock[o] = -1
                 THEN /\ kfd' = seen /\ parked' = [parked EXCEPT ![f] = NotParked]
                      /\ UNCHANGED m_sock
                 ELSE /\ kfd' = [seen EXCEPT ![m_sock[o]] = ClosedFd]
                      /\ m_sock' = [m_sock EXCEPT ![o] = -1]
                      /\ parked' = [g \in SockFibers |->
                           IF g = f THEN NotParked
                           ELSE IF parked[g].fd = m_sock[o] THEN [parked[g] EXCEPT !.woken = TRUE] ELSE parked[g]]
              /\ m_localAddress' = IF ok /\ m_sock[o] # -1
                                   THEN [m_localAddress EXCEPT ![o] = Local(o, @, kfd[m_sock[o]])] ELSE m_localAddress
              /\ tangled' = tangled \cup {p \in SockObjects \ {o} : ~timeout /\ m_sock[p] = n}
  BY <1>1 DEF ConnectReturns
<1> DEFINE ok == ~timeout /\ kfd[n].state # "closed" /\ ~kfd[n].err
           seen == IF timeout THEN kfd ELSE [kfd EXCEPT ![n].err = FALSE]
<1>3. /\ m_isConnected' = [m_isConnected EXCEPT ![o] = ok]
      /\ IF ok \/ m_sock[o] = -1
         THEN /\ kfd' = seen /\ parked' = [parked EXCEPT ![f] = NotParked]
              /\ UNCHANGED m_sock
         ELSE /\ kfd' = [seen EXCEPT ![m_sock[o]] = ClosedFd]
              /\ m_sock' = [m_sock EXCEPT ![o] = -1]
              /\ parked' = [g \in SockFibers |->
                   IF g = f THEN NotParked
                   ELSE IF parked[g].fd = m_sock[o] THEN [parked[g] EXCEPT !.woken = TRUE] ELSE parked[g]]
      /\ m_localAddress' = IF ok /\ m_sock[o] # -1
                           THEN [m_localAddress EXCEPT ![o] = Local(o, @, kfd[m_sock[o]])] ELSE m_localAddress
      /\ tangled' = tangled \cup {p \in SockObjects \ {o} : ~timeout /\ m_sock[p] = n}
      /\ UNCHANGED <<opened, kind, m_family, m_remoteAddress, stale>>
  BY <1>1, <1>2 DEF ConnectReturns
<1>4. /\ kfd \in [SockNumbers -> KernelRecords] /\ parked \in [SockFibers -> ParkRecords]
      /\ SockTypeOK /\ Owners
  BY <1>1 DEF SockInv, SockTypeOK, KernelRecords, ParkRecords
<1>5. /\ -1 \notin SockNumbers /\ Fd(o) \in SockNumbers \cup {-1}
      /\ m_sock[o] # -1 => Fd(o) = m_sock[o] /\ kfd[Fd(o)].state # "closed"
      /\ m_sock[o] = -1 /\ Fd(o) # -1 => kfd[Fd(o)].state = "closed"
  BY <1>1, <1>4, FdFacts
<1>6. /\ seen \in [SockNumbers -> KernelRecords]
      /\ \A m \in SockNumbers : /\ seen[m].state = kfd[m].state /\ seen[m].local = kfd[m].local
                                /\ seen[m].peer = kfd[m].peer
                                /\ seen[m].err = kfd[m].err \/ (~timeout /\ m = n)
  <2>1. CASE timeout
    BY <1>1, <1>4, <2>1
  <2>2. CASE ~timeout
    BY <1>1, <1>4, <2>2 DEF KernelRecords
  <2> QED
    BY <1>1, <2>1, <2>2
<1>7. ok \in BOOLEAN /\ (ok => ~timeout /\ ~kfd[n].err /\ parked[f].woken)
  <2>1. ~timeout => parked[f].woken
    BY <1>2
  <2> QED
    BY <2>1
<1>8. ClosedFd \in KernelRecords /\ ClosedFd.state = "closed" /\ NotParked \in ParkRecords
  BY ClosedRecords
<1> HIDE DEF ok, seen
(* The descriptor is kept or closed. *)
<1>9. /\ m_sock' \in [SockObjects -> SockNumbers \cup {-1}]
      /\ \A p \in SockObjects \ {o} : m_sock'[p] = m_sock[p] /\ m_isConnected'[p] = m_isConnected[p]
      /\ m_isConnected' \in [SockObjects -> BOOLEAN]
      /\ ok => m_sock' = m_sock
  BY <1>1, <1>3, <1>7, <1>4 DEF SockTypeOK
<1>10. /\ kfd' \in [SockNumbers -> KernelRecords]
       /\ \A m \in SockNumbers \ {Fd(o)} : kfd'[m] = seen[m]
       /\ ok => kfd' = seen
  BY <1>1, <1>3, <1>5, <1>6, <1>8
<1>11. \/ m_sock'[o] = -1 /\ (Fd(o) # -1 => kfd'[Fd(o)].state = "closed")
       \/ m_sock'[o] = Fd(o) /\ (Fd(o) # -1 => kfd'[Fd(o)].state # "closed")
  <2>1. CASE ok \/ m_sock[o] = -1
    <3>1. kfd' = seen /\ m_sock' = m_sock
      BY <1>1, <1>3, <2>1
    <3> QED
      BY <1>1, <1>5, <1>6, <3>1
  <2>2. CASE ~(ok \/ m_sock[o] = -1)
    <3>1. kfd' = [seen EXCEPT ![m_sock[o]] = ClosedFd] /\ m_sock' = [m_sock EXCEPT ![o] = -1]
      BY <1>1, <1>3, <2>2
    <3>2. m_sock'[o] = -1
      BY <1>1, <1>4, <3>1 DEF SockTypeOK
    <3>3. kfd'[Fd(o)] = ClosedFd
      BY <1>1, <1>5, <1>6, <2>2, <3>1
    <3> QED
      BY <1>1, <1>8, <3>2, <3>3
  <2> QED
    BY <1>1, <2>1, <2>2
<1>12. /\ parked' \in [SockFibers -> ParkRecords] /\ parked'[f] = NotParked
       /\ \A g \in SockFibers \ {f} : /\ parked'[g].obj = parked[g].obj /\ parked'[g].fd = parked[g].fd
                                      /\ parked[g].fd = Fd(o) \/ parked'[g] = parked[g]
                                      /\ parked[g] = NotParked => parked'[g] = NotParked
  <2>1. CASE ok \/ m_sock[o] = -1
    <3>1. parked' = [parked EXCEPT ![f] = NotParked]
      BY <1>1, <1>3, <2>1
    <3> QED
      BY <1>1, <1>4, <1>8, <3>1
  <2>2. CASE ~(ok \/ m_sock[o] = -1)
    <3>1. parked' = [g \in SockFibers |->
             IF g = f THEN NotParked
             ELSE IF parked[g].fd = m_sock[o] THEN [parked[g] EXCEPT !.woken = TRUE] ELSE parked[g]]
      BY <1>1, <1>3, <2>2
    <3>2. ASSUME NEW g \in SockFibers \ {f}
          PROVE  /\ parked'[g] \in ParkRecords
                 /\ parked'[g].obj = parked[g].obj /\ parked'[g].fd = parked[g].fd
                 /\ parked[g].fd = m_sock[o] \/ parked'[g] = parked[g]
      <4>1. parked[g] \in ParkRecords
        BY <1>1, <1>4
      <4>2. parked'[g] = IF parked[g].fd = m_sock[o] THEN [parked[g] EXCEPT !.woken = TRUE] ELSE parked[g]
        BY <1>1, <3>1
      <4> QED
        BY <1>1, <4>1, <4>2 DEF ParkRecords
    <3>3. parked'[f] = NotParked
      BY <1>1, <3>1
    <3>4. NotParked.fd = -1
      BY DEF NotParked
    <3>5. parked' \in [SockFibers -> ParkRecords]
      BY <1>1, <1>8, <3>1, <3>2, <3>3
    <3> QED
      BY <1>1, <1>5, <2>2, <3>2, <3>3, <3>4, <3>5
  <2> QED
    BY <1>1, <2>1, <2>2
<1>13. /\ m_localAddress' \in [SockObjects -> Locals]
       /\ \A p \in SockObjects \ {o} : m_localAddress'[p] = m_localAddress[p]
       /\ m_localAddress'[o] = m_localAddress[o]
          \/ (m_localAddress[o] = NoAddress /\ m_localAddress'[o] = kfd[m_sock[o]].local)
  <2>1. m_sock[o] # -1 => kfd[m_sock[o]].local \in Locals
    BY <1>1, <1>4 DEF SockTypeOK
  <2> QED
    BY <1>1, <1>3, <1>4, <2>1 DEF SockTypeOK, Local
<1>14. SockTypeOK'
  <2>1. tangled' \subseteq SockObjects
    BY <1>1, <1>3, <1>4 DEF SockTypeOK
  <2>2. UNCHANGED <<opened, kind, m_family, m_remoteAddress, stale>>
    BY <1>1, <1>3
  <2>3. /\ opened' \in 0..MaxSockets /\ kind' \in [SockObjects -> {"gone", "tcp", "udp"}]
        /\ m_family' \in [SockObjects -> Families \cup {"none"}]
        /\ m_remoteAddress' \in [SockObjects -> Addresses \cup {NoAddress, Client}]
        /\ stale' \cup tangled' \subseteq SockObjects
    BY <1>4, <2>1, <2>2 DEF SockTypeOK
  <2>4. kfd' \in [SockNumbers -> KernelRecords] /\ parked' \in [SockFibers -> ParkRecords]
    BY <1>10, <1>12
  <2>5. /\ m_sock' \in [SockObjects -> SockNumbers \cup {-1}] /\ m_isConnected' \in [SockObjects -> BOOLEAN]
        /\ m_localAddress' \in [SockObjects -> Locals]
    BY <1>9, <1>13
  <2> QED
    BY <2>3, <2>4, <2>5 DEF SockTypeOK, KernelRecords, ParkRecords
<1>15. OneObject(o)
  <2>1. \A m \in SockNumbers \ {Fd(o)} :
          /\ kfd'[m].state = kfd[m].state /\ kfd'[m].local = kfd[m].local /\ kfd'[m].peer = kfd[m].peer
          /\ kfd'[m].err = kfd[m].err \/ \A p \in SockObjects \ {o} : m_sock[p] = m => p \in tangled'
    BY <1>1, <1>3, <1>6, <1>10
  <2>2. /\ UNCHANGED <<kind, m_remoteAddress, stale>> /\ \A p \in tangled : p \in tangled'
    BY <1>1, <1>3
  <2>3. \A g \in SockFibers :
       \/ parked'[g] = NotParked
       \/ /\ parked'[g] # NotParked /\ parked[g] # NotParked
          /\ parked'[g].obj = parked[g].obj /\ parked'[g].fd = parked[g].fd
          /\ parked'[g].fd = Fd(o) \/ parked'[g].woken = parked[g].woken
    BY <1>1, <1>12
  <2>4. \A p \in SockObjects \ {o} :
          /\ kind'[p] = kind[p] /\ m_sock'[p] = m_sock[p] /\ m_isConnected'[p] = m_isConnected[p]
          /\ m_localAddress'[p] = m_localAddress[p] /\ m_remoteAddress'[p] = m_remoteAddress[p]
          /\ (p \in tangled => p \in tangled') /\ (p \in stale' <=> p \in stale)
    BY <1>9, <1>13, <2>2
  <2> QED
    BY <1>11, <2>1, <2>2, <2>3, <2>4 DEF OneObject
<1>16. ConnectionOf(o)'
  <2> SUFFICES ASSUME o \notin tangled', m_isConnected'[o]
               PROVE  /\ m_sock'[o] # -1 /\ kfd'[m_sock'[o]].state = "connected"
                      /\ kfd'[m_sock'[o]].peer = m_remoteAddress'[o]
    BY <1>1 DEF ConnectionOf
  <2>1. ok /\ o \notin tangled
    BY <1>3, <1>4 DEF SockTypeOK
  <2>2. ok /\ ~timeout /\ ~kfd[n].err /\ parked[f].woken /\ o \notin tangled
    BY <1>7, <2>1
  <2>3. m_sock[o] = n /\ kfd[n].state = "connected" /\ kfd[n].peer = m_remoteAddress[o]
    BY <1>1, <2>2 DEF SockInv, ConnectsAlone
  <2>4. m_sock' = m_sock /\ kfd' = seen /\ m_remoteAddress' = m_remoteAddress
    BY <1>1, <1>3, <1>9, <1>10, <2>2
  <2> QED
    BY <1>1, <1>5, <1>6, <2>3, <2>4
<1>17. LocalOf(o)'
  <2> SUFFICES ASSUME o \notin stale, m_sock'[o] # -1, m_localAddress'[o] # NoAddress
               PROVE  kfd'[m_sock'[o]].local = m_localAddress'[o]
    BY <1>1, <1>3 DEF LocalOf
  <2>1. ok \/ m_sock[o] = -1
    BY <1>1, <1>3, <1>4 DEF SockTypeOK
  <2>2. m_sock' = m_sock /\ kfd' = seen
    BY <1>1, <1>3, <2>1
  <2>3. m_sock[o] \in SockNumbers /\ ok
    BY <1>1, <1>4, <2>1, <2>2 DEF SockTypeOK
  <2>4. kfd'[m_sock'[o]].local = kfd[m_sock[o]].local
    BY <1>1, <1>6, <2>2, <2>3
  <2> QED
    BY <1>1, <1>13, <2>2, <2>3, <2>4 DEF SockInv, LocalOf
<1>18. GoneIsEmpty(o)'
  BY <1>1, <1>3 DEF GoneIsEmpty
<1>19. ASSUME NEW g \in SockFibers, parked'[g] # NotParked, parked'[g].obj = o
       PROVE  ParkedSound(g)' /\ ConnectsAlone(g)'
  <2>1. g # f /\ parked[g] # NotParked /\ parked[g].obj = o /\ parked'[g].fd = parked[g].fd
    BY <1>1, <1>12, <1>19
  <2>2. o \in tangled'
    BY <1>1, <1>3, <2>1 DEF SockInv, ConnectsAlone, Waits
  <2>3. ParkedSound(g)'
    BY <1>1, <1>3, <1>19, <2>1 DEF SockInv, ParkedSound
  <2> QED
    BY <1>1, <1>19, <2>2, <2>3 DEF ConnectsAlone
<1> QED
  BY <1>1, <1>14, <1>15, <1>16, <1>17, <1>18, <1>19, ObjectStep

LEMMA SockStepInv == SockInv /\ [SockNext]_sockVars => SockInv'
<1> SUFFICES ASSUME SockInv, [SockNext]_sockVars PROVE SockInv'
  OBVIOUS
<1>1. ASSUME UNCHANGED sockVars PROVE SockInv'
  BY <1>1 DEF sockVars, SockInv, SockTypeOK, Owners, ConnectionOf, LocalOf, GoneIsEmpty, ParkedSound,
              ConnectsAlone, Waits
<1>2. ASSUME NEW o \in SockObjects, Create(o) \/ Listen(o) \/ Close(o) \/ Destroy(o) \/ CancelAll(o)
                                      \/ Accept(o) \/ GetLocalAddress(o)
      PROVE  SockInv'
  BY <1>2, CreateInv, ListenInv, CloseInv, DestroyInv, CancelAllInv, AcceptInv, GetLocalAddressInv
<1>3. ASSUME NEW o \in SockObjects, NEW a \in Addresses, Bind(o, a) PROVE SockInv'
  BY <1>3, BindInv
<1>4. ASSUME NEW f \in SockFibers, NEW o \in SockObjects, Reconnect(f, o) PROVE SockInv'
  BY <1>4, ReconnectInv
<1>5. ASSUME NEW f \in SockFibers, NEW o \in SockObjects, NEW a \in Addresses, Connect(f, o, a) PROVE SockInv'
  BY <1>5, ConnectInv
<1>6. ASSUME NEW n \in SockNumbers, Established(n) PROVE SockInv'
  BY <1>6, EstablishedInv
<1>7. ASSUME NEW f \in SockFibers, ConnectReturns(f) PROVE SockInv'
  BY <1>7, ConnectReturnsInv
<1> QED
  BY <1>1, <1>2, <1>3, <1>4, <1>5, <1>6, <1>7 DEF SockNext

-----------------------------------------------------------------------------
(* The handshake of a thread with its owner: what of it has been done at each place. *)
ThreadStarted(o) ==
  /\ owner[o] \in {"none", "thrown"} <=> runner[o] = "none"
  /\ m_count[o] = IF owner[o] = "waiting" /\ runner[o] \in {"calls", "ended"} THEN 1 ELSE 0
  /\ owner[o] \in {"owns", "gone"} => runner[o] \in {"calls", "ended"}
  /\ runner[o] \in {"named", "took", "calls", "ended"} => fields[o].id
  /\ runner[o] \in {"took", "calls", "ended"} => ~fields[o].cb
  /\ runner[o] \in {"named", "took", "calls", "ended"} /\ owner[o] # "gone" => t_name[o] = fields[o].name
  /\ runner[o] \in {"started", "named", "took", "calls"} => fields[o].thread
  /\ o \in touched => owner[o] = "gone" /\ fields[o].thread
ThreadFields == [id : BOOLEAN, cb : BOOLEAN, name : ThreadNames \cup {"none"}, thread : BOOLEAN]
ThreadInv ==
  /\ owner \in [ThreadObjects -> {"none", "thrown", "waiting", "owns", "gone"}]
  /\ runner \in [ThreadObjects -> {"none", "started", "named", "took", "calls", "ended"}]
  /\ fields \in [ThreadObjects -> ThreadFields] /\ m_count \in [ThreadObjects -> Nat]
  /\ t_name \in [ThreadObjects -> ThreadNames \cup {"none", "UNKNOW"}] /\ touched \subseteq ThreadObjects
  /\ \A o \in ThreadObjects : ThreadStarted(o)

LEMMA ThreadInitInv == ThreadInit => ThreadInv
  BY DEF ThreadInit, ThreadInv, ThreadFields, ThreadStarted

(* A step of an object and its thread leaves the others as they were. *)
LEMMA ThreadMove ==
  ASSUME ThreadInv, NEW o \in ThreadObjects, ThreadStarted(o)',
         NEW at \in {"none", "thrown", "waiting", "owns", "gone"}, owner' = [owner EXCEPT ![o] = at],
         NEW run \in {"none", "started", "named", "took", "calls", "ended"}, runner' = [runner EXCEPT ![o] = run],
         NEW has \in ThreadFields, fields' = [fields EXCEPT ![o] = has],
         NEW count \in Nat, m_count' = [m_count EXCEPT ![o] = count],
         NEW called \in ThreadNames \cup {"none", "UNKNOW"}, t_name' = [t_name EXCEPT ![o] = called],
         touched' \in {touched, touched \cup {o}}
  PROVE  ThreadInv'
<1>1. /\ owner' \in [ThreadObjects -> {"none", "thrown", "waiting", "owns", "gone"}]
      /\ runner' \in [ThreadObjects -> {"none", "started", "named", "took", "calls", "ended"}]
      /\ fields' \in [ThreadObjects -> ThreadFields] /\ m_count' \in [ThreadObjects -> Nat]
      /\ t_name' \in [ThreadObjects -> ThreadNames \cup {"none", "UNKNOW"}] /\ touched' \subseteq ThreadObjects
  BY DEF ThreadInv
<1>2. \A p \in ThreadObjects \ {o} :
        /\ owner'[p] = owner[p] /\ runner'[p] = runner[p] /\ fields'[p] = fields[p] /\ m_count'[p] = m_count[p]
        /\ t_name'[p] = t_name[p] /\ (p \in touched' <=> p \in touched)
  BY DEF ThreadInv
<1>3. ASSUME NEW p \in ThreadObjects \ {o} PROVE ThreadStarted(p)'
  BY <1>2 DEF ThreadInv, ThreadStarted
<1> QED
  BY <1>1, <1>3 DEF ThreadInv

LEMMA ThreadStepInv == ThreadInv /\ [ThreadNext]_threadVars => ThreadInv'
<1> SUFFICES ASSUME ThreadInv, [ThreadNext]_threadVars PROVE ThreadInv'
  OBVIOUS
<1>1. ASSUME UNCHANGED threadVars PROVE ThreadInv'
  BY <1>1 DEF threadVars, ThreadInv, ThreadStarted
<1>2. ASSUME NEW o \in ThreadObjects, NEW name \in ThreadNames, Construct(o, name) PROVE ThreadInv'
  <2>1. CASE owner' = [owner EXCEPT ![o] = "thrown"] /\ UNCHANGED <<runner, fields>>
    BY <1>2, <2>1 DEF Construct, ThreadInv, ThreadStarted
  <2>2. CASE /\ owner' = [owner EXCEPT ![o] = "waiting"] /\ runner' = [runner EXCEPT ![o] = "started"]
             /\ fields' = [fields EXCEPT ![o] = [id |-> FALSE, cb |-> TRUE, name |-> name, thread |-> TRUE]]
    <3> DEFINE has == [id |-> FALSE, cb |-> TRUE, name |-> name, thread |-> TRUE]
    <3>1. has \in ThreadFields /\ has.thread
      BY DEF ThreadFields
    <3>2. /\ m_count[o] \in Nat /\ t_name[o] \in ThreadNames \cup {"none", "UNKNOW"} /\ ThreadStarted(o)
      BY DEF ThreadInv
    <3>3. /\ m_count' = [m_count EXCEPT ![o] = m_count[o]] /\ t_name' = [t_name EXCEPT ![o] = t_name[o]]
          /\ touched' = touched /\ fields' = [fields EXCEPT ![o] = has]
      BY <1>2, <2>2 DEF Construct, ThreadInv
    <3> HIDE DEF has
    <3>4. ThreadStarted(o)'
      BY <1>2, <2>2, <3>1, <3>2, <3>3 DEF Construct, ThreadInv, ThreadStarted
    <3> QED
      BY <2>2, <3>1, <3>2, <3>3, <3>4, ThreadMove
  <2> QED
    BY <1>2, <2>1, <2>2 DEF Construct
<1>3. ASSUME NEW o \in ThreadObjects, NEW name \in ThreadNames, SetName(o, name) PROVE ThreadInv'
  BY <1>3 DEF SetName, ThreadInv, ThreadFields, ThreadStarted
<1>4. ASSUME NEW o \in ThreadObjects, Constructed(o) PROVE ThreadInv'
  BY <1>4 DEF Constructed, ThreadInv, ThreadFields, ThreadStarted
<1>5. ASSUME NEW o \in ThreadObjects, NotifyOwner(o) PROVE ThreadInv'
  BY <1>5 DEF NotifyOwner, ThreadInv, ThreadFields, ThreadStarted
<1>6. ASSUME NEW o \in ThreadObjects, Return(o) PROVE ThreadInv'
  BY <1>6 DEF Return, ThreadInv, ThreadFields, ThreadStarted
<1>7. ASSUME NEW o \in ThreadObjects, DestroyThread(o) PROVE ThreadInv'
  BY <1>7 DEF DestroyThread, ThreadInv, ThreadFields, ThreadStarted
<1>8. ASSUME NEW o \in ThreadObjects, Announce(o) PROVE ThreadInv'
  <2> DEFINE has == [fields[o] EXCEPT !.id = TRUE]
  <2>1. /\ owner[o] \in {"none", "thrown", "waiting", "owns", "gone"} /\ fields[o] \in ThreadFields
        /\ runner[o] \in {"none", "started", "named", "took", "calls", "ended"} /\ m_count[o] \in Nat
        /\ t_name[o] \in ThreadNames \cup {"none", "UNKNOW"} /\ ThreadStarted(o)
    BY DEF ThreadInv
  <2>2. has \in ThreadFields /\ has.id = TRUE /\ has.cb = fields[o].cb /\ has.name = fields[o].name /\ has.thread = fields[o].thread
        /\ fields[o].name \in ThreadNames \cup {"none"}
    BY <2>1 DEF ThreadFields
  <2>3. /\ owner' = [owner EXCEPT ![o] = owner[o]] /\ runner' = [runner EXCEPT ![o] = "named"]
        /\ fields' = [fields EXCEPT ![o] = has] /\ m_count' = [m_count EXCEPT ![o] = m_count[o]]
        /\ t_name' = [t_name EXCEPT ![o] = fields[o].name] /\ touched' = touched
    BY <1>8 DEF Announce, ThreadInv
  <2> HIDE DEF has
  <2>4. ThreadStarted(o)'
    BY <1>8, <2>1, <2>2, <2>3 DEF Announce, ThreadInv, ThreadStarted
  <2> QED
    BY <2>1, <2>2, <2>3, <2>4, ThreadMove
<1>9. ASSUME NEW o \in ThreadObjects, TakeCallback(o) PROVE ThreadInv'
  <2> DEFINE has == [fields[o] EXCEPT !.cb = FALSE]
  <2>1. /\ owner[o] \in {"none", "thrown", "waiting", "owns", "gone"} /\ fields[o] \in ThreadFields
        /\ runner[o] \in {"none", "started", "named", "took", "calls", "ended"} /\ m_count[o] \in Nat
        /\ t_name[o] \in ThreadNames \cup {"none", "UNKNOW"} /\ ThreadStarted(o)
    BY DEF ThreadInv
  <2>2. has \in ThreadFields /\ has.cb = FALSE /\ has.id = fields[o].id /\ has.name = fields[o].name /\ has.thread = fields[o].thread
        /\ fields[o].name \in ThreadNames \cup {"none"}
    BY <2>1 DEF ThreadFields
  <2>3. /\ owner' = [owner EXCEPT ![o] = owner[o]] /\ runner' = [runner EXCEPT ![o] = "took"]
        /\ fields' = [fields EXCEPT ![o] = has] /\ m_count' = [m_count EXCEPT ![o] = m_count[o]]
        /\ t_name' = [t_name EXCEPT ![o] = t_name[o]] /\ touched' = touched
    BY <1>9 DEF TakeCallback, ThreadInv
  <2> HIDE DEF has
  <2>4. ThreadStarted(o)'
    BY <1>9, <2>1, <2>2, <2>3 DEF TakeCallback, ThreadInv, ThreadStarted
  <2> QED
    BY <2>1, <2>2, <2>3, <2>4, ThreadMove
<1>10. ASSUME NEW o \in ThreadObjects, Join(o) PROVE ThreadInv'
  <2> DEFINE has == [fields[o] EXCEPT !.thread = FALSE]
  <2>1. /\ owner[o] \in {"none", "thrown", "waiting", "owns", "gone"} /\ fields[o] \in ThreadFields
        /\ runner[o] \in {"none", "started", "named", "took", "calls", "ended"} /\ m_count[o] \in Nat
        /\ t_name[o] \in ThreadNames \cup {"none", "UNKNOW"} /\ ThreadStarted(o)
    BY DEF ThreadInv
  <2>2. has \in ThreadFields /\ has.thread = FALSE /\ has.id = fields[o].id /\ has.cb = fields[o].cb /\ has.name = fields[o].name
        /\ fields[o].name \in ThreadNames \cup {"none"}
    BY <2>1 DEF ThreadFields
  <2>3. /\ owner' = [owner EXCEPT ![o] = owner[o]] /\ runner' = [runner EXCEPT ![o] = runner[o]]
        /\ fields' = [fields EXCEPT ![o] = has] /\ m_count' = [m_count EXCEPT ![o] = m_count[o]]
        /\ t_name' = [t_name EXCEPT ![o] = t_name[o]] /\ touched' = touched
    BY <1>10 DEF Join, ThreadInv
  <2> HIDE DEF has
  <2>4. ThreadStarted(o)'
    BY <1>10, <2>1, <2>2, <2>3 DEF Join, ThreadInv, ThreadStarted
  <2> QED
    BY <2>1, <2>2, <2>3, <2>4, ThreadMove
<1> QED
  BY <1>1, <1>2, <1>3, <1>4, <1>5, <1>6, <1>7, <1>8, <1>9, <1>10 DEF ThreadNext

(* What a Socket says of its descriptor, its connection and its address is so, and once a
   Thread's constructor has returned, the thread does not reach for the object any more, but for
   the named exceptions, for any number of objects, fibers and descriptors (socket.cc, thread.cc). *)
THEOREM ObjectsCorrect == ObjectsSpec => []ObjectsKept
<1>1. SockInv => SocketsKept
  BY DEF SockInv, SocketsKept, ConnectedIsTrue, ConnectionOf, LocalIsTrue, LocalOf
<1>2. ThreadInv => ThreadsKept
  BY DEF ThreadInv, ThreadsKept, ThreadStarted
<1>3. SockInit => SockInv
  BY SockInitInv
<1>4. SockInv /\ [SockNext]_sockVars => SockInv'
  BY SockStepInv
<1>5. ThreadInit => ThreadInv
  BY ThreadInitInv
<1>6. ThreadInv /\ [ThreadNext]_threadVars => ThreadInv'
  BY ThreadStepInv
<1>7. SocketsKept /\ ThreadsKept => ObjectsKept
  BY DEF ObjectsKept
<1> QED
  BY <1>1, <1>2, <1>3, <1>4, <1>5, <1>6, <1>7, PTL DEF ObjectsSpec, SockSpec, ThreadSpec

-----------------------------------------------------------------------------
(* Division by what is not zero. *)
LEMMA DivMod ==
  ASSUME NEW b \in Nat \ {0}, NEW x \in Nat
  PROVE  /\ x \div b \in Nat /\ x % b \in 0 .. b - 1
         /\ x = (x \div b) * b + (x % b)
<1> DEFINE q == x \div b
           r == x % b
<1>1. q \in Int /\ r \in 0 .. b - 1 /\ x = b * q + r
  OBVIOUS
<1> HIDE DEF q, r
<1>2. q <= -1 => b * q <= -b
  BY <1>1
<1>3. b * q \in Int /\ b * q = q * b
  BY <1>1
<1>4. q \in Nat
  BY <1>1, <1>2, <1>3
<1> QED
  BY <1>1, <1>3, <1>4 DEF q, r

-----------------------------------------------------------------------------
(* FileLogAppender. *)

(* What the stream has open follows from what was done to it: a stream that is not good has no
   file open, unless a write has failed on it; and it has had the file at the path since it was
   opened, when nothing has changed there since. *)
StreamFollows ==
  /\ clock \in Nat /\ m_lastTime \in Nat /\ away.since \in Nat /\ lines.time \in Nat
  /\ m_lastTime <= clock /\ away.since <= clock /\ lines.time <= clock
  /\ place = [file |-> place.file, there |-> place.there] /\ place.there \in BOOLEAN
  /\ files \in Nat \ {0} /\ place.file \in Nat \ {0}
  /\ stream = [good |-> stream.good, file |-> stream.file] /\ stream.good \in BOOLEAN
  /\ lines = [time |-> lines.time, file |-> lines.file]
  /\ away = [since |-> away.since, failed |-> away.failed] /\ away.failed \in BOOLEAN
  /\ stream.file = 0 => ~stream.good
  /\ ~stream.good /\ stream.file # 0 <=> away.failed
  /\ ~away.failed /\ place.there /\ m_lastTime > away.since => stream = OpenIn

AppenderInv == StreamFollows /\ LinesKept

LEMMA LogLineKeeps ==
  ASSUME AppenderInv, NEW fails \in BOOLEAN, LogLine(fails)
  PROVE  AppenderInv'
<1> DEFINE reopens == clock >= m_lastTime + 3
           openNow == IF reopens THEN Reopen(stream) ELSE stream
           gotIn == openNow.good /\ ~fails
<1>1. /\ m_lastTime' = IF reopens THEN clock ELSE m_lastTime
      /\ stream' = [openNow EXCEPT !.good = gotIn]
      /\ lines' = [time |-> clock, file |-> IF gotIn THEN openNow.file ELSE 0]
      /\ away' = [away EXCEPT !.failed = @ \/ (openNow.good /\ fails)]
      /\ UNCHANGED <<clock, place, files>>
  BY DEF LogLine
<1>2. /\ openNow = [good |-> openNow.good, file |-> openNow.file] /\ openNow.good \in BOOLEAN
      /\ openNow.file = 0 => ~openNow.good
      /\ ~openNow.good /\ openNow.file # 0 <=> away.failed
  BY DEF AppenderInv, StreamFollows, Reopen, OpenIn
<1>3. ASSUME ~away.failed, place.there, m_lastTime' > away.since
      PROVE  openNow = OpenIn
  BY <1>1, <1>3 DEF AppenderInv, StreamFollows, Reopen, OpenIn
<1>4. /\ stream' = [good |-> gotIn, file |-> openNow.file]
      /\ away' = [since |-> away.since, failed |-> away.failed \/ (openNow.good /\ fails)]
  BY <1>1, <1>2 DEF AppenderInv, StreamFollows
<1>5. openNow = OpenIn => openNow.good /\ openNow.file = place.file
  BY DEF OpenIn
<1> HIDE DEF openNow
<1>6. StreamFollows'
  <2>1. (~stream.good /\ stream.file # 0 <=> away.failed)'
    BY <1>2, <1>4
  <2>2. (~away.failed /\ place.there /\ m_lastTime > away.since => stream = OpenIn)'
    BY <1>1, <1>2, <1>3, <1>4, <1>5 DEF OpenIn
  <2> QED
    BY <1>1, <1>2, <1>4, <2>1, <2>2 DEF AppenderInv, StreamFollows
<1>7. LinesKept'
  <2>1. ASSUME lines'.time = clock', place'.there, clock' >= away'.since + 3, ~away'.failed
        PROVE  lines'.file = place'.file
    <3>1. m_lastTime' > away.since
      BY <1>1, <1>4, <2>1 DEF AppenderInv, StreamFollows
    <3>2. openNow.good /\ openNow.file = place.file /\ ~fails
      BY <1>1, <1>3, <1>4, <1>5, <2>1, <3>1
    <3> QED
      BY <1>1, <3>2
  <2>2. away'.failed => ~stream'.good /\ lines'.file = 0
    BY <1>1, <1>2, <1>4
  <2> QED
    BY <2>1, <2>2 DEF LinesKept
<1> QED
  BY <1>6, <1>7 DEF AppenderInv

LEMMA WorldKeeps ==
  ASSUME AppenderInv, Tick \/ Rotate \/ Away
  PROVE  AppenderInv'
<1>1. CASE Tick
  BY <1>1 DEF AppenderInv, StreamFollows, LinesKept, Tick, OpenIn
<1>2. CASE Rotate
  <2>1. /\ files' = files + 1
        /\ place' = [file |-> files + 1, there |-> place.there]
        /\ away' = [since |-> clock, failed |-> away.failed]
        /\ UNCHANGED <<clock, stream, m_lastTime, lines>>
    BY <1>2 DEF AppenderInv, StreamFollows, Rotate
  <2> QED
    BY <2>1 DEF AppenderInv, StreamFollows, LinesKept, OpenIn
<1>3. CASE Away
  <2>1. /\ place' = [file |-> place.file, there |-> ~place.there]
        /\ away' = [since |-> clock, failed |-> away.failed]
        /\ UNCHANGED <<clock, files, stream, m_lastTime, lines>>
    BY <1>3 DEF AppenderInv, StreamFollows, Away
  <2> QED
    BY <2>1 DEF AppenderInv, StreamFollows, LinesKept, OpenIn
<1> QED
  BY <1>1, <1>2, <1>3

(* A line is in the file at the path once the path has been itself for three seconds, and an
   appender whose write failed writes nothing any more, for every clock and every number of
   renamed files (FileLogAppender::log and reopen, log.cc:421-453). *)
THEOREM LinesCorrect == AppenderSpec => []LinesKept
<1>1. AppenderInit => AppenderInv
  BY DEF AppenderInit, AppenderInv, StreamFollows, LinesKept, OpenIn
<1>2. AppenderInv /\ [AppenderNext]_appenderVars => AppenderInv'
  <2> SUFFICES ASSUME AppenderInv, [AppenderNext]_appenderVars PROVE AppenderInv'
    OBVIOUS
  <2>1. CASE UNCHANGED appenderVars
    BY <2>1 DEF AppenderInv, StreamFollows, LinesKept, OpenIn, appenderVars
  <2>2. CASE AppenderNext
    BY <2>2, LogLineKeeps, WorldKeeps DEF AppenderNext
  <2> QED
    BY <2>1, <2>2
<1>3. AppenderInv => LinesKept
  BY DEF AppenderInv
<1> QED
  BY <1>1, <1>2, <1>3, PTL DEF AppenderSpec

-----------------------------------------------------------------------------
(* Transfers in chunks with a limit to their speed. *)

TransferShape ==
  /\ transfer \in [kind : {"read", "write"}, size : Nat, speed : Nat \ {0}, got : {"running", "true", "false"}]
  /\ offset \in Nat /\ moved \in Nat /\ now \in Nat /\ pause \in Nat
  /\ strm \in [good : BOOLEAN, left : Nat]
  /\ limit \in [sec : Int, count : Nat, seconds : Nat]

(* The bytes behind the stream are those the offset stands for, but for a write that failed. *)
OffsetCounts ==
  /\ offset <= transfer.size /\ moved <= offset
  /\ transfer.kind = "read" \/ strm.good => moved = offset

ReturnsHonestly ==
  /\ transfer.got = "true" => moved = transfer.size \/ (transfer.kind = "write" /\ ~strm.good)
  /\ transfer.got = "false" => moved < transfer.size /\ ~strm.good

(* The ticks that went by in the current second when its last chunk is over, in bytes. *)
Begun == limit.sec * TicksPerSecond
Waited == (pause - Begun) * transfer.speed
(* The bytes that passed before the current second began are those of the whole seconds so far,
   and a chunk and a tick for each second in which one passed; those of the current second are
   its first chunk, or have been waited for.  So they are a chunk more than the second lets
   through, or two chunks that have been waited for. *)
Paced ==
  /\ limit.sec \in Nat /\ limit.seconds >= 1 /\ Begun <= now /\ Begun <= pause /\ limit.count <= offset
  /\ offset - limit.count <= Begun * transfer.speed + (limit.seconds - 1) * (Chunk + transfer.speed)
  /\ limit.count <= Chunk \/ limit.count < Waited + transfer.speed
  /\ \/ limit.count <= TicksPerSecond * transfer.speed + Chunk
     \/ limit.count <= 2 * Chunk /\ limit.count < Waited + transfer.speed
Unpaced == limit.sec = -1 /\ limit.seconds = 0 /\ offset = 0 /\ limit.count = 0

TransferInv == TransferShape /\ OffsetCounts /\ ReturnsHonestly /\ (Unpaced \/ Paced)

(* A product with a natural number is monotone. *)
LEMMA Times ==
  ASSUME NEW k \in Nat, NEW a \in Int, NEW b \in Int
  PROVE  /\ a * k \in Int /\ b * k \in Int /\ (b - a) * k = b * k - a * k
         /\ a <= b => a * k <= b * k
<1>1. a * k \in Int /\ b * k \in Int /\ (b - a) * k = b * k - a * k
  OBVIOUS
<1>2. ASSUME a <= b PROVE a * k <= b * k
  <2>1. b - a \in Nat
    BY <1>2
  <2>2. PICK d \in Nat : d = b - a
    BY <2>1
  <2>3. d * k \in Nat
    OBVIOUS
  <2> QED
    BY <1>1, <2>2, <2>3
<1> QED
  BY <1>1, <1>2

(* A chunk in the second of the last one. *)
LEMMA SameSecond ==
  ASSUME TransferAssumption, TransferInv, Paced, NEW v \in 0..Chunk, now >= pause, Add(v),
         now \div TicksPerSecond = limit.sec,
         offset' = offset + v, UNCHANGED <<transfer, now>>
  PROVE  Paced' /\ pause' \in Nat /\ limit' \in [sec : Int, count : Nat, seconds : Nat]
<1> DEFINE speed == transfer.speed
           count == limit.count + v
           limitms == count \div speed
<1>1. PICK s \in Nat \ {0}, T \in Nat \ {0}, C \in Nat, begun \in Nat, used \in Nat :
        /\ used <= T - 1 /\ s = speed /\ T = TicksPerSecond /\ C = Chunk /\ begun = Begun
        /\ now = begun + used /\ used = now % TicksPerSecond
  <2>1. TicksPerSecond \in Nat \ {0} /\ now \in Nat
    BY DEF TransferAssumption, TransferInv, TransferShape
  <2>2. PICK q \in Nat, r \in 0..(TicksPerSecond - 1) :
          q = now \div TicksPerSecond /\ r = now % TicksPerSecond /\ now = q * TicksPerSecond + r
    BY <2>1, DivMod
  <2>3. q * TicksPerSecond \in Nat
    BY <2>1
  <2>4. transfer.speed \in Nat \ {0} /\ Chunk \in Nat
    BY DEF TransferAssumption, TransferInv, TransferShape
  <2>5. Begun = q * TicksPerSecond
    BY <2>2 DEF Begun
  <2>6. r \in Nat /\ r <= TicksPerSecond - 1
    BY <2>1
  <2> HIDE DEF Begun
  <2> QED
    BY <2>1, <2>2, <2>3, <2>4, <2>5, <2>6
<1>2. PICK c \in Nat, earlier \in Nat : c = limit.count + v /\ earlier = limit.count
  BY DEF TransferInv, TransferShape, TransferAssumption
<1>3. PICK m \in Nat, r \in Nat : m = c \div s /\ r <= s - 1 /\ c = m * s + r
  <2>1. c \div s \in Nat /\ c % s \in 0 .. s - 1 /\ c = (c \div s) * s + (c % s)
    BY DivMod
  <2>2. PICK m \in Nat : m = c \div s
    BY <2>1
  <2>3. PICK r \in Nat : r = c % s
    BY <2>1
  <2>4. r <= s - 1 /\ c = m * s + r
    BY <2>1, <2>2, <2>3
  <2> QED
    BY <2>2, <2>4
<1>4. /\ limit' = [limit EXCEPT !.count = c]
      /\ pause' = IF used < m THEN now + m - used ELSE now
  <2>1. now % TicksPerSecond = used /\ (limit.count + v) \div transfer.speed = m /\ limit.count + v = c
    BY <1>1, <1>2, <1>3
  <2> QED
    BY <2>1 DEF Add
<1>5. /\ limit' = [sec |-> limit.sec, count |-> c, seconds |-> limit.seconds]
      /\ limit.sec \in Int /\ limit.seconds \in Nat
  BY <1>4 DEF TransferInv, TransferShape
<1>6. pause' \in Nat /\ pause' - begun \in Int /\ m <= pause' - begun
  <2>1. now = begun + used
    BY <1>1
  <2>2. pause' = IF used < m THEN begun + m ELSE begun + used
    BY <1>4, <2>1
  <2> QED
    BY <2>2
<1>7. PICK d \in Int : d = pause' - begun
  BY <1>6
<1>8. PICK w \in Int : w = d * s
  OBVIOUS
<1>88. m * s \in Int /\ m * s <= w
  <2>1. m <= d
    BY <1>6, <1>7
  <2> QED
    BY <2>1, <1>8, Times
<1>9. c < w + s
  BY <1>3, <1>88
(* What the second let through before, by the last tick of it. *)
<1>10. earlier <= C \/ earlier <= T * s
  <2>1. CASE earlier < (pause - begun) * s + s
    <3>1. pause - begun \in Int /\ pause - begun <= T - 1
      BY <1>1 DEF TransferInv, TransferShape
    <3>2. (pause - begun) * s <= (T - 1) * s /\ (pause - begun) * s \in Int
      BY <3>1, Times
    <3>3. (T - 1) * s = T * s - s /\ T * s \in Int
      OBVIOUS
    <3> QED
      BY <2>1, <3>2, <3>3
  <2> QED
    BY <1>1, <1>2, <2>1 DEF Paced, Waited
<1>11. T * s \in Nat
  OBVIOUS
<1>12. v \in 0..C
  BY <1>1
<1>13. c <= T * s + C \/ (c <= 2 * C /\ c < w + s)
  BY <1>2, <1>9, <1>10, <1>11, <1>12
<1>14. Begun' = begun /\ Waited' = w /\ transfer'.speed = s
  BY <1>1, <1>5, <1>7, <1>8 DEF Begun, Waited
<1>15. offset' - c = offset - earlier /\ earlier <= offset /\ c <= offset'
  BY <1>2 DEF Paced, TransferInv, TransferShape
<1>16. limit'.sec = limit.sec /\ limit'.count = c /\ limit'.seconds = limit.seconds
  BY <1>5
<1>17. begun <= now' /\ begun <= pause'
  BY <1>1, <1>3, <1>6
<1>18. offset' - c <= begun * s + (limit.seconds - 1) * (C + s)
  BY <1>1, <1>2, <1>15 DEF Paced
<1> QED
  BY <1>1, <1>2, <1>5, <1>6, <1>9, <1>13, <1>14, <1>15, <1>16, <1>17, <1>18 DEF Paced

(* The first chunk of a second: what was waited for reaches into the new second by no more than
   the chunk that was waited for. *)
LEMMA NewSecond ==
  ASSUME TransferAssumption, TransferInv, Paced \/ Unpaced, NEW v \in 0..Chunk, now >= pause, Add(v),
         now \div TicksPerSecond # limit.sec,
         offset' = offset + v, UNCHANGED <<transfer, now>>
  PROVE  Paced' /\ pause' \in Nat /\ limit' \in [sec : Int, count : Nat, seconds : Nat]
<1>1. PICK s \in Nat \ {0}, T \in Nat \ {0}, C \in Nat, q \in Nat, begun \in Nat, used \in Nat :
        /\ used <= T - 1 /\ s = transfer.speed /\ T = TicksPerSecond /\ C = Chunk
        /\ q = now \div TicksPerSecond /\ begun = q * T /\ now = begun + used
  <2>1. TicksPerSecond \in Nat \ {0} /\ now \in Nat
    BY DEF TransferAssumption, TransferInv, TransferShape
  <2>2. PICK q \in Nat, r \in 0..(TicksPerSecond - 1) :
          q = now \div TicksPerSecond /\ r = now % TicksPerSecond /\ now = q * TicksPerSecond + r
    BY <2>1, DivMod
  <2>3. q * TicksPerSecond \in Nat
    BY <2>1
  <2>4. transfer.speed \in Nat \ {0} /\ Chunk \in Nat
    BY DEF TransferAssumption, TransferInv, TransferShape
  <2>5. r \in Nat /\ r <= TicksPerSecond - 1
    BY <2>1
  <2> QED
    BY <2>1, <2>2, <2>3, <2>4, <2>5
<1>2. PICK earlier \in Nat, passed \in Nat, n \in Nat :
        earlier = limit.count /\ passed = offset /\ n = limit.seconds
  BY DEF TransferInv, TransferShape
<1>3. limit' = [sec |-> q, count |-> v, seconds |-> n + 1] /\ pause' = now
  BY <1>1, <1>2 DEF Add
<1>4. Begun' = begun
  BY <1>1, <1>3 DEF Begun
<1>5. n * (C + s) \in Int /\ begun * s \in Int /\ T * s \in Int
  OBVIOUS
<1>6. passed <= begun * s + n * (C + s)
  <2>1. CASE Unpaced
    <3>1. passed = 0 /\ begun * s \in Nat /\ n * (C + s) \in Nat
      BY <1>2, <2>1 DEF Unpaced
    <3> QED
      BY <3>1
  <2>2. CASE Paced
    <3>1. PICK old \in Nat, till \in Nat : /\ old = Begun /\ till = pause
      BY <2>2, <1>1 DEF Paced, Begun, TransferInv, TransferShape
    <3>2. old + T <= begun
      <4>1. limit.sec \in Nat /\ limit.sec * T = old /\ old <= begun + used
        BY <1>1, <2>2, <3>1 DEF Paced, Begun
      <4>2. limit.sec # q
        BY <1>1
      <4>3. q + 1 <= limit.sec => (q + 1) * T <= limit.sec * T
        BY <4>1, Times
      <4>4. limit.sec + 1 <= q => (limit.sec + 1) * T <= q * T
        BY <4>1, Times
      <4>5. (q + 1) * T = begun + T /\ (limit.sec + 1) * T = old + T
        BY <1>1, <4>1
      <4>6. ~(q + 1 <= limit.sec)
        BY <1>1, <4>1, <4>3, <4>5
      <4> QED
        BY <1>1, <4>1, <4>2, <4>4, <4>5, <4>6
    <3>3. old <= till /\ till <= begun + used
      BY <1>1, <2>2, <3>1 DEF Paced
    <3>4. PICK w \in Int, o \in Int, b \in Int, t \in Int, ts \in Int :
            /\ w = (till - old) * s /\ o = old * s /\ b = begun * s /\ t = till * s /\ ts = T * s
      OBVIOUS
    <3>5. w = t - o /\ o + ts <= b
      <4>1. (till - old) * s = till * s - old * s /\ (old + T) * s = old * s + T * s
        OBVIOUS
      <4>2. (old + T) * s <= begun * s
        BY <3>2, Times
      <4> QED
        BY <3>4, <4>1, <4>2
    <3>6. t <= b + ts - s
      <4>1. till <= begun + (T - 1)
        BY <1>1, <3>3
      <4>2. till * s <= (begun + (T - 1)) * s
        BY <4>1, Times
      <4>3. (begun + (T - 1)) * s = begun * s + T * s - s
        OBVIOUS
      <4> QED
        BY <3>4, <4>2, <4>3
    <3>7. PICK m \in Int : m = (n - 1) * (C + s)
      BY <1>2
    <3>8. n * (C + s) = m + C + s
      BY <3>7
    <3>9. passed - earlier <= o + m
      BY <1>1, <1>2, <2>2, <3>1, <3>4, <3>7 DEF Paced
    <3>10. earlier <= ts + C \/ (earlier <= 2 * C /\ earlier < w + s)
      BY <1>1, <1>2, <2>2, <3>1, <3>4 DEF Paced, Waited
    <3>11. passed <= b + m + C + s
      BY <3>5, <3>6, <3>9, <3>10
    <3> QED
      BY <3>4, <3>8, <3>11
  <2> QED
    BY <2>1, <2>2
<1>7. limit'.sec = q /\ limit'.count = v /\ limit'.seconds = n + 1 /\ transfer'.speed = s
  BY <1>1, <1>3
<1>8. v <= C /\ v <= T * s + C /\ v \in Nat
  <2>1. T * s \in Nat
    OBVIOUS
  <2> QED
    BY <1>1, <2>1
<1>9. /\ offset' = passed + v /\ (n + 1) - 1 = n
      /\ offset' - v <= begun * s + n * (C + s)
  BY <1>2, <1>5, <1>6, <1>8
<1>10. begun <= now' /\ begun <= pause' /\ pause' \in Nat
  BY <1>1, <1>3
<1>11. Paced'
  BY <1>1, <1>2, <1>4, <1>7, <1>8, <1>9, <1>10 DEF Paced
<1> QED
  BY <1>3, <1>8, <1>10, <1>11

LEMMA ChunkPaced ==
  ASSUME TransferAssumption, TransferInv, NEW v \in 0..Chunk, now >= pause, Add(v),
         offset' = offset + v, UNCHANGED <<transfer, now>>
  PROVE  Paced' /\ pause' \in Nat /\ limit' \in [sec : Int, count : Nat, seconds : Nat]
<1>1. CASE now \div TicksPerSecond # limit.sec
  BY <1>1, NewSecond DEF TransferInv
<1>2. CASE now \div TicksPerSecond = limit.sec
  <2>1. now \div TicksPerSecond \in Nat
    BY DivMod DEF TransferAssumption, TransferInv, TransferShape
  <2>2. Paced
    BY <1>2, <2>1 DEF TransferInv, Unpaced
  <2> QED
    BY <1>2, <2>2, SameSecond
<1> QED
  BY <1>1, <1>2

LEMMA LengthIs ==
  ASSUME TransferAssumption, TransferInv, offset < transfer.size
  PROVE  Length \in 0..Chunk /\ Length \in Nat /\ offset + Length <= transfer.size
BY DEF TransferAssumption, TransferInv, TransferShape, Length, Minimum

LEMMA WriteChunkKeeps ==
  ASSUME TransferAssumption, TransferInv, WriteChunk
  PROVE  TransferInv'
<1>1. PICK v \in 0..Chunk, n \in 0..Length :
        /\ v = Length /\ offset' = offset + v /\ offset + v <= transfer.size
        /\ moved' = moved + n /\ n <= v /\ strm' = [strm EXCEPT !.good = n = v]
        /\ Add(v) /\ UNCHANGED <<transfer, now>>
        /\ transfer.got = "running" /\ now >= pause /\ transfer.kind = "write" /\ strm.good
  <2>1. Length \in 0..Chunk /\ offset + Length <= transfer.size
    BY LengthIs DEF WriteChunk
  <2>2. PICK n \in 0..Length : moved' = moved + n /\ strm' = [strm EXCEPT !.good = n = Length]
    BY DEF WriteChunk
  <2>3. n <= Length
    BY <2>1, <2>2
  <2> HIDE DEF Length
  <2> QED
    BY <2>1, <2>2, <2>3 DEF WriteChunk, Runs
<1>2. n \in Nat /\ v \in Nat
  BY <1>1 DEF TransferAssumption
<1>3. strm' = [good |-> n = v, left |-> strm.left]
  BY <1>1 DEF TransferInv, TransferShape
<1>4. Paced' /\ pause' \in Nat /\ limit' \in [sec : Int, count : Nat, seconds : Nat]
  BY <1>1, ChunkPaced
<1>5. moved = offset /\ moved \in Nat /\ offset \in Nat
  BY <1>1 DEF TransferInv, TransferShape, OffsetCounts
<1>6. TransferShape'
  <2>1. moved' \in Nat /\ offset' \in Nat
    BY <1>1, <1>2, <1>5
  <2>2. strm' \in [good : BOOLEAN, left : Nat]
    BY <1>3 DEF TransferInv, TransferShape
  <2> QED
    BY <1>1, <1>4, <2>1, <2>2 DEF TransferInv, TransferShape
<1>7. OffsetCounts'
  <2>1. strm'.good => n = v
    BY <1>3
  <2>2. offset' <= transfer'.size /\ moved' <= offset' /\ (n = v => moved' = offset')
    <3>1. offset' = offset + v /\ moved' = moved + n /\ n <= v /\ offset + v <= transfer.size
          /\ transfer' = transfer
      BY <1>1
    <3> QED
      BY <1>2, <1>5, <3>1
  <2> QED
    BY <1>1, <2>1, <2>2 DEF OffsetCounts
<1> QED
  BY <1>1, <1>4, <1>6, <1>7 DEF TransferInv, ReturnsHonestly

LEMMA ReadChunkKeeps ==
  ASSUME TransferAssumption, TransferInv, ReadChunk
  PROVE  TransferInv'
<1>1. PICK n \in 0..Chunk :
        /\ n \in Nat /\ offset' = offset + n /\ offset + n <= transfer.size /\ moved' = moved + n
        /\ n <= strm.left /\ strm' = [good |-> n = Length, left |-> strm.left - n]
        /\ Add(n) /\ UNCHANGED <<transfer, now>>
        /\ transfer.got = "running" /\ now >= pause /\ transfer.kind = "read"
  <2>1. Length \in 0..Chunk /\ Length \in Nat /\ offset + Length <= transfer.size
    BY LengthIs DEF ReadChunk
  <2>2. PICK n \in Nat : n = Minimum(Length, strm.left) /\ n <= Length /\ n <= strm.left
    BY <2>1 DEF TransferInv, TransferShape, Minimum
  <2>3. n \in 0..Chunk /\ offset + n <= transfer.size
    BY <2>1, <2>2 DEF TransferInv, TransferShape, TransferAssumption
  <2> HIDE DEF Length
  <2> QED
    BY <2>2, <2>3 DEF ReadChunk, Runs
<1>2. Paced' /\ pause' \in Nat /\ limit' \in [sec : Int, count : Nat, seconds : Nat]
  BY <1>1, ChunkPaced
<1>3. TransferShape'
  <2>1. moved' \in Nat /\ offset' \in Nat
    BY <1>1 DEF TransferInv, TransferShape
  <2>2. strm' \in [good : BOOLEAN, left : Nat]
    <3>1. strm.left \in Nat /\ strm.left - n \in Nat
      BY <1>1 DEF TransferInv, TransferShape
    <3> QED
      BY <1>1, <3>1
  <2> QED
    BY <1>1, <1>2, <2>1, <2>2 DEF TransferInv, TransferShape
<1>4. OffsetCounts'
  <2>1. moved = offset /\ moved \in Nat /\ offset \in Nat
    BY <1>1 DEF TransferInv, TransferShape, OffsetCounts
  <2> QED
    BY <1>1, <2>1 DEF OffsetCounts
<1> QED
  BY <1>1, <1>2, <1>3, <1>4 DEF TransferInv, ReturnsHonestly

LEMMA TransferRests ==
  ASSUME TransferAssumption, TransferInv, Finish \/ Pass
  PROVE  TransferInv'
<1>1. CASE Finish
  <2>1. /\ transfer' = [transfer EXCEPT !.got = IF offset = transfer.size THEN "true" ELSE "false"]
        /\ UNCHANGED <<offset, moved, strm, now, limit, pause>> /\ ~(strm.good /\ offset < transfer.size)
    BY <1>1 DEF Finish
  <2>2. transfer' = [kind |-> transfer.kind, size |-> transfer.size, speed |-> transfer.speed,
                     got |-> IF offset = transfer.size THEN "true" ELSE "false"]
    BY <2>1 DEF TransferInv, TransferShape
  <2>3. TransferShape' /\ OffsetCounts'
    BY <2>1, <2>2 DEF TransferInv, TransferShape, OffsetCounts
  <2>4. ReturnsHonestly'
    BY <2>1, <2>2 DEF TransferInv, TransferShape, OffsetCounts, ReturnsHonestly
  <2>5. UNCHANGED <<transfer.speed, Begun, Waited>>
    BY <2>1, <2>2 DEF Begun, Waited
  <2>6. (Unpaced \/ Paced)'
    BY <2>1, <2>5 DEF TransferInv, Unpaced, Paced
  <2> QED
    BY <2>3, <2>4, <2>6 DEF TransferInv
<1>2. CASE Pass
  <2>1. now' = now + 1 /\ UNCHANGED <<transfer, offset, moved, strm, limit, pause>>
    BY <1>2 DEF Pass
  <2>2. UNCHANGED <<Begun, Waited>>
    BY <2>1 DEF Begun, Waited
  <2>3. Begun <= now /\ Paced => Begun <= now + 1
    BY DEF Begun, Paced, TransferAssumption, TransferInv, TransferShape
  <2>4. (Unpaced \/ Paced)'
    BY <2>1, <2>2, <2>3 DEF TransferInv, Unpaced, Paced
  <2>5. TransferShape'
    BY <2>1 DEF TransferInv, TransferShape
  <2> QED
    BY <2>1, <2>4, <2>5 DEF TransferInv, OffsetCounts, ReturnsHonestly
<1> QED
  BY <1>1, <1>2

LEMMA TransferHonest == TransferAssumption /\ TransferInv => TransfersHonest
<1> SUFFICES ASSUME TransferAssumption, TransferInv, now >= pause
             PROVE  offset <= now * transfer.speed + limit.seconds * (Chunk + transfer.speed)
  BY DEF TransferInv, ReturnsHonestly, TransfersHonest
<1>1. PICK s \in Nat \ {0}, C \in Nat, n \in Nat, t \in Nat, earlier \in Nat, passed \in Nat, till \in Nat :
        /\ s = transfer.speed /\ C = Chunk /\ n = limit.seconds /\ t = now
        /\ earlier = limit.count /\ passed = offset /\ till = pause
  BY DEF TransferAssumption, TransferInv, TransferShape
<1>2. t * s \in Nat /\ n * (C + s) \in Nat
  OBVIOUS
<1>3. CASE Unpaced
  BY <1>1, <1>2, <1>3 DEF Unpaced
<1>4. CASE Paced
  <2>1. PICK begun \in Nat : begun = Begun
    BY <1>4 DEF Paced, Begun, TransferAssumption
  <2>2. begun * s \in Nat /\ till * s \in Nat
    OBVIOUS
  <2>3. begun <= till /\ till <= t
    BY <1>1, <1>4, <2>1 DEF Paced
  <2>4. begun * s <= till * s /\ till * s <= t * s /\ (till - begun) * s = till * s - begun * s
    BY <2>3, Times
  <2>5. (n - 1) * (C + s) \in Int /\ n * (C + s) = (n - 1) * (C + s) + C + s
    OBVIOUS
  <2>6. passed - earlier <= begun * s + (n - 1) * (C + s)
    BY <1>1, <1>4, <2>1 DEF Paced
  <2>7. earlier <= C \/ earlier < (till - begun) * s + s
    BY <1>1, <1>4, <2>1 DEF Paced, Waited
  <2>8. passed <= t * s + n * (C + s)
    BY <1>2, <2>2, <2>4, <2>5, <2>6, <2>7
  <2> QED
    BY <1>1, <2>8
<1> QED
  BY <1>3, <1>4 DEF TransferInv

(* A transfer returns true when every byte passed, but for a write whose last chunk fails, and
   false when some did not; and it is never ahead of its speed by more than a chunk and a tick
   for each second in which a chunk passed: for every speed, size of a chunk and length of a
   second, and whenever the stream fails (WriteFixToStreamWithSpeed, SpeedLimit::add, util.cc:806-870). *)
THEOREM TransfersCorrect == TransferSpec => []TransfersHonest
<1> USE TransferAssumption
<1>1. TransferInit => TransferInv
  <2> SUFFICES ASSUME TransferInit PROVE TransferInv
    OBVIOUS
  <2>1. transfer \in [kind : {"read", "write"}, size : Sizes, speed : Speeds, got : {"running"}]
    BY DEF TransferInit
  <2>2. TransferShape
    <3>1. TicksPerSecond \in Nat \ {0} /\ Sizes \subseteq Nat /\ Speeds \subseteq Nat \ {0}
      BY DEF TransferAssumption
    <3>2. /\ transfer \in [kind : {"read", "write"}, size : Nat, speed : Nat \ {0}, got : {"running", "true", "false"}]
          /\ strm \in [good : BOOLEAN, left : Nat]
      <4>1. strm \in [good : {TRUE}, left : {0} \cup Sizes]
        BY DEF TransferInit
      <4>2. {"running"} \subseteq {"running", "true", "false"} /\ {0} \cup Sizes \subseteq Nat
        BY <3>1
      <4>3. strm \in [good : BOOLEAN, left : Nat]
        BY <4>1, <4>2
      <4>4. /\ transfer = [kind |-> transfer.kind, size |-> transfer.size, speed |-> transfer.speed,
                           got |-> transfer.got]
            /\ transfer.kind \in {"read", "write"} /\ transfer.got = "running"
            /\ transfer.size \in Sizes /\ transfer.speed \in Speeds
        BY <2>1
      <4>5. transfer.size \in Nat /\ transfer.speed \in Nat \ {0}
        BY <3>1, <4>4
      <4> QED
        BY <4>3, <4>4, <4>5
    <3>3. now \in Nat /\ offset \in Nat /\ moved \in Nat /\ pause \in Nat
      BY <3>1 DEF TransferInit
    <3> QED
      BY <3>2, <3>3 DEF TransferInit, TransferShape
  <2>3. offset = 0 /\ moved = 0 /\ limit = [sec |-> -1, count |-> 0, seconds |-> 0]
    BY DEF TransferInit
  <2>4. OffsetCounts /\ ReturnsHonestly /\ Unpaced
    BY <2>1, <2>2, <2>3 DEF TransferShape, OffsetCounts, ReturnsHonestly, Unpaced
  <2> QED
    BY <2>2, <2>4 DEF TransferInv
<1>2. TransferInv /\ [TransferNext]_transferVars => TransferInv'
  <2> SUFFICES ASSUME TransferInv, [TransferNext]_transferVars PROVE TransferInv'
    OBVIOUS
  <2>1. CASE UNCHANGED transferVars
    BY <2>1 DEF TransferInv, TransferShape, OffsetCounts, ReturnsHonestly, Unpaced, Paced, Begun, Waited,
                transferVars
  <2>2. CASE TransferNext
    BY <2>2, WriteChunkKeeps, ReadChunkKeeps, TransferRests DEF TransferNext
  <2> QED
    BY <2>1, <2>2
<1>3. TransferInv => TransfersHonest
  BY TransferHonest
<1> QED
  BY <1>1, <1>2, <1>3, PTL DEF TransferSpec

-----------------------------------------------------------------------------
(* FSUtil.  A tree that can be. *)
TreeOK(tr) == tr \in [FsPaths -> FsKinds] /\ Standing(tr)
(* Rm cannot remove what leads to a socket. *)
Kept(tr, q) == \E s \in FsPaths : tr[s] = "sock" /\ IsPrefix(q, s)
(* Something that is no directory is on the way to the path. *)
BlockedAt(tr, p) == \E q \in FsPaths : IsStrictPrefix(q, p) /\ tr[q] \notin {Nothing, "dir"}

RemovingOps == {"Rm", "Mv", "Symlink"}
RmPcs == {"rm", "unlinkstat", "unlink", "opendir"}
MkdirPcs == {"lstat", "access", "mkdir", "open", "reopen"}
FsEnded == FsAt("done", 0, <<>>, <<>>)
RmFrames == [path : FsPaths, left : SUBSET FsPaths, ret : BOOLEAN]

(* The calls of Rm under way go down from the path of the first, each into an entry that the one
   before has not got left; so does the path that is looked at. *)
FramesOK(fr, p) ==
  /\ fr \in Seq(RmFrames)
  /\ fr # <<>> => fr[1].path = p
  /\ \A i \in 1..Len(fr) : IsPrefix(p, fr[i].path) /\ \A d \in fr[i].left : Front(d) = fr[i].path
  /\ \A i, j \in 1..Len(fr) :
       i < j => /\ IsStrictPrefix(fr[i].path, fr[j].path)
                /\ \A d \in fr[i].left : ~IsPrefix(d, fr[j].path)
LedTo(fr, p, x) ==
  /\ x \in FsPaths /\ IsPrefix(p, x)
  /\ fr = <<>> => x = p
  /\ \A i \in 1..Len(fr) : IsStrictPrefix(fr[i].path, x) /\ \A d \in fr[i].left : ~IsPrefix(d, x)

CreatingAt(at, c, m) ==
  /\ c.op \in Creating /\ at.pc \in MkdirPcs /\ at.frames = <<>> /\ at.depth \in 0..Len(m)
  /\ at.pc \in {"open", "reopen"} => c.op = "Open"
  /\ at.pc \in {"access", "mkdir"} => at.depth \in 1..Len(m)
RemovingAt(at, c) ==
  /\ c.op \in RemovingOps /\ at.depth = 0 /\ FramesOK(at.frames, c.path)
  /\ \/ at.pc \in RmPcs /\ LedTo(at.frames, c.path, at.path)
     \/ at.pc = "readdir" /\ at.frames # <<>>
     \/ at.pc = "rename" /\ at.frames = <<>> /\ c.op # "Rm"
FsPlace(t) ==
  \/ fsAt[t] = FsOut /\ fsCall[t] = NoCall
  \/ /\ fsCall[t] \in FsCalls
     /\ fsAt[t] = FsEnded \/ CreatingAt(fsAt[t], fsCall[t], MkdirPath(t)) \/ RemovingAt(fsAt[t], fsCall[t])

FsShape ==
  /\ TreeOK(tree) /\ TreeOK(before)
  /\ fsCall \in [FsThreads -> FsCalls \cup {NoCall}] /\ DOMAIN fsAt = FsThreads
  /\ fsAnswer \in [FsThreads -> BOOLEAN] /\ overlapped \cup lostRace \subseteq FsThreads
  /\ \A t \in FsThreads : FsPlace(t)
  /\ \A t \in lostRace : fsAt[t].pc \in {"reopen", "done"}

(* Removing.  What is there below the path and can go is still to be looked at. *)
FrOwed(fr, q) == \E i \in 1..Len(fr) : q = fr[i].path \/ \E d \in fr[i].left : IsPrefix(d, q)
Owed(at, q) == (at.pc \in RmPcs /\ IsPrefix(at.path, q)) \/ FrOwed(at.frames, q)
OnlyRemove == \A t \in FsThreads : fsCall[t].op \in {"none", "Rm"}
Alone(t) == \A u \in FsThreads \ {t} : fsAt[u].pc = "out"
Quiet(t) == OnlyRemove \/ Alone(t)
Removes(t) == fsCall[t].op \in RemovingOps /\ (Ended(t) => fsCall[t].op = "Rm")
RmKnows(tr, at) ==
  /\ at.pc \in {"unlinkstat", "unlink"} => tr[at.path] \notin LooksLikeDir
  /\ at.pc = "opendir" => tr[at.path] \in LooksLikeDir \cup {Nothing}
  /\ \A i \in 1..Len(at.frames) : tr[at.frames[i].path] \in {"dir", Nothing}
RmPends(tr, at, p) == \A q \in FsPaths : IsPrefix(p, q) /\ tr[q] # Nothing => Kept(tr, q) \/ Owed(at, q)
RemovingInv ==
  /\ \A t \in FsThreads : Removes(t) /\ Quiet(t) =>
       RmKnows(tree, fsAt[t]) /\ RmPends(tree, fsAt[t], fsCall[t].path)
  /\ OnlyRemove => \A q \in FsPaths : tree[q] \in {before[q], Nothing}

(* Alone. *)
CutAt(tr, b, p) ==
  \A q \in FsPaths : /\ tr[q] = b[q] \/ (tr[q] = Nothing /\ IsPrefix(p, q))
                     /\ b[q] = "sock" => tr[q] = "sock"
RmAlone(tr, b, at, p) ==
  /\ CutAt(tr, b, p)
  /\ at.pc \in {"unlinkstat", "unlink"} => tr[at.path] # Nothing
  /\ at.pc = "opendir" => tr[at.path] # Nothing
  /\ \A i \in 1..Len(at.frames) :
       tr[at.frames[i].path] = "dir" /\ (~at.frames[i].ret => Kept(tr, at.frames[i].path))
  /\ at.pc = "rename" => ~Kept(tr, p)
GrownAt(tr, b, m, depth) ==
  /\ ~Exists(b, m)
  /\ \A q \in FsPaths :
       \/ tr[q] = b[q]
       \/ b[q] = Nothing /\ tr[q] = "dir" /\ IsPrefix(q, m) /\ Len(q) < depth
  /\ \A k \in 1..(depth - 1) : tr[SubSeq(m, 1, k)] # Nothing
MkdirAlone(tr, b, at, c, m) ==
  /\ at.pc \in {"open", "lstat"} => tr = b
  /\ at.pc # "open" /\ c.op = "Open" => ~CanOpen(b, c.path)
  /\ at.pc \in {"access", "mkdir"} => GrownAt(tr, b, m, at.depth)
  /\ at.pc = "mkdir" => ~Exists(tr, SubSeq(m, 1, at.depth))
  /\ at.pc = "reopen" => tr = Made(b, m).tree
AloneInv ==
  \A t \in FsThreads : Alone(t) =>
    /\ fsAt[t].pc \in RmPcs \cup {"readdir", "rename"} => RmAlone(tree, before, fsAt[t], fsCall[t].path)
    /\ fsAt[t].pc \in MkdirPcs => MkdirAlone(tree, before, fsAt[t], fsCall[t], MkdirPath(t))
    /\ Ended(t) => [tree |-> tree, ok |-> fsAnswer[t]] = Meaning(fsCall[t], before)

(* Creating. *)
OnlyCreate == \A t \in FsThreads : fsCall[t].op \in {"none"} \cup Creating
Refused(t) ==
  \/ BlockedAt(tree, fsCall[t].path)
  \/ fsCall[t].op = "Open" /\ tree[fsCall[t].path] \in LooksLikeDir
CreatedOK(t) ==
  /\ Ended(t) /\ fsAnswer[t] =>
       Exists(tree, fsCall[t].path) /\ (fsCall[t].op = "Open" => tree[fsCall[t].path] = "new")
  /\ Ended(t) /\ ~fsAnswer[t] /\ t \notin lostRace => Refused(t)
  /\ fsAt[t].pc \in {"access", "mkdir"} =>
       \A k \in 1..(fsAt[t].depth - 1) : Exists(tree, SubSeq(MkdirPath(t), 1, k))
  /\ fsAt[t].pc = "reopen" /\ t \notin lostRace => Exists(tree, MkdirPath(t)) \/ BlockedAt(tree, MkdirPath(t))
Winner(t) ==
  \/ t \notin lostRace /\ (fsAt[t].pc = "mkdir" => ~Exists(tree, MkdirPrefix(t)))
  \/ Ended(t) /\ fsAnswer[t]
CreatingInv == OnlyCreate => (\A t \in FsThreads : Ended(t) \/ fsAt[t].pc \in MkdirPcs => CreatedOK(t)) /\ \E t \in FsThreads : Winner(t)

FsInv == FsShape /\ RemovingInv /\ AloneInv /\ CreatingInv

(* A path is a prefix of another one as far as its names go. *)
LEMMA PrefixIs ==
  ASSUME NEW p \in Seq(FsNames), NEW q \in Seq(FsNames)
  PROVE  /\ Len(p) \in Nat /\ Len(q) \in Nat
         /\ IsPrefix(p, q) <=> Len(p) <= Len(q) /\ \A i \in 1..Len(p) : p[i] = q[i]
<1>1. Len(p) \in Nat /\ Len(q) \in Nat
  BY LenProperties
<1>2. SubSeq(p, 1, Len(p)) = p
  BY SubSeqFull
<1>3. ASSUME Len(p) <= Len(q)
      PROVE  /\ SubSeq(q, 1, Len(p)) \in Seq(FsNames) /\ Len(SubSeq(q, 1, Len(p))) = Len(p)
             /\ \A i \in 1..Len(p) : SubSeq(q, 1, Len(p))[i] = q[i]
  <2>1. \A i \in 1..Len(p) : q[i] \in FsNames
    BY <1>1, <1>3, ElementOfSeq
  <2> QED
    BY <1>1, <2>1, SubSeqProperties, Zenon, SMT
<1>4. ASSUME Len(p) <= Len(q), \A i \in 1..Len(p) : p[i] = q[i] PROVE p = SubSeq(q, 1, Len(p))
  BY <1>1, <1>3, <1>4, SeqEqual
<1> QED
  BY <1>1, <1>2, <1>3, <1>4 DEF IsPrefix

LEMMA PrefixOrder ==
  ASSUME NEW p \in Seq(FsNames), NEW q \in Seq(FsNames), NEW r \in Seq(FsNames)
  PROVE  /\ IsPrefix(p, p)
         /\ IsPrefix(p, q) /\ IsPrefix(q, r) => IsPrefix(p, r)
         /\ IsPrefix(p, q) /\ IsPrefix(q, p) => p = q
         /\ IsPrefix(p, r) /\ IsPrefix(q, r) => IsPrefix(p, q) \/ IsPrefix(q, p)
         /\ IsPrefix(p, r) /\ IsPrefix(q, r) /\ Len(p) = Len(q) => p = q
         /\ IsPrefix(p, q) => Len(p) <= Len(q) /\ (Len(p) = Len(q) => p = q)
<1>1. Len(p) \in Nat /\ Len(q) \in Nat /\ Len(r) \in Nat
  BY LenProperties
<1>2. /\ IsPrefix(p, p)
      /\ IsPrefix(p, q) <=> Len(p) <= Len(q) /\ \A i \in 1..Len(p) : p[i] = q[i]
      /\ IsPrefix(q, p) <=> Len(q) <= Len(p) /\ \A i \in 1..Len(q) : q[i] = p[i]
      /\ IsPrefix(p, r) <=> Len(p) <= Len(r) /\ \A i \in 1..Len(p) : p[i] = r[i]
      /\ IsPrefix(q, r) <=> Len(q) <= Len(r) /\ \A i \in 1..Len(q) : q[i] = r[i]
  BY PrefixIs
<1>3. IsPrefix(p, q) /\ Len(p) = Len(q) => p = q
  BY <1>2, SeqEqual
<1>4. IsPrefix(p, q) /\ IsPrefix(q, r) => IsPrefix(p, r)
  BY <1>1, <1>2
<1>5. IsPrefix(p, r) /\ IsPrefix(q, r) => IsPrefix(p, q) \/ IsPrefix(q, p)
  BY <1>1, <1>2
<1> QED
  BY <1>1, <1>2, <1>3, <1>4, <1>5

(* The directory of a path. *)
LEMMA ParentIs ==
  ASSUME NEW q \in Seq(FsNames), q # <<>>
  PROVE  /\ Front(q) \in Seq(FsNames) /\ Len(Front(q)) = Len(q) - 1 /\ Len(q) \in Nat \ {0}
         /\ IsPrefix(Front(q), q) /\ Front(q) # q
         /\ \A p \in Seq(FsNames) : IsStrictPrefix(p, q) => IsPrefix(p, Front(q))
<1>1. Len(q) \in Nat \ {0}
  BY EmptySeq, LenProperties
<1>2. \A i \in 1..(Len(q) - 1) : q[i] \in FsNames
  BY <1>1, ElementOfSeq
<1>3. /\ Front(q) \in Seq(FsNames) /\ Len(Front(q)) = Len(q) - 1
      /\ \A i \in 1..(Len(q) - 1) : Front(q)[i] = q[i]
  <2>1. /\ SubSeq(q, 1, Len(q) - 1) \in Seq(FsNames)
        /\ Len(SubSeq(q, 1, Len(q) - 1)) = Len(q) - 1
        /\ \A i \in 1..(Len(q) - 1) : SubSeq(q, 1, Len(q) - 1)[i] = q[i]
    <3> DEFINE n == Len(q) - 1
    <3>1. n \in Nat /\ \A i \in 1..n : q[i] \in FsNames
      BY <1>1, <1>2
    <3> HIDE DEF n
    <3>2. /\ SubSeq(q, 1, n) \in Seq(FsNames)
          /\ Len(SubSeq(q, 1, n)) = IF 1 <= n THEN n - 1 + 1 ELSE 0
          /\ \A i \in 1..(n - 1 + 1) : SubSeq(q, 1, n)[i] = q[1 + i - 1]
      BY <3>1, SubSeqProperties
    <3>3. \A i \in 1..n : SubSeq(q, 1, n)[i] = q[i]
      BY <3>1, <3>2
    <3>4. Len(SubSeq(q, 1, n)) = n
      BY <3>1, <3>2
    <3> QED
      BY <3>2, <3>3, <3>4 DEF n
  <2> QED
    BY <2>1 DEF Front
<1>4. IsPrefix(Front(q), q)
  BY <1>1, <1>3, PrefixIs
<1>5. ASSUME NEW p \in Seq(FsNames), IsStrictPrefix(p, q) PROVE IsPrefix(p, Front(q))
  <2>1. IsPrefix(p, q) /\ p # q
    BY <1>5 DEF IsStrictPrefix
  <2>2. Len(p) \in Nat /\ Len(p) <= Len(q) /\ Len(p) # Len(q) /\ \A i \in 1..Len(p) : p[i] = q[i]
    BY <2>1, PrefixIs, PrefixOrder
  <2> QED
    BY <1>1, <1>3, <2>2, PrefixIs
<1> QED
  BY <1>1, <1>3, <1>4, <1>5

(* The first k names of a path. *)
LEMMA PrefixOf ==
  ASSUME NEW q \in Seq(FsNames), NEW k \in 0..Len(q)
  PROVE  /\ SubSeq(q, 1, k) \in Seq(FsNames) /\ Len(SubSeq(q, 1, k)) = k /\ IsPrefix(SubSeq(q, 1, k), q)
         /\ k = Len(q) => SubSeq(q, 1, k) = q
         /\ k # 0 => SubSeq(q, 1, k) # <<>> /\ Front(SubSeq(q, 1, k)) = SubSeq(q, 1, k - 1)
         /\ \A p \in Seq(FsNames) : IsPrefix(p, q) /\ Len(p) = k => p = SubSeq(q, 1, k)
<1>1. Len(q) \in Nat /\ k \in Nat /\ k <= Len(q)
  BY LenProperties
<1>2. ASSUME NEW n \in 0..Len(q)
      PROVE  /\ SubSeq(q, 1, n) \in Seq(FsNames) /\ Len(SubSeq(q, 1, n)) = n
             /\ \A i \in 1..n : SubSeq(q, 1, n)[i] = q[i]
             /\ IsPrefix(SubSeq(q, 1, n), q)
  <2>1. \A i \in 1..n : q[i] \in FsNames
    BY <1>1, ElementOfSeq
  <2>2. /\ SubSeq(q, 1, n) \in Seq(FsNames)
        /\ Len(SubSeq(q, 1, n)) = IF 1 <= n THEN n - 1 + 1 ELSE 0
        /\ \A i \in 1..(n - 1 + 1) : SubSeq(q, 1, n)[i] = q[1 + i - 1]
    BY <1>1, <2>1, SubSeqProperties
  <2>3. /\ SubSeq(q, 1, n) \in Seq(FsNames) /\ Len(SubSeq(q, 1, n)) = n
        /\ \A i \in 1..n : SubSeq(q, 1, n)[i] = q[i]
    BY <1>1, <2>2
  <2> DEFINE s == SubSeq(q, 1, n)
  <2>4. s \in Seq(FsNames) /\ Len(s) <= Len(q) /\ \A i \in 1..Len(s) : s[i] = q[i]
    BY <1>1, <2>3
  <2> HIDE DEF s
  <2>5. IsPrefix(s, q)
    BY <2>4, PrefixIs
  <2> QED
    BY <2>3, <2>5 DEF s
<1>3. k = Len(q) => SubSeq(q, 1, k) = q
  BY SubSeqFull
<1>4. ASSUME k # 0 PROVE SubSeq(q, 1, k) # <<>> /\ Front(SubSeq(q, 1, k)) = SubSeq(q, 1, k - 1)
  <2> DEFINE s == SubSeq(q, 1, k)
  <2>1. s \in Seq(FsNames) /\ Len(s) = k /\ \A i \in 1..k : s[i] = q[i]
    BY <1>1, <1>2
  <2>2. k - 1 \in 0..Len(q) /\ k \in 1..Len(q)
    BY <1>1, <1>4
  <2>3. /\ SubSeq(q, 1, k - 1) \in Seq(FsNames) /\ Len(SubSeq(q, 1, k - 1)) = k - 1
        /\ \A i \in 1..(k - 1) : SubSeq(q, 1, k - 1)[i] = q[i]
        /\ IsPrefix(SubSeq(q, 1, k - 1), q)
    BY <1>2, <2>2
  <2> HIDE DEF s
  <2>4. s # <<>>
    BY <2>1, <1>4, EmptySeq
  <2>5. Front(s) \in Seq(FsNames) /\ Len(Front(s)) = k - 1 /\ IsPrefix(Front(s), s)
    BY <2>1, <2>4, ParentIs
  <2>6. \A i \in 1..(k - 1) : Front(s)[i] = s[i]
    BY <2>1, <2>5, PrefixIs
  <2>7. \A i \in 1..(k - 1) : Front(s)[i] = SubSeq(q, 1, k - 1)[i]
    BY <1>1, <2>1, <2>3, <2>6
  <2>8. Front(s) = SubSeq(q, 1, k - 1)
    BY <2>3, <2>5, <2>7, SeqEqual
  <2> QED
    BY <2>4, <2>8 DEF s
<1>5. ASSUME NEW p \in Seq(FsNames), IsPrefix(p, q), Len(p) = k PROVE p = SubSeq(q, 1, k)
  BY <1>2, <1>5, PrefixOrder
<1> QED
  BY <1>1, <1>2, <1>3, <1>4, <1>5

(* The prefixes of a path that may exist may exist. *)
LEMMA PathsAre ==
  /\ FsPaths \subseteq Seq(FsNames)
  /\ \A q \in FsPaths : /\ q # <<>> /\ (Front(q) = <<>> \/ Front(q) \in FsPaths)
                        /\ \A p \in Seq(FsNames) : IsPrefix(p, q) /\ p # <<>> => p \in FsPaths
<1>1. FsPaths \subseteq Seq(FsNames) /\ \A p \in FsPaths : p # <<>>
  BY FileTreeAssumption
<1>2. ASSUME NEW q \in FsPaths, NEW p \in Seq(FsNames), IsPrefix(p, q), p # <<>> PROVE p \in FsPaths
  <2>1. Len(p) \in Nat \ {0} /\ Len(q) \in Nat /\ Len(p) <= Len(q)
    BY <1>1, <1>2, PrefixIs, EmptySeq
  <2>2. Len(p) \in 0..Len(q) /\ Len(p) \in 1..Len(q)
    BY <2>1
  <2>3. p = SubSeq(q, 1, Len(p))
    <3> DEFINE k == Len(p)
    <3>1. k \in 0..Len(q) /\ Len(p) = k
      BY <2>2
    <3> HIDE DEF k
    <3>2. p = SubSeq(q, 1, k)
      BY <1>1, <1>2, <3>1, PrefixOf
    <3> QED
      BY <3>2 DEF k
  <2>4. SubSeq(q, 1, Len(p)) \in FsPaths
    BY <2>2, FileTreeAssumption
  <2> QED
    BY <2>3, <2>4
<1>3. ASSUME NEW q \in FsPaths PROVE Front(q) = <<>> \/ Front(q) \in FsPaths
  BY <1>1, <1>2, ParentIs
<1> QED
  BY <1>1, <1>2, <1>3

(* What is between a directory and something below it. *)
LEMMA WayTo ==
  ASSUME NEW p \in FsPaths, NEW q \in FsPaths, IsStrictPrefix(p, q)
  PROVE  \E c \in FsPaths : Front(c) = p /\ IsPrefix(c, q) /\ IsStrictPrefix(p, c)
<1>1. p \in Seq(FsNames) /\ q \in Seq(FsNames) /\ IsPrefix(p, q) /\ p # q /\ p # <<>>
  BY PathsAre DEF IsStrictPrefix
<1>2. Len(p) \in Nat /\ Len(q) \in Nat /\ Len(p) < Len(q)
  BY <1>1, PrefixIs, PrefixOrder
<1> DEFINE k == Len(p) + 1
           c == SubSeq(q, 1, k)
<1>3. k \in 0..Len(q) /\ k # 0 /\ k - 1 = Len(p) /\ Len(p) \in 0..Len(q)
  BY <1>2
<1> HIDE DEF k
<1>4. /\ c \in Seq(FsNames) /\ Len(c) = k /\ IsPrefix(c, q) /\ c # <<>>
      /\ Front(c) = SubSeq(q, 1, k - 1)
  BY <1>1, <1>3, PrefixOf
<1>5. p = SubSeq(q, 1, k - 1)
  <2> DEFINE m == k - 1
  <2>1. m \in 0..Len(q) /\ Len(p) = m
    BY <1>3
  <2> HIDE DEF m
  <2>2. p = SubSeq(q, 1, m)
    BY <1>1, <2>1, PrefixOf
  <2> QED
    BY <2>2 DEF m
<1> HIDE DEF c
<1>6. c \in FsPaths
  BY <1>1, <1>4, PathsAre
<1>7. IsPrefix(p, c) /\ p # c
  BY <1>4, <1>5, ParentIs
<1> QED
  BY <1>4, <1>5, <1>6, <1>7 DEF IsStrictPrefix

(* What exists is in directories. *)
LEMMA StandsIn ==
  ASSUME NEW tr, TreeOK(tr), NEW q \in FsPaths
  PROVE  /\ tr[q] \in FsKinds
         /\ tr[q] # Nothing => IsDir(tr, Front(q))
         /\ \A p \in FsPaths : IsPrefix(q, p) /\ tr[q] # "dir" /\ p # q => tr[p] = Nothing
         /\ \A p \in FsPaths : IsPrefix(q, p) /\ tr[p] # Nothing => tr[q] # Nothing
         /\ \A p \in FsPaths : IsPrefix(q, p) /\ tr[p] = "dir" => tr[q] = "dir"
<1>1. tr[q] \in FsKinds
  BY DEF TreeOK
<1>2. \A p \in FsPaths : IsPrefix(q, p) /\ tr[q] # "dir" /\ p # q => tr[p] = Nothing
  BY DEF TreeOK, Standing, IsStrictPrefix
<1>3. tr[q] # Nothing => IsDir(tr, Front(q))
  <2>1. Front(q) # <<>> => Front(q) \in FsPaths /\ IsStrictPrefix(Front(q), q)
    BY PathsAre, ParentIs DEF IsStrictPrefix
  <2> QED
    BY <2>1 DEF TreeOK, Standing, IsDir
<1> QED
  BY <1>1, <1>2, <1>3 DEF Nothing

(* What is put in a directory, and what is taken from below nothing. *)
LEMMA PutStands ==
  ASSUME NEW tr, TreeOK(tr), NEW p \in FsPaths, NEW k \in FsKinds \ {Nothing}, IsDir(tr, Front(p)),
         tr[p] = "dir" => k = "dir"
  PROVE  TreeOK([tr EXCEPT ![p] = k])
<1> DEFINE new == [tr EXCEPT ![p] = k]
<1>1. new \in [FsPaths -> FsKinds] /\ new[p] = k /\ \A q \in FsPaths : q # p => new[q] = tr[q]
  BY DEF TreeOK
<1>2. ASSUME NEW a \in FsPaths, NEW b \in FsPaths, IsStrictPrefix(a, b), new[b] # Nothing
      PROVE  new[a] = "dir"
  <2>1. CASE b = p
    <3>1. IsPrefix(a, Front(p)) /\ Front(p) # <<>> /\ Front(p) \in FsPaths /\ a # p
      <4>1. IsPrefix(a, Front(p)) /\ Front(p) \in Seq(FsNames) /\ a \in Seq(FsNames) /\ a # <<>>
        BY <1>2, <2>1, ParentIs, PathsAre
      <4>2. Front(p) # <<>>
        <5>1. Len(a) <= Len(Front(p)) /\ Len(a) \in Nat \ {0}
          BY <4>1, PrefixIs, EmptySeq
        <5> QED
          BY <5>1, EmptySeq
      <4> QED
        BY <1>2, <2>1, <4>1, <4>2, PathsAre DEF IsStrictPrefix
    <3>2. tr[Front(p)] = "dir"
      BY <3>1 DEF IsDir
    <3>3. tr[a] = "dir"
      BY <3>1, <3>2, StandsIn
    <3> QED
      BY <1>1, <3>1, <3>3
  <2>2. CASE b # p
    <3>1. tr[a] = "dir"
      BY <1>1, <1>2, <2>2 DEF TreeOK, Standing
    <3> QED
      BY <1>1, <3>1
  <2> QED
    BY <2>1, <2>2
<1> QED
  BY <1>1, <1>2 DEF TreeOK, Standing

LEMMA CutStands ==
  ASSUME NEW tr, TreeOK(tr), NEW p \in FsPaths,
         \A q \in FsPaths : IsStrictPrefix(p, q) => tr[q] = Nothing
  PROVE  TreeOK([tr EXCEPT ![p] = Nothing])
<1> DEFINE new == [tr EXCEPT ![p] = Nothing]
<1>1. /\ new \in [FsPaths -> FsKinds] /\ new[p] = Nothing
      /\ \A q \in FsPaths : q # p => new[q] = tr[q]
  BY DEF TreeOK, FsKinds
<1>2. ASSUME NEW a \in FsPaths, NEW b \in FsPaths, IsStrictPrefix(a, b), new[b] # Nothing
      PROVE  new[a] = "dir"
  BY <1>1, <1>2 DEF TreeOK, Standing
<1> QED
  BY <1>1, <1>2 DEF TreeOK, Standing

(* Nothing is below a directory without entries. *)
LEMMA NoChildren ==
  ASSUME NEW tr, TreeOK(tr), NEW p \in FsPaths, Children(tr, p) = {},
         NEW q \in FsPaths, IsStrictPrefix(p, q)
  PROVE  tr[q] = Nothing
<1>1. PICK c \in FsPaths : Front(c) = p /\ IsPrefix(c, q)
  BY WayTo
<1>2. tr[c] = Nothing
  BY <1>1 DEF Children
<1> QED
  BY <1>1, <1>2, StandsIn

(* What is below `to` goes where it was below `from`. *)
LEMMA MovedIs ==
  ASSUME NEW from \in Seq(FsNames), NEW to \in Seq(FsNames), NEW a \in Seq(FsNames), NEW b \in Seq(FsNames),
         from # <<>>, IsPrefix(to, a), IsStrictPrefix(a, b)
  PROVE  LET s(q) == from \o SubSeq(q, Len(to) + 1, Len(q))
         IN  s(a) \in Seq(FsNames) /\ s(b) \in Seq(FsNames) /\ s(a) # <<>> /\ IsStrictPrefix(s(a), s(b))
<1> DEFINE rest(q) == SubSeq(q, Len(to) + 1, Len(q))
           s(q) == from \o rest(q)
<1>1. IsPrefix(a, b) /\ a # b /\ IsPrefix(to, b)
  BY PrefixOrder DEF IsStrictPrefix
<1>2. /\ Len(to) \in Nat /\ Len(a) \in Nat /\ Len(b) \in Nat /\ Len(from) \in Nat \ {0}
      /\ Len(to) <= Len(a) /\ Len(a) < Len(b) /\ \A i \in 1..Len(a) : a[i] = b[i]
  BY <1>1, PrefixIs, PrefixOrder, EmptySeq
<1>3. ASSUME NEW q \in Seq(FsNames), NEW n \in Nat, n = Len(q), Len(to) <= n
      PROVE  /\ s(q) \in Seq(FsNames) /\ Len(s(q)) = Len(from) + n - Len(to)
             /\ \A i \in 1..(Len(from) + n - Len(to)) :
                  s(q)[i] = IF i <= Len(from) THEN from[i] ELSE q[i - Len(from) + Len(to)]
  <2> DEFINE m == Len(to) + 1
             r == SubSeq(q, m, n)
  <2>1. m \in Int /\ m = Len(to) + 1 /\ \A i \in m..n : q[i] \in FsNames
    BY <1>2, <1>3, ElementOfSeq
  <2> HIDE DEF m
  <2>2. r \in Seq(FsNames) /\ Len(r) = IF m <= n THEN n - m + 1 ELSE 0
    BY <1>3, <2>1, SubSeqProperties
  <2>3. \A i \in 1..(n - m + 1) : r[i] = q[m + i - 1]
    BY <1>3, <2>1, SubSeqProperties
  <2>4. r = rest(q)
    BY <1>3, <2>1
  <2> HIDE DEF r, rest
  <2>5. Len(r) = n - Len(to)
    BY <1>2, <1>3, <2>1, <2>2
  <2>6. /\ from \o r \in Seq(FsNames) /\ Len(from \o r) = Len(from) + Len(r)
        /\ \A i \in 1..(Len(from) + Len(r)) :
             (from \o r)[i] = IF i <= Len(from) THEN from[i] ELSE r[i - Len(from)]
    BY <2>2, ConcatProperties
  <2>7. ASSUME NEW i \in 1..(Len(from) + n - Len(to))
        PROVE  (from \o r)[i] = IF i <= Len(from) THEN from[i] ELSE q[i - Len(from) + Len(to)]
    <3>1. (from \o r)[i] = IF i <= Len(from) THEN from[i] ELSE r[i - Len(from)]
      BY <1>2, <1>3, <2>5, <2>6
    <3>2. ~(i <= Len(from)) => i - Len(from) \in 1..(n - m + 1)
                               /\ m + (i - Len(from)) - 1 = i - Len(from) + Len(to)
      BY <1>2, <1>3, <2>1
    <3>3. ~(i <= Len(from)) => r[i - Len(from)] = q[i - Len(from) + Len(to)]
      BY <2>3, <3>2
    <3> QED
      BY <3>1, <3>3
  <2> QED
    BY <1>2, <1>3, <2>4, <2>5, <2>6, <2>7
<1> HIDE DEF s
<1>4. /\ s(a) \in Seq(FsNames) /\ Len(s(a)) = Len(from) + Len(a) - Len(to)
      /\ \A i \in 1..(Len(from) + Len(a) - Len(to)) :
           s(a)[i] = IF i <= Len(from) THEN from[i] ELSE a[i - Len(from) + Len(to)]
  BY <1>2, <1>3
<1>5. /\ s(b) \in Seq(FsNames) /\ Len(s(b)) = Len(from) + Len(b) - Len(to)
      /\ \A i \in 1..(Len(from) + Len(b) - Len(to)) :
           s(b)[i] = IF i <= Len(from) THEN from[i] ELSE b[i - Len(from) + Len(to)]
  BY <1>2, <1>3
<1>6. \A i \in 1..Len(s(a)) : s(a)[i] = s(b)[i]
  <2> TAKE i \in 1..Len(s(a))
  <2>1. i \in Int /\ 1 <= i /\ i <= Len(from) + Len(a) - Len(to)
    BY <1>2, <1>4
  <2>2. i \in 1..(Len(from) + Len(b) - Len(to))
    BY <1>2, <2>1
  <2>3. ~(i <= Len(from)) => i - Len(from) + Len(to) \in 1..Len(a)
    BY <1>2, <2>1
  <2>4. ~(i <= Len(from)) => a[i - Len(from) + Len(to)] = b[i - Len(from) + Len(to)]
    BY <1>2, <2>3
  <2> QED
    BY <1>4, <1>5, <2>1, <2>2, <2>4
<1>7. Len(s(a)) <= Len(s(b)) /\ Len(s(a)) # Len(s(b)) /\ Len(s(a)) # 0
  BY <1>2, <1>4, <1>5
<1>8. IsPrefix(s(a), s(b)) /\ s(a) # s(b) /\ s(a) # <<>>
  BY <1>4, <1>5, <1>6, <1>7, PrefixIs, EmptySeq
<1>9. s(a) \in Seq(FsNames) /\ s(b) \in Seq(FsNames) /\ s(a) # <<>> /\ IsStrictPrefix(s(a), s(b))
  BY <1>4, <1>5, <1>8 DEF IsStrictPrefix
<1> QED
  BY <1>9 DEF s

LEMMA RenamedStands ==
  ASSUME NEW tr, TreeOK(tr), NEW from \in FsPaths, NEW to \in FsPaths, CanRename(tr, from, to)
  PROVE  TreeOK(Renamed(tr, from, to))
<1> DEFINE new == Renamed(tr, from, to)
           s(q) == from \o SubSeq(q, Len(to) + 1, Len(q))
<1>1. /\ new \in [FsPaths -> FsKinds]
      /\ \A q \in FsPaths : new[q] = IF IsPrefix(to, q)
                                     THEN IF s(q) \in FsPaths THEN tr[s(q)] ELSE Nothing
                                     ELSE IF IsPrefix(from, q) THEN Nothing ELSE tr[q]
  BY DEF Renamed, TreeOK, FsKinds
<1>2. FsPaths \subseteq Seq(FsNames) /\ \A q \in FsPaths : q # <<>>
  BY PathsAre
<1>3. IsDir(tr, Front(to)) /\ ~IsStrictPrefix(from, to)
  BY DEF CanRename
<1>4. ASSUME NEW a \in FsPaths, NEW b \in FsPaths, IsStrictPrefix(a, b), new[b] # Nothing
      PROVE  new[a] = "dir"
  <2>1. IsPrefix(a, b) /\ a # b
    BY <1>4 DEF IsStrictPrefix
  <2>2. CASE IsPrefix(to, a)
    <3>1. s(a) \in Seq(FsNames) /\ s(b) \in Seq(FsNames) /\ s(a) # <<>> /\ IsStrictPrefix(s(a), s(b))
      BY <1>2, <1>4, <2>2, MovedIs
    <3>2. IsPrefix(to, b)
      BY <1>2, <2>1, <2>2, PrefixOrder
    <3>3. new[a] = (IF s(a) \in FsPaths THEN tr[s(a)] ELSE Nothing)
          /\ new[b] = (IF s(b) \in FsPaths THEN tr[s(b)] ELSE Nothing)
      BY <1>1, <2>2, <3>2, Zenon
    <3> HIDE DEF new, s
    <3>4. s(b) \in FsPaths /\ tr[s(b)] # Nothing
      BY <1>4, <3>3
    <3>5. s(a) \in FsPaths
      BY <3>1, <3>4, PathsAre DEF IsStrictPrefix
    <3>6. tr[s(a)] = "dir"
      BY <3>1, <3>4, <3>5 DEF TreeOK, Standing
    <3> QED
      BY <3>3, <3>5, <3>6
  <2>3. CASE ~IsPrefix(to, a) /\ IsPrefix(to, b)
    <3> HIDE DEF new, s
    <3>1. IsPrefix(a, to) /\ a # to
      BY <1>2, <2>1, <2>3, PrefixOrder
    <3>2. ~IsPrefix(from, a)
      <4>1. SUFFICES ASSUME IsPrefix(from, a) PROVE FALSE
        OBVIOUS
      <4>2. IsPrefix(from, to)
        BY <1>2, <3>1, <4>1, PrefixOrder
      <4>3. from # to
        BY <1>2, <3>1, <4>1, PrefixOrder
      <4> QED
        BY <1>3, <4>2, <4>3 DEF IsStrictPrefix
    <3>3. new[a] = tr[a]
      BY <1>1, <2>3, <3>2
    <3>4. IsPrefix(a, Front(to)) /\ Front(to) \in Seq(FsNames)
      BY <1>2, <3>1, ParentIs DEF IsStrictPrefix
    <3>5. Front(to) # <<>>
      <4>1. Len(a) <= Len(Front(to)) /\ Len(a) \in Nat \ {0}
        BY <1>2, <3>4, PrefixIs, EmptySeq
      <4> QED
        BY <4>1, EmptySeq
    <3>6. Front(to) \in FsPaths /\ tr[Front(to)] = "dir"
      BY <1>3, <3>5, PathsAre DEF IsDir
    <3>7. tr[a] = "dir"
      BY <3>4, <3>6, StandsIn
    <3> QED
      BY <3>3, <3>7
  <2>4. CASE ~IsPrefix(to, b)
    <3> HIDE DEF new, s
    <3>1. ~IsPrefix(to, a)
      BY <1>2, <2>1, <2>4, PrefixOrder
    <3>2. ~IsPrefix(from, b) /\ new[b] = tr[b]
      BY <1>1, <1>4, <2>4
    <3>3. ~IsPrefix(from, a)
      BY <1>2, <2>1, <3>2, PrefixOrder
    <3>4. new[a] = tr[a]
      BY <1>1, <3>1, <3>3
    <3> QED
      BY <1>4, <3>2, <3>4 DEF TreeOK, Standing
  <2> QED
    BY <2>2, <2>3, <2>4
<1> QED
  BY <1>1, <1>4 DEF TreeOK, Standing

(* The calls of Rm under way, as a sequence. *)
LEMMA FrameIs ==
  ASSUME NEW p \in FsPaths, NEW kids \in SUBSET FsPaths, NEW ret \in BOOLEAN
  PROVE  /\ RmFrame(p, kids, ret) \in RmFrames
         /\ RmFrame(p, kids, ret).path = p /\ RmFrame(p, kids, ret).left = kids
         /\ RmFrame(p, kids, ret).ret = ret
BY DEF RmFrame, RmFrames

LEMMA FramesAre ==
  ASSUME NEW fr \in Seq(RmFrames)
  PROVE  /\ Len(fr) \in Nat /\ (fr # <<>> => Len(fr) \in Nat \ {0} /\ Len(fr) \in 1..Len(fr))
         /\ \A i \in 1..Len(fr) : /\ fr[i] \in RmFrames
                                  /\ fr[i].path \in FsPaths /\ fr[i].left \subseteq FsPaths
                                  /\ fr[i].ret \in BOOLEAN
<1>1. Len(fr) \in Nat /\ (fr # <<>> => Len(fr) \in Nat \ {0})
  BY EmptySeq, LenProperties
<1>2. \A i \in 1..Len(fr) : fr[i] \in RmFrames
  BY ElementOfSeq
<1>3. \A f \in RmFrames : f.path \in FsPaths /\ f.left \subseteq FsPaths /\ f.ret \in BOOLEAN
  BY DEF RmFrames
<1> QED
  BY <1>1, <1>2, <1>3

LEMMA InLastIs ==
  ASSUME NEW fr \in Seq(RmFrames), fr # <<>>, NEW f \in RmFrames
  PROVE  /\ InLast(fr, f) \in Seq(RmFrames) /\ Len(InLast(fr, f)) = Len(fr) /\ InLast(fr, f) # <<>>
         /\ InLast(fr, f)[Len(fr)] = f
         /\ \A i \in 1..Len(fr) : i # Len(fr) => InLast(fr, f)[i] = fr[i]
<1>1. Len(fr) \in 1..Len(fr)
  BY FramesAre
<1>2. /\ InLast(fr, f) \in Seq(RmFrames) /\ Len(InLast(fr, f)) = Len(fr)
      /\ \A i \in 1..Len(fr) : InLast(fr, f)[i] = IF i = Len(fr) THEN f ELSE fr[i]
  BY <1>1, ExceptSeq DEF InLast
<1> QED
  BY <1>1, <1>2, EmptySeq

(* A call of Rm has returned to the loop that made it. *)
LEMMA FramesReturned ==
  ASSUME NEW p \in FsPaths, NEW fr, FramesOK(fr, p), fr # <<>>, NEW ok \in BOOLEAN, NEW new,
         new = InLast(fr, RmFrame(Last(fr).path, Last(fr).left, ok))
  PROVE  /\ FramesOK(new, p) /\ new # <<>> /\ Len(new) = Len(fr) /\ Len(fr) \in 1..Len(fr)
         /\ \A i \in 1..Len(fr) : /\ new[i].path = fr[i].path
                                  /\ new[i].ret = IF i = Len(fr) THEN ok ELSE fr[i].ret
         /\ \A q : FrOwed(fr, q) => FrOwed(new, q)
<1>1. fr \in Seq(RmFrames)
  BY DEF FramesOK
<1>2. /\ Len(fr) \in Nat /\ Len(fr) \in 1..Len(fr) /\ Last(fr) = fr[Len(fr)]
      /\ Last(fr).path \in FsPaths /\ Last(fr).left \subseteq FsPaths
  BY <1>1, FramesAre DEF Last
<1> DEFINE f == RmFrame(Last(fr).path, Last(fr).left, ok)
<1>3. f \in RmFrames /\ f.path = Last(fr).path /\ f.left = Last(fr).left /\ f.ret = ok
  BY <1>2, FrameIs
<1>4. new = InLast(fr, f)
  OBVIOUS
<1> HIDE DEF f
<1>5. /\ new \in Seq(RmFrames) /\ Len(new) = Len(fr) /\ new # <<>> /\ new[Len(fr)] = f
      /\ \A i \in 1..Len(fr) : i # Len(fr) => new[i] = fr[i]
  <2>1. /\ InLast(fr, f) \in Seq(RmFrames) /\ Len(InLast(fr, f)) = Len(fr) /\ InLast(fr, f) # <<>>
        /\ InLast(fr, f)[Len(fr)] = f
        /\ \A i \in 1..Len(fr) : i # Len(fr) => InLast(fr, f)[i] = fr[i]
    BY <1>1, <1>3, InLastIs
  <2> QED
    BY <1>4, <2>1, Zenon
<1>6. \A i \in 1..Len(fr) : /\ new[i].path = fr[i].path /\ new[i].left = fr[i].left
                            /\ new[i].ret = IF i = Len(fr) THEN ok ELSE fr[i].ret
  BY <1>2, <1>3, <1>5
<1>7. FramesOK(new, p)
  <2>1. new[1].path = p
    <3>1. 1 \in 1..Len(fr) /\ fr[1].path = p
      BY <1>2 DEF FramesOK
    <3> QED
      BY <1>6, <3>1
  <2>2. ASSUME NEW i \in 1..Len(fr)
        PROVE  IsPrefix(p, new[i].path) /\ \A d \in new[i].left : Front(d) = new[i].path
    BY <1>6, Zenon DEF FramesOK
  <2>3. ASSUME NEW i \in 1..Len(fr), NEW j \in 1..Len(fr), i < j
        PROVE  /\ IsStrictPrefix(new[i].path, new[j].path)
               /\ \A d \in new[i].left : ~IsPrefix(d, new[j].path)
    BY <1>6, <2>3, Zenon DEF FramesOK
  <2> QED
    BY <1>5, <2>1, <2>2, <2>3 DEF FramesOK
<1>8. ASSUME NEW q, FrOwed(fr, q) PROVE FrOwed(new, q)
  <2>1. PICK i \in 1..Len(fr) : q = fr[i].path \/ \E d \in fr[i].left : IsPrefix(d, q)
    BY <1>8 DEF FrOwed
  <2>2. i \in 1..Len(new) /\ (q = new[i].path \/ \E d \in new[i].left : IsPrefix(d, q))
    BY <1>5, <1>6, <2>1
  <2> QED
    BY <2>2, Zenon DEF FrOwed
<1> QED
  BY <1>2, <1>5, <1>6, <1>7, <1>8

(* The loop of Rm takes an entry. *)
Taken(new, fr, e) ==
  /\ Len(new) = Len(fr)
  /\ \A i \in 1..Len(fr) : new[i].path = fr[i].path /\ new[i].ret = fr[i].ret
  /\ \A q : FrOwed(fr, q) => FrOwed(new, q) \/ IsPrefix(e, q)

LEMMA FramesTaken ==
  ASSUME NEW p \in FsPaths, NEW fr, FramesOK(fr, p), fr # <<>>, NEW e \in Last(fr).left, NEW new,
         new = InLast(fr, RmFrame(Last(fr).path, Last(fr).left \ {e}, Last(fr).ret))
  PROVE  FramesOK(new, p) /\ LedTo(new, p, e) /\ Taken(new, fr, e)
<1>1. fr \in Seq(RmFrames)
  BY DEF FramesOK
<1>2. /\ Len(fr) \in Nat /\ Len(fr) \in 1..Len(fr) /\ Last(fr) = fr[Len(fr)]
      /\ Last(fr).path \in FsPaths /\ Last(fr).left \subseteq FsPaths /\ Last(fr).ret \in BOOLEAN
  BY <1>1, FramesAre DEF Last
<1> DEFINE f == RmFrame(Last(fr).path, Last(fr).left \ {e}, Last(fr).ret)
<1>3. f \in RmFrames /\ f.path = Last(fr).path /\ f.left = Last(fr).left \ {e} /\ f.ret = Last(fr).ret
  <2>1. Last(fr).left \ {e} \in SUBSET FsPaths
    BY <1>2
  <2> QED
    BY <1>2, <2>1, FrameIs
<1>4. new = InLast(fr, f)
  OBVIOUS
<1> HIDE DEF f
<1>5. /\ new \in Seq(RmFrames) /\ Len(new) = Len(fr) /\ new # <<>> /\ new[Len(fr)] = f
      /\ \A i \in 1..Len(fr) : i # Len(fr) => new[i] = fr[i]
  <2>1. /\ InLast(fr, f) \in Seq(RmFrames) /\ Len(InLast(fr, f)) = Len(fr) /\ InLast(fr, f) # <<>>
        /\ InLast(fr, f)[Len(fr)] = f
        /\ \A i \in 1..Len(fr) : i # Len(fr) => InLast(fr, f)[i] = fr[i]
    BY <1>1, <1>3, InLastIs
  <2> QED
    BY <1>4, <2>1, Zenon
<1>6. \A i \in 1..Len(fr) : /\ new[i].path = fr[i].path /\ new[i].ret = fr[i].ret
                            /\ new[i].left = IF i = Len(fr) THEN fr[i].left \ {e} ELSE fr[i].left
  BY <1>2, <1>3, <1>5
<1>7. FramesOK(new, p)
  <2>1. new[1].path = p
    <3>1. 1 \in 1..Len(fr) /\ fr[1].path = p
      BY <1>2 DEF FramesOK
    <3> QED
      BY <1>6, <3>1
  <2>2. \A i \in 1..Len(fr) : new[i].left \subseteq fr[i].left
    BY <1>6
  <2>3. ASSUME NEW i \in 1..Len(fr)
        PROVE  IsPrefix(p, new[i].path) /\ \A d \in new[i].left : Front(d) = new[i].path
    BY <1>6, <2>2 DEF FramesOK
  <2>4. ASSUME NEW i \in 1..Len(fr), NEW j \in 1..Len(fr), i < j
        PROVE  /\ IsStrictPrefix(new[i].path, new[j].path)
               /\ \A d \in new[i].left : ~IsPrefix(d, new[j].path)
    BY <1>6, <2>2, <2>4 DEF FramesOK
  <2> QED
    BY <1>5, <2>1, <2>3, <2>4 DEF FramesOK
<1>8. LedTo(new, p, e)
  <2>1. e \in FsPaths /\ Front(e) = Last(fr).path
    BY <1>2 DEF FramesOK
  <2>2. e \in Seq(FsNames) /\ e # <<>> /\ FsPaths \subseteq Seq(FsNames)
    BY <2>1, PathsAre
  <2>3. /\ IsPrefix(Front(e), e) /\ Front(e) # e
        /\ \A d \in Seq(FsNames) : IsStrictPrefix(d, e) => IsPrefix(d, Front(e))
    BY <2>2, ParentIs
  <2>4. \A i \in 1..Len(fr) : IsPrefix(fr[i].path, Last(fr).path) /\ (i # Len(fr) => fr[i].path # Last(fr).path)
    <3> TAKE i \in 1..Len(fr)
    <3>1. CASE i = Len(fr)
      BY <1>2, <2>2, <3>1, PrefixOrder
    <3>2. CASE i # Len(fr)
      <4>1. i < Len(fr)
        BY <1>2, <3>2
      <4> QED
        BY <1>2, <4>1 DEF FramesOK, IsStrictPrefix
    <3> QED
      BY <3>1, <3>2
  <2>5. \A i \in 1..Len(fr) : fr[i].path \in FsPaths /\ fr[i].left \subseteq FsPaths
    BY <1>1, FramesAre
  <2>6. \A i \in 1..Len(fr) : IsStrictPrefix(new[i].path, e)
    <3> TAKE i \in 1..Len(fr)
    <3>1. IsPrefix(fr[i].path, Front(e)) /\ fr[i].path \in Seq(FsNames) /\ Front(e) \in Seq(FsNames)
      BY <1>2, <2>1, <2>2, <2>4, <2>5
    <3>2. IsPrefix(fr[i].path, e)
      BY <2>2, <2>3, <3>1, PrefixOrder
    <3>3. fr[i].path # e
      BY <2>2, <2>3, <3>1, PrefixOrder
    <3> QED
      BY <1>6, <3>2, <3>3 DEF IsStrictPrefix
  <2>7. ASSUME NEW i \in 1..Len(fr), NEW d \in new[i].left, IsPrefix(d, e) PROVE FALSE
    <3>1. d \in fr[i].left /\ d \in FsPaths /\ d \in Seq(FsNames) /\ Front(d) = fr[i].path /\ d # <<>>
      BY <1>6, <2>2, <2>5, <2>7, PathsAre DEF FramesOK
    <3>2. CASE d # e
      <4>1. IsPrefix(d, Last(fr).path)
        BY <2>1, <2>3, <2>7, <3>1, <3>2 DEF IsStrictPrefix
      <4>2. CASE i = Len(fr)
        <5>1. Front(d) = Last(fr).path /\ Front(d) # d /\ IsPrefix(Front(d), d) /\ Front(d) \in Seq(FsNames)
          BY <1>2, <3>1, <4>2, ParentIs
        <5> QED
          BY <3>1, <4>1, <5>1, PrefixOrder
      <4>3. CASE i # Len(fr)
        <5>1. i < Len(fr)
          BY <1>2, <4>3
        <5> QED
          BY <1>2, <3>1, <4>1, <5>1 DEF FramesOK
      <4> QED
        BY <4>2, <4>3
    <3>3. CASE d = e
      <4>1. i # Len(fr)
        BY <1>6, <2>7, <3>3
      <4> QED
        BY <2>1, <2>4, <3>1, <3>3, <4>1
    <3> QED
      BY <3>2, <3>3
  <2>8. IsPrefix(p, e)
    <3>1. IsPrefix(p, Front(e)) /\ p \in Seq(FsNames) /\ Front(e) \in Seq(FsNames)
      BY <1>2, <2>1, <2>2 DEF FramesOK
    <3> QED
      BY <2>2, <2>3, <3>1, PrefixOrder
  <2> QED
    BY <1>5, <2>1, <2>6, <2>7, <2>8 DEF LedTo
<1>9. ASSUME NEW q, FrOwed(fr, q), ~IsPrefix(e, q) PROVE FrOwed(new, q)
  <2>1. PICK i \in 1..Len(fr) : q = fr[i].path \/ \E d \in fr[i].left : IsPrefix(d, q)
    BY <1>9 DEF FrOwed
  <2>2. i \in 1..Len(new) /\ (q = new[i].path \/ \E d \in new[i].left : IsPrefix(d, q))
    BY <1>5, <1>6, <1>9, <2>1
  <2> QED
    BY <2>2, Zenon DEF FrOwed
<1> QED
  BY <1>5, <1>6, <1>7, <1>8, <1>9, Zenon DEF Taken

(* Rm goes into a directory. *)
Pushed(new, fr, x, kids) ==
  /\ new \in Seq(RmFrames) /\ new # <<>> /\ Len(new) = Len(fr) + 1 /\ Len(fr) \in Nat
  /\ \A i \in 1..Len(fr) : new[i] = fr[i]
  /\ new[Len(fr) + 1].path = x /\ new[Len(fr) + 1].left = kids /\ new[Len(fr) + 1].ret
  /\ \A q : FrOwed(fr, q) \/ q = x \/ (\E d \in kids : IsPrefix(d, q)) => FrOwed(new, q)

LEMMA PushedIs ==
  ASSUME NEW fr \in Seq(RmFrames), NEW x \in FsPaths, NEW kids \in SUBSET FsPaths
  PROVE  Pushed(Append(fr, RmFrame(x, kids, TRUE)), fr, x, kids)
<1>1. Len(fr) \in Nat
  BY FramesAre
<1> DEFINE f == RmFrame(x, kids, TRUE)
           new == Append(fr, f)
<1>2. f \in RmFrames /\ f.path = x /\ f.left = kids /\ f.ret
  BY FrameIs
<1>3. new = Append(fr, f)
  OBVIOUS
<1> HIDE DEF f, new
<1>4. /\ new \in Seq(RmFrames) /\ new # <<>> /\ Len(new) = Len(fr) + 1
      /\ \A i \in 1..Len(fr) : new[i] = fr[i]
      /\ new[Len(fr) + 1] = f
  <2>1. /\ Append(fr, f) \in Seq(RmFrames) /\ Append(fr, f) # <<>> /\ Len(Append(fr, f)) = Len(fr) + 1
        /\ \A i \in 1..Len(fr) : Append(fr, f)[i] = fr[i]
        /\ Append(fr, f)[Len(fr) + 1] = f
    BY <1>1, <1>2, AppendProperties
  <2> QED
    BY <1>3, <2>1, Zenon
<1>5. /\ \A i \in 1..Len(new) : i \in 1..Len(fr) \/ i = Len(fr) + 1
      /\ \A i \in 1..Len(fr) : i \in 1..Len(new)
      /\ Len(fr) + 1 \in 1..Len(new)
      /\ \A i \in 1..Len(new), j \in 1..Len(new) : i < j => i \in 1..Len(fr)
  <2>1. Len(new) \in Nat
    BY <1>4, FramesAre
  <2> QED
    BY <1>1, <1>4, <2>1
<1>8. ASSUME NEW q, FrOwed(fr, q) \/ q = x \/ (\E d \in kids : IsPrefix(d, q)) PROVE FrOwed(new, q)
  <2>1. CASE FrOwed(fr, q)
    <3>1. PICK i \in 1..Len(fr) : q = fr[i].path \/ \E d \in fr[i].left : IsPrefix(d, q)
      BY <2>1 DEF FrOwed
    <3>2. i \in 1..Len(new) /\ (q = new[i].path \/ \E d \in new[i].left : IsPrefix(d, q))
      BY <1>4, <1>5, <3>1, Zenon
    <3> QED
      BY <3>2, Zenon DEF FrOwed
  <2>2. CASE q = x \/ \E d \in kids : IsPrefix(d, q)
    <3> DEFINE n == Len(fr) + 1
    <3>1. n \in 1..Len(new) /\ new[n] = f
      BY <1>4, <1>5
    <3> HIDE DEF n
    <3>2. q = new[n].path \/ \E d \in new[n].left : IsPrefix(d, q)
      BY <1>2, <2>2, <3>1, Zenon
    <3> QED
      BY <3>1, <3>2, Zenon DEF FrOwed
  <2> QED
    BY <1>8, <2>1, <2>2
<1> QED
  BY <1>1, <1>2, <1>4, <1>8, Zenon DEF Pushed, new, f

LEMMA FramesPushed ==
  ASSUME NEW p \in FsPaths, NEW fr, FramesOK(fr, p), NEW x \in FsPaths, LedTo(fr, p, x),
         NEW kids \in SUBSET FsPaths, \A d \in kids : Front(d) = x
  PROVE  FramesOK(Append(fr, RmFrame(x, kids, TRUE)), p)
<1>1. fr \in Seq(RmFrames) /\ Len(fr) \in Nat
  BY FramesAre DEF FramesOK
<1> DEFINE f == RmFrame(x, kids, TRUE)
           new == Append(fr, f)
<1>2. f \in RmFrames /\ f.path = x /\ f.left = kids /\ f.ret
  BY FrameIs
<1>3. new = Append(fr, f)
  OBVIOUS
<1> HIDE DEF f, new
<1>4. /\ new \in Seq(RmFrames) /\ new # <<>> /\ Len(new) = Len(fr) + 1
      /\ \A i \in 1..Len(fr) : new[i] = fr[i]
      /\ new[Len(fr) + 1] = f
  <2>1. /\ Append(fr, f) \in Seq(RmFrames) /\ Append(fr, f) # <<>> /\ Len(Append(fr, f)) = Len(fr) + 1
        /\ \A i \in 1..Len(fr) : Append(fr, f)[i] = fr[i]
        /\ Append(fr, f)[Len(fr) + 1] = f
    BY <1>1, <1>2, AppendProperties
  <2> QED
    BY <1>3, <2>1, Zenon
<1>5. /\ \A i \in 1..Len(new) : i \in 1..Len(fr) \/ i = Len(fr) + 1
      /\ \A i \in 1..Len(fr) : i \in 1..Len(new)
      /\ Len(fr) + 1 \in 1..Len(new)
      /\ \A i \in 1..Len(new), j \in 1..Len(new) : i < j => i \in 1..Len(fr)
  <2>1. Len(new) \in Nat
    BY <1>4, FramesAre
  <2> QED
    BY <1>1, <1>4, <2>1
<1>6. IsPrefix(p, x) /\ x \in Seq(FsNames)
  BY PathsAre DEF LedTo
<1>7. FramesOK(new, p)
  <2>1. new[1].path = p
    <3>1. CASE fr = <<>>
      <4>1. Len(fr) = 0 /\ x = p
        BY <3>1, EmptySeq DEF LedTo
      <4>2. Len(fr) + 1 = 1
        BY <4>1
      <4> QED
        BY <1>2, <1>4, <4>1, <4>2, Zenon
    <3>2. CASE fr # <<>>
      <4>1. 1 \in 1..Len(fr)
        BY <1>1, <3>2, FramesAre
      <4> QED
        BY <1>4, <3>2, <4>1 DEF FramesOK
    <3> QED
      BY <3>1, <3>2
  <2>2. ASSUME NEW i \in 1..Len(new)
        PROVE  IsPrefix(p, new[i].path) /\ \A d \in new[i].left : Front(d) = new[i].path
    <3>1. CASE i \in 1..Len(fr)
      BY <1>4, <3>1 DEF FramesOK
    <3>2. CASE i = Len(fr) + 1
      BY <1>2, <1>4, <1>6, <3>2
    <3> QED
      BY <1>5, <3>1, <3>2
  <2>3. ASSUME NEW i \in 1..Len(new), NEW j \in 1..Len(new), i < j
        PROVE  /\ IsStrictPrefix(new[i].path, new[j].path)
               /\ \A d \in new[i].left : ~IsPrefix(d, new[j].path)
    <3>1. i \in 1..Len(fr) /\ new[i] = fr[i]
      BY <1>4, <1>5, <2>3
    <3>2. CASE j \in 1..Len(fr)
      BY <1>4, <2>3, <3>1, <3>2 DEF FramesOK
    <3>3. CASE j = Len(fr) + 1
      BY <1>2, <1>4, <3>1, <3>3 DEF LedTo
    <3> QED
      BY <1>5, <3>2, <3>3
  <2> QED
    BY <1>4, <2>1, <2>2, <2>3 DEF FramesOK
<1> QED
  BY <1>7 DEF new, f

(* The loop of Rm has ended. *)
LEMMA FramesPopped ==
  ASSUME NEW p \in FsPaths, NEW fr, FramesOK(fr, p), fr # <<>>
  PROVE  /\ FramesOK(Front(fr), p) /\ LedTo(Front(fr), p, Last(fr).path)
         /\ Len(fr) \in Nat \ {0} /\ Len(Front(fr)) = Len(fr) - 1
         /\ Last(fr) = fr[Len(fr)] /\ Len(fr) \in 1..Len(fr) /\ Last(fr).ret \in BOOLEAN
         /\ \A i \in 1..(Len(fr) - 1) : Front(fr)[i] = fr[i] /\ i \in 1..Len(fr)
         /\ \A q : FrOwed(fr, q) /\ Last(fr).left = {} => FrOwed(Front(fr), q) \/ q = Last(fr).path
<1>1. fr \in Seq(RmFrames) /\ Len(fr) \in Nat \ {0} /\ Len(fr) \in 1..Len(fr) /\ Last(fr) = fr[Len(fr)]
  BY FramesAre DEF FramesOK, Last
<1> DEFINE n == Len(fr) - 1
           new == Front(fr)
<1>2. n \in Nat /\ Len(fr) = n + 1 /\ \A i \in 1..n : i \in 1..Len(fr) /\ fr[i] \in RmFrames
  BY <1>1, FramesAre
<1>3. new = SubSeq(fr, 1, n)
  BY DEF Front
<1> HIDE DEF n, new
<1>4. new \in Seq(RmFrames) /\ Len(new) = n /\ \A i \in 1..n : new[i] = fr[i]
  <2>1. /\ SubSeq(fr, 1, n) \in Seq(RmFrames)
        /\ Len(SubSeq(fr, 1, n)) = IF 1 <= n THEN n - 1 + 1 ELSE 0
        /\ \A i \in 1..(n - 1 + 1) : SubSeq(fr, 1, n)[i] = fr[1 + i - 1]
    BY <1>2, SubSeqProperties
  <2>2. Len(SubSeq(fr, 1, n)) = n
    BY <1>2, <2>1
  <2>3. \A i \in 1..n : SubSeq(fr, 1, n)[i] = fr[i]
    BY <1>2, <2>1
  <2> QED
    BY <1>3, <2>1, <2>2, <2>3
<1>5. \A i \in 1..n : i < Len(fr)
  BY <1>2
<1>6. FramesOK(new, p)
  <2>1. new # <<>> => new[1].path = p
    <3>1. new # <<>> => 1 \in 1..n
      BY <1>4, FramesAre
    <3> QED
      BY <1>1, <1>4, <3>1 DEF FramesOK
  <2> QED
    BY <1>2, <1>4, <2>1 DEF FramesOK
<1>7. LedTo(new, p, Last(fr).path)
  <2>1. Last(fr).path \in FsPaths /\ IsPrefix(p, Last(fr).path)
    BY <1>1, FramesAre DEF FramesOK
  <2>2. new = <<>> => Last(fr).path = p
    <3>1. new = <<>> => Len(fr) = 1
      BY <1>2, <1>4, EmptySeq
    <3> QED
      BY <1>1, <3>1 DEF FramesOK
  <2>3. \A i \in 1..n : /\ IsStrictPrefix(fr[i].path, Last(fr).path)
                        /\ \A d \in fr[i].left : ~IsPrefix(d, Last(fr).path)
    BY <1>1, <1>2, <1>5 DEF FramesOK
  <2> QED
    BY <1>4, <2>1, <2>2, <2>3 DEF LedTo
<1>8. ASSUME NEW q, FrOwed(fr, q), Last(fr).left = {}, q # Last(fr).path PROVE FrOwed(new, q)
  <2>1. PICK i \in 1..Len(fr) : q = fr[i].path \/ \E d \in fr[i].left : IsPrefix(d, q)
    BY <1>8 DEF FrOwed
  <2>2. i # Len(fr)
    BY <1>1, <1>8, <2>1
  <2>3. i \in 1..n
    BY <1>2, <2>2
  <2>4. i \in 1..Len(new) /\ (q = new[i].path \/ \E d \in new[i].left : IsPrefix(d, q))
    BY <1>4, <2>1, <2>3
  <2> QED
    BY <2>4, Zenon DEF FrOwed
<1>9. Last(fr).ret \in BOOLEAN
  BY <1>1, FramesAre
<1> QED
  BY <1>1, <1>2, <1>4, <1>6, <1>7, <1>8, <1>9 DEF n, new

(* An entry of a directory that the loop of Rm has ended in is not to be looked at again. *)
LEMMA EntriesDone ==
  ASSUME NEW p \in FsPaths, NEW fr, FramesOK(fr, p), fr # <<>>, Last(fr).left = {},
         NEW c \in FsPaths, Front(c) = Last(fr).path
  PROVE  ~FrOwed(fr, c) /\ IsPrefix(p, c) /\ IsPrefix(Last(fr).path, c)
<1>1. /\ fr \in Seq(RmFrames) /\ Len(fr) \in Nat \ {0} /\ Len(fr) \in 1..Len(fr)
      /\ Last(fr) = fr[Len(fr)]
      /\ \A i \in 1..Len(fr) : fr[i].path \in FsPaths /\ fr[i].left \subseteq FsPaths
  BY FramesAre DEF FramesOK, Last
<1>2. c \in Seq(FsNames) /\ c # <<>> /\ FsPaths \subseteq Seq(FsNames)
  BY PathsAre
<1>3. /\ IsPrefix(Front(c), c) /\ Front(c) # c
      /\ \A d \in Seq(FsNames) : IsStrictPrefix(d, c) => IsPrefix(d, Front(c))
  BY <1>2, ParentIs
<1>4. Last(fr).path \in Seq(FsNames)
  BY <1>1, <1>2
<1>5. ASSUME NEW i \in 1..Len(fr), c = fr[i].path PROVE FALSE
  <2>1. CASE i = Len(fr)
    BY <1>1, <1>3, <1>5, <2>1
  <2>2. CASE i # Len(fr)
    <3>1. i < Len(fr)
      BY <1>1, <2>2
    <3>2. IsPrefix(c, Front(c)) /\ Front(c) \in Seq(FsNames)
      BY <1>1, <1>4, <1>5, <3>1 DEF FramesOK, IsStrictPrefix
    <3> QED
      BY <1>2, <1>3, <3>2, PrefixOrder
  <2> QED
    BY <2>1, <2>2
<1>6. ASSUME NEW i \in 1..Len(fr), NEW d \in fr[i].left, IsPrefix(d, c) PROVE FALSE
  <2>1. i # Len(fr)
    BY <1>1, <1>6
  <2>2. i < Len(fr)
    BY <1>1, <2>1
  <2>3. d \in Seq(FsNames) /\ Front(d) = fr[i].path
    BY <1>1, <1>2, <1>6 DEF FramesOK
  <2>4. ~IsPrefix(d, Last(fr).path) /\ fr[i].path # Last(fr).path
    BY <1>1, <1>6, <2>2 DEF FramesOK, IsStrictPrefix
  <2>5. d = c
    BY <1>3, <1>6, <2>3, <2>4 DEF IsStrictPrefix
  <2> QED
    BY <2>3, <2>4, <2>5
<1>7. IsPrefix(p, c)
  <2>1. IsPrefix(p, Front(c)) /\ p \in Seq(FsNames)
    BY <1>1, <1>2 DEF FramesOK
  <2> QED
    BY <1>2, <1>3, <1>4, <2>1, PrefixOrder
<1> QED
  BY <1>3, <1>5, <1>6, <1>7 DEF FrOwed

(* Where a step of a call that creates, or removes, takes its thread. *)
FsTo(t, at, ans) ==
  /\ FsMoves(t, at) /\ ans \in BOOLEAN /\ fsAnswer' = [fsAnswer EXCEPT ![t] = ans]
  /\ fsCall[t] \in FsCalls /\ UNCHANGED <<fsCall, before, overlapped>>
PlacedAt(at, pc, depth, fr) == at.pc = pc /\ at.depth = depth /\ at.frames = fr
MakesOver(t, at, ans, ok) ==
  \/ fsCall[t].op = "Open" /\ PlacedAt(at, "reopen", fsAt[t].depth, <<>>)
  \/ fsCall[t].op = "Mkdir" /\ at = FsEnded /\ ans = ok
Passed(t, at, ans) ==
  \/ fsAt[t].depth = Len(MkdirPath(t)) /\ MakesOver(t, at, ans, TRUE)
  \/ fsAt[t].depth # Len(MkdirPath(t)) /\ PlacedAt(at, "access", fsAt[t].depth + 1, <<>>)
Creates(t, at, ans) ==
  LET m == MkdirPath(t)
      p == MkdirPrefix(t)
      f == fsCall[t].path
      pc == fsAt[t].pc
  IN \/ pc = "lstat" /\ Exists(tree, m) /\ MakesOver(t, at, ans, TRUE) /\ UNCHANGED <<tree, lostRace>>
     \/ pc = "lstat" /\ ~Exists(tree, m) /\ PlacedAt(at, "access", 1, <<>>) /\ UNCHANGED <<tree, lostRace>>
     \/ pc = "access" /\ Exists(tree, p) /\ Passed(t, at, ans) /\ UNCHANGED <<tree, lostRace>>
     \/ /\ pc = "access" /\ ~Exists(tree, p) /\ PlacedAt(at, "mkdir", fsAt[t].depth, <<>>)
        /\ UNCHANGED <<tree, lostRace>>
     \/ /\ pc = "mkdir" /\ CanMake(tree, p) /\ Passed(t, at, ans) /\ UNCHANGED lostRace
        /\ tree' = [tree EXCEPT ![p] = "dir"]
     \/ /\ pc = "mkdir" /\ ~CanMake(tree, p) /\ MakesOver(t, at, ans, FALSE) /\ UNCHANGED tree
        /\ lostRace' = IF Exists(tree, p) THEN lostRace \cup {t} ELSE lostRace
     \/ /\ pc \in {"open", "reopen"} /\ CanOpen(tree, f) /\ at = FsEnded /\ ans = TRUE
        /\ tree' = [tree EXCEPT ![f] = "new"] /\ UNCHANGED lostRace
     \/ /\ pc = "open" /\ ~CanOpen(tree, f) /\ PlacedAt(at, "lstat", fsAt[t].depth, <<>>)
        /\ UNCHANGED <<tree, lostRace>>
     \/ /\ pc = "reopen" /\ ~CanOpen(tree, f) /\ at = FsEnded /\ ans = FALSE
        /\ UNCHANGED <<tree, lostRace>>
ReturnsTo(t, at, ans, ok, fr) ==
  \/ /\ fr # <<>>
     /\ PlacedAt(at, "readdir", 0, InLast(fr, RmFrame(Last(fr).path, Last(fr).left, ok)))
  \/ fr = <<>> /\ fsCall[t].op # "Rm" /\ ok /\ PlacedAt(at, "rename", 0, <<>>)
  \/ fr = <<>> /\ (fsCall[t].op = "Rm" \/ ~ok) /\ at = FsEnded /\ ans = ok
RemovesTo(t, at, ans) ==
  LET x == fsAt[t].path
      fr == fsAt[t].frames
      last == Last(fr)
      pc == fsAt[t].pc
  IN \/ pc \in {"rm", "unlinkstat"} /\ ~Exists(tree, x) /\ ReturnsTo(t, at, ans, TRUE, fr) /\ UNCHANGED tree
     \/ /\ pc \in {"rm", "unlinkstat"} /\ Exists(tree, x) /\ at.path = x /\ UNCHANGED tree
        /\ \/ pc = "rm" /\ tree[x] \in LooksLikeDir /\ PlacedAt(at, "opendir", 0, fr)
           \/ pc = "rm" /\ tree[x] \notin LooksLikeDir /\ PlacedAt(at, "unlinkstat", 0, fr)
           \/ pc = "unlinkstat" /\ PlacedAt(at, "unlink", 0, fr)
     \/ /\ pc = "unlink" /\ tree[x] \notin {Nothing, "dir"} /\ ReturnsTo(t, at, ans, TRUE, fr)
        /\ tree' = [tree EXCEPT ![x] = Nothing]
     \/ pc = "unlink" /\ tree[x] \in {Nothing, "dir"} /\ ReturnsTo(t, at, ans, FALSE, fr) /\ UNCHANGED tree
     \/ /\ pc = "opendir" /\ tree[x] = "dir" /\ UNCHANGED tree
        /\ PlacedAt(at, "readdir", 0, Append(fr, RmFrame(x, Children(tree, x), TRUE)))
     \/ pc = "opendir" /\ tree[x] # "dir" /\ ReturnsTo(t, at, ans, FALSE, fr) /\ UNCHANGED tree
     \/ /\ pc = "readdir" /\ UNCHANGED tree /\ at.path \in last.left
        /\ PlacedAt(at, "rm", 0, InLast(fr, RmFrame(last.path, last.left \ {at.path}, last.ret)))
     \/ /\ pc = "readdir" /\ last.left = {} /\ tree[last.path] = "dir" /\ Children(tree, last.path) = {}
        /\ ReturnsTo(t, at, ans, last.ret, Front(fr)) /\ tree' = [tree EXCEPT ![last.path] = Nothing]
     \/ /\ pc = "readdir" /\ last.left = {} /\ UNCHANGED tree /\ ReturnsTo(t, at, ans, FALSE, Front(fr))
        /\ tree[last.path] # "dir" \/ Children(tree, last.path) # {}
Renames(t, at, ans) ==
  LET to == fsCall[t].path
      from == fsCall[t].from
  IN /\ fsAt[t].pc = "rename" /\ at = FsEnded
     /\ \/ ~ans /\ UNCHANGED tree
           /\ IF fsCall[t].op = "Mv" THEN ~CanRename(tree, from, to) ELSE ~CanMake(tree, to)
        \/ ans /\ fsCall[t].op = "Mv" /\ CanRename(tree, from, to) /\ tree' = Renamed(tree, from, to)
        \/ ans /\ fsCall[t].op # "Mv" /\ CanMake(tree, to) /\ tree' = [tree EXCEPT ![to] = "link"]

LEMMA FsAtIs ==
  \A pc, depth, path, fr :
    /\ FsAt(pc, depth, path, fr).pc = pc /\ FsAt(pc, depth, path, fr).depth = depth
    /\ FsAt(pc, depth, path, fr).path = path /\ FsAt(pc, depth, path, fr).frames = fr
BY DEF FsAt

LEMMA CallsAre ==
  /\ \A c \in FsCalls : /\ c.op \in Creating \cup RemovingOps /\ c.path \in FsPaths
                        /\ c.op = "Mv" => c.from \in FsPaths
  /\ NoCall.op = "none" /\ Creating \cap RemovingOps = {}
BY FileTreeAssumption DEF Creating, RemovingOps, NoCall

(* The step of a call, as one of the moves. *)
LEMMA CreatesMove ==
  ASSUME FsShape, NEW t \in FsThreads,
         MkdirStat(t) \/ MkdirAccess(t) \/ MkdirMake(t) \/ OpenFile(t)
  PROVE  \E at, ans : FsTo(t, at, ans) /\ Creates(t, at, ans)
                      /\ CreatingAt(fsAt[t], fsCall[t], MkdirPath(t))
<1>1. /\ fsAt[t].pc \in MkdirPcs /\ fsCall[t] \in FsCalls /\ fsAnswer[t] \in BOOLEAN
      /\ fsAnswer \in [FsThreads -> BOOLEAN]
      /\ CreatingAt(fsAt[t], fsCall[t], MkdirPath(t))
  <2>1. fsAt[t].pc \in MkdirPcs
    BY DEF MkdirStat, MkdirAccess, MkdirMake, OpenFile, FsIs, MkdirPcs
  <2>2. FsPlace(t) /\ fsAnswer[t] \in BOOLEAN /\ fsAnswer \in [FsThreads -> BOOLEAN]
    BY DEF FsShape
  <2>3. FsOut.pc = "out" /\ FsEnded.pc = "done"
    BY FsAtIs DEF FsOut, FsEnded
  <2> QED
    BY <2>1, <2>2, <2>3, Zenon DEF FsPlace, RemovingAt, MkdirPcs, RmPcs
<1>2. /\ fsCall[t].op \in {"Mkdir", "Open"} /\ fsAt[t].frames = <<>>
      /\ fsAt[t].pc \in {"open", "reopen"} => fsCall[t].op = "Open"
  BY <1>1 DEF CreatingAt, Creating
<1>3. fsAnswer = [fsAnswer EXCEPT ![t] = fsAnswer[t]]
  BY <1>1
<1>4. ASSUME NEW pc, FsGoes(t, pc), UNCHANGED <<fsCall, before, overlapped>>
      PROVE  \E at, ans : FsTo(t, at, ans) /\ PlacedAt(at, pc, fsAt[t].depth, <<>>)
  <2> DEFINE at == FsAt(pc, fsAt[t].depth, fsAt[t].path, fsAt[t].frames)
  <2>1. FsTo(t, at, fsAnswer[t])
    BY <1>1, <1>3, <1>4 DEF FsTo, FsGoes
  <2>2. PlacedAt(at, pc, fsAt[t].depth, <<>>)
    BY <1>2, FsAtIs DEF PlacedAt
  <2> QED
    BY <2>1, <2>2
<1>5. ASSUME NEW ok \in BOOLEAN, MkdirEnds(t, ok), UNCHANGED <<fsCall, before, overlapped>>
      PROVE  \E at, ans : FsTo(t, at, ans) /\ MakesOver(t, at, ans, ok)
  <2>1. CASE fsCall[t].op = "Open"
    BY <1>4, <1>5, <2>1, Zenon DEF MkdirEnds, MakesOver
  <2>2. CASE fsCall[t].op = "Mkdir"
    <3>1. FsTo(t, FsEnded, ok)
      BY <1>1, <1>5, <2>2 DEF MkdirEnds, FsEnds, FsTo, FsEnded
    <3> QED
      BY <2>2, <3>1 DEF MakesOver
  <2> QED
    BY <1>2, <2>1, <2>2
<1>6. ASSUME NEW depth, MkdirLooks(t, depth), UNCHANGED <<fsCall, before, overlapped>>
      PROVE  \E at, ans : FsTo(t, at, ans) /\ PlacedAt(at, "access", depth, <<>>)
  <2> DEFINE at == FsAt("access", depth, fsAt[t].path, <<>>)
  <2>1. FsTo(t, at, fsAnswer[t])
    BY <1>1, <1>3, <1>6 DEF FsTo, MkdirLooks
  <2>2. PlacedAt(at, "access", depth, <<>>)
    BY FsAtIs DEF PlacedAt
  <2> QED
    BY <2>1, <2>2
<1>7. ASSUME NextPrefix(t), UNCHANGED <<fsCall, before, overlapped>>
      PROVE  \E at, ans : FsTo(t, at, ans) /\ Passed(t, at, ans)
  <2>1. CASE fsAt[t].depth = Len(MkdirPath(t))
    <3>1. MkdirEnds(t, TRUE)
      BY <1>7, <2>1 DEF NextPrefix
    <3>2. PICK at, ans : FsTo(t, at, ans) /\ MakesOver(t, at, ans, TRUE)
      BY <1>5, <1>7, <3>1
    <3> QED
      BY <2>1, <3>2, Zenon DEF Passed
  <2>2. CASE fsAt[t].depth # Len(MkdirPath(t))
    <3>1. MkdirLooks(t, fsAt[t].depth + 1)
      BY <1>7, <2>2 DEF NextPrefix
    <3>2. PICK at, ans : FsTo(t, at, ans) /\ PlacedAt(at, "access", fsAt[t].depth + 1, <<>>)
      BY <1>6, <1>7, <3>1
    <3> QED
      BY <2>2, <3>2, Zenon DEF Passed
  <2> QED
    BY <2>1, <2>2
<1>8. CASE MkdirStat(t)
  <2>1. fsAt[t].pc = "lstat" /\ UNCHANGED <<fsCall, before, overlapped>> /\ UNCHANGED <<tree, lostRace>>
    BY <1>8 DEF MkdirStat, FsIs
  <2>2. CASE Exists(tree, MkdirPath(t))
    <3>1. MkdirEnds(t, TRUE)
      BY <1>8, <2>2 DEF MkdirStat
    <3>2. PICK at, ans : FsTo(t, at, ans) /\ MakesOver(t, at, ans, TRUE)
      BY <1>5, <2>1, <3>1
    <3> QED
      BY <1>1, <2>1, <2>2, <3>2, Zenon DEF Creates
  <2>3. CASE ~Exists(tree, MkdirPath(t))
    <3>1. MkdirLooks(t, 1)
      BY <1>8, <2>3 DEF MkdirStat
    <3>2. PICK at, ans : FsTo(t, at, ans) /\ PlacedAt(at, "access", 1, <<>>)
      BY <1>6, <2>1, <3>1
    <3> QED
      BY <1>1, <2>1, <2>3, <3>2, Zenon DEF Creates
  <2> QED
    BY <2>2, <2>3
<1>9. CASE MkdirAccess(t)
  <2>1. fsAt[t].pc = "access" /\ UNCHANGED <<fsCall, before, overlapped>> /\ UNCHANGED <<tree, lostRace>>
    BY <1>9 DEF MkdirAccess, FsIs
  <2>2. CASE Exists(tree, MkdirPrefix(t))
    <3>1. PICK at, ans : FsTo(t, at, ans) /\ Passed(t, at, ans)
      BY <1>7, <1>9, <2>1, <2>2 DEF MkdirAccess
    <3> QED
      BY <1>1, <2>1, <2>2, <3>1, Zenon DEF Creates
  <2>3. CASE ~Exists(tree, MkdirPrefix(t))
    <3>1. FsGoes(t, "mkdir")
      BY <1>9, <2>3 DEF MkdirAccess
    <3>2. PICK at, ans : FsTo(t, at, ans) /\ PlacedAt(at, "mkdir", fsAt[t].depth, <<>>)
      BY <1>4, <2>1, <3>1
    <3> QED
      BY <1>1, <2>1, <2>3, <3>2, Zenon DEF Creates
  <2> QED
    BY <2>2, <2>3
<1>10. CASE MkdirMake(t)
  <2>1. fsAt[t].pc = "mkdir" /\ UNCHANGED <<fsCall, before, overlapped>>
    BY <1>10 DEF MkdirMake, FsIs
  <2>2. CASE CanMake(tree, MkdirPrefix(t))
    <3>1. NextPrefix(t) /\ tree' = [tree EXCEPT ![MkdirPrefix(t)] = "dir"] /\ UNCHANGED lostRace
      BY <1>10, <2>2 DEF MkdirMake
    <3>2. PICK at, ans : FsTo(t, at, ans) /\ Passed(t, at, ans)
      BY <1>7, <2>1, <3>1
    <3> QED
      BY <1>1, <2>1, <2>2, <3>1, <3>2, Zenon DEF Creates
  <2>3. CASE ~CanMake(tree, MkdirPrefix(t))
    <3>1. /\ MkdirEnds(t, FALSE) /\ UNCHANGED tree
          /\ lostRace' = IF Exists(tree, MkdirPrefix(t)) THEN lostRace \cup {t} ELSE lostRace
      BY <1>10, <2>3 DEF MkdirMake
    <3>2. PICK at, ans : FsTo(t, at, ans) /\ MakesOver(t, at, ans, FALSE)
      BY <1>5, <2>1, <3>1
    <3> QED
      BY <1>1, <2>1, <2>3, <3>1, <3>2, Zenon DEF Creates
  <2> QED
    BY <2>2, <2>3
<1>11. CASE OpenFile(t)
  <2>1. /\ fsAt[t].pc \in {"open", "reopen"} /\ UNCHANGED <<fsCall, before, overlapped>>
        /\ UNCHANGED lostRace
    BY <1>11 DEF OpenFile
  <2>2. CASE CanOpen(tree, fsCall[t].path)
    <3>1. FsEnds(t, TRUE) /\ tree' = [tree EXCEPT ![fsCall[t].path] = "new"]
      BY <1>11, <2>2 DEF OpenFile
    <3>2. FsTo(t, FsEnded, TRUE)
      BY <1>1, <2>1, <3>1 DEF FsEnds, FsTo, FsEnded
    <3> QED
      BY <1>1, <2>1, <2>2, <3>1, <3>2, Zenon DEF Creates
  <2>3. CASE ~CanOpen(tree, fsCall[t].path) /\ fsAt[t].pc = "reopen"
    <3>1. FsEnds(t, FALSE) /\ tree' = tree
      <4>1. FsEnds(t, CanOpen(tree, fsCall[t].path)) /\ tree' = tree
        BY <1>11, <2>3, Zenon DEF OpenFile
      <4>2. CanOpen(tree, fsCall[t].path) = FALSE
        BY <2>3 DEF CanOpen
      <4> QED
        BY <4>1, <4>2, Zenon
    <3>2. FsTo(t, FsEnded, FALSE)
      BY <1>1, <2>1, <3>1 DEF FsEnds, FsTo, FsEnded
    <3> QED
      BY <1>1, <2>1, <2>3, <3>1, <3>2, Zenon DEF Creates
  <2>4. CASE ~CanOpen(tree, fsCall[t].path) /\ fsAt[t].pc = "open"
    <3>1. FsGoes(t, "lstat") /\ tree' = tree
      BY <1>11, <2>4 DEF OpenFile
    <3>2. PICK at, ans : FsTo(t, at, ans) /\ PlacedAt(at, "lstat", fsAt[t].depth, <<>>)
      BY <1>4, <2>1, <3>1
    <3> QED
      BY <1>1, <2>1, <2>4, <3>1, <3>2, Zenon DEF Creates
  <2> QED
    BY <2>1, <2>2, <2>3, <2>4
<1> QED
  BY <1>8, <1>9, <1>10, <1>11

LEMMA RemovesMove ==
  ASSUME FsShape, NEW t \in FsThreads,
         RmStat(t) \/ UnlinkStat(t) \/ Unlink(t) \/ RmOpendir(t) \/ RmEntry(t) \/ RmDir(t) \/ Rename(t)
  PROVE  \E at, ans : /\ FsTo(t, at, ans) /\ UNCHANGED lostRace
                      /\ RemovesTo(t, at, ans) \/ Renames(t, at, ans)
                      /\ RemovingAt(fsAt[t], fsCall[t])
<1>1. /\ fsAt[t].pc \in RmPcs \cup {"readdir", "rename"} /\ fsCall[t] \in FsCalls /\ fsAnswer[t] \in BOOLEAN
      /\ fsAnswer \in [FsThreads -> BOOLEAN] /\ UNCHANGED <<fsCall, before, overlapped, lostRace>>
      /\ RemovingAt(fsAt[t], fsCall[t])
  <2>1. /\ fsAt[t].pc \in RmPcs \cup {"readdir", "rename"}
        /\ UNCHANGED <<fsCall, before, overlapped, lostRace>>
    BY DEF RmStat, UnlinkStat, Unlink, RmOpendir, RmEntry, RmDir, Rename, FsIs, RmPcs
  <2>2. FsPlace(t) /\ fsAnswer[t] \in BOOLEAN /\ fsAnswer \in [FsThreads -> BOOLEAN]
    BY DEF FsShape
  <2>3. FsOut.pc = "out" /\ FsEnded.pc = "done"
    BY FsAtIs DEF FsOut, FsEnded
  <2> QED
    BY <2>1, <2>2, <2>3, Zenon DEF FsPlace, CreatingAt, MkdirPcs, RmPcs
<1>2. /\ fsAt[t].depth = 0 /\ FramesOK(fsAt[t].frames, fsCall[t].path)
      /\ fsAt[t].pc = "readdir" => fsAt[t].frames # <<>>
      /\ fsAt[t].pc \in RmPcs => fsAt[t].path \in FsPaths
  BY <1>1 DEF RemovingAt, LedTo, RmPcs
<1>3. fsAnswer = [fsAnswer EXCEPT ![t] = fsAnswer[t]]
  BY <1>1
<1>4. ASSUME NEW pc, FsGoes(t, pc)
      PROVE  \E at, ans : FsTo(t, at, ans) /\ PlacedAt(at, pc, 0, fsAt[t].frames) /\ at.path = fsAt[t].path
  <2> DEFINE at == FsAt(pc, fsAt[t].depth, fsAt[t].path, fsAt[t].frames)
  <2>1. FsTo(t, at, fsAnswer[t])
    BY <1>1, <1>3, <1>4 DEF FsTo, FsGoes
  <2>2. PlacedAt(at, pc, 0, fsAt[t].frames) /\ at.path = fsAt[t].path
    BY <1>2, FsAtIs DEF PlacedAt
  <2> QED
    BY <2>1, <2>2
<1>5. ASSUME NEW pc, NEW path, NEW fr, FsMoves(t, FsAt(pc, 0, path, fr)), UNCHANGED fsAnswer
      PROVE  \E at, ans : FsTo(t, at, ans) /\ PlacedAt(at, pc, 0, fr) /\ at.path = path
  <2> DEFINE at == FsAt(pc, 0, path, fr)
  <2>1. FsTo(t, at, fsAnswer[t])
    BY <1>1, <1>3, <1>5 DEF FsTo
  <2>2. PlacedAt(at, pc, 0, fr) /\ at.path = path
    BY FsAtIs DEF PlacedAt
  <2> QED
    BY <2>1, <2>2
<1>6. ASSUME NEW ok \in BOOLEAN, FsEnds(t, ok) PROVE FsTo(t, FsEnded, ok)
  BY <1>1, <1>6 DEF FsEnds, FsTo, FsEnded
<1>7. ASSUME NEW ok \in BOOLEAN, NEW fr, RmReturns(t, ok, fr)
      PROVE  \E at, ans : FsTo(t, at, ans) /\ ReturnsTo(t, at, ans, ok, fr)
  <2>1. CASE fr # <<>>
    <3>1. /\ FsMoves(t, FsAt("readdir", 0, <<>>, InLast(fr, RmFrame(Last(fr).path, Last(fr).left, ok))))
          /\ UNCHANGED fsAnswer
      BY <1>7, <2>1 DEF RmReturns
    <3>2. PICK at, ans : /\ FsTo(t, at, ans)
                         /\ PlacedAt(at, "readdir", 0, InLast(fr, RmFrame(Last(fr).path, Last(fr).left, ok)))
      BY <1>5, <3>1
    <3> QED
      BY <2>1, <3>2, Zenon DEF ReturnsTo
  <2>2. CASE fr = <<>> /\ fsCall[t].op # "Rm" /\ ok
    <3>1. FsMoves(t, FsAt("rename", 0, <<>>, <<>>)) /\ UNCHANGED fsAnswer
      BY <1>7, <2>2 DEF RmReturns
    <3>2. PICK at, ans : FsTo(t, at, ans) /\ PlacedAt(at, "rename", 0, <<>>)
      BY <1>5, <3>1
    <3> QED
      BY <2>2, <3>2, Zenon DEF ReturnsTo
  <2>3. CASE fr = <<>> /\ (fsCall[t].op = "Rm" \/ ~ok)
    <3>1. FsEnds(t, ok)
      BY <1>7, <2>3 DEF RmReturns
    <3>2. FsTo(t, FsEnded, ok)
      BY <1>6, <3>1
    <3> QED
      BY <2>3, <3>2, Zenon DEF ReturnsTo
  <2> QED
    BY <2>1, <2>2, <2>3
<1>8. CASE RmStat(t)
  <2>1. fsAt[t].pc = "rm" /\ UNCHANGED tree
    BY <1>8 DEF RmStat, FsIs
  <2>2. CASE ~Exists(tree, fsAt[t].path)
    <3>1. PICK at, ans : FsTo(t, at, ans) /\ ReturnsTo(t, at, ans, TRUE, fsAt[t].frames)
      BY <1>7, <1>8, <2>2 DEF RmStat
    <3> QED
      BY <1>1, <2>1, <2>2, <3>1, Zenon DEF RemovesTo
  <2>3. CASE Exists(tree, fsAt[t].path) /\ tree[fsAt[t].path] \in LooksLikeDir
    <3>1. FsGoes(t, "opendir")
      BY <1>8, <2>3 DEF RmStat
    <3>2. PICK at, ans : /\ FsTo(t, at, ans) /\ PlacedAt(at, "opendir", 0, fsAt[t].frames)
                         /\ at.path = fsAt[t].path
      BY <1>4, <3>1
    <3> QED
      BY <1>1, <2>1, <2>3, <3>2, Zenon DEF RemovesTo
  <2>4. CASE Exists(tree, fsAt[t].path) /\ tree[fsAt[t].path] \notin LooksLikeDir
    <3>1. FsGoes(t, "unlinkstat")
      BY <1>8, <2>4 DEF RmStat
    <3>2. PICK at, ans : /\ FsTo(t, at, ans) /\ PlacedAt(at, "unlinkstat", 0, fsAt[t].frames)
                         /\ at.path = fsAt[t].path
      BY <1>4, <3>1
    <3> QED
      BY <1>1, <2>1, <2>4, <3>2, Zenon DEF RemovesTo
  <2> QED
    BY <2>2, <2>3, <2>4
<1>9. CASE UnlinkStat(t)
  <2>1. fsAt[t].pc = "unlinkstat" /\ UNCHANGED tree
    BY <1>9 DEF UnlinkStat, FsIs
  <2>2. CASE ~Exists(tree, fsAt[t].path)
    <3>1. PICK at, ans : FsTo(t, at, ans) /\ ReturnsTo(t, at, ans, TRUE, fsAt[t].frames)
      BY <1>7, <1>9, <2>2 DEF UnlinkStat
    <3> QED
      BY <1>1, <2>1, <2>2, <3>1, Zenon DEF RemovesTo
  <2>3. CASE Exists(tree, fsAt[t].path)
    <3>1. FsGoes(t, "unlink")
      BY <1>9, <2>3 DEF UnlinkStat
    <3>2. PICK at, ans : /\ FsTo(t, at, ans) /\ PlacedAt(at, "unlink", 0, fsAt[t].frames)
                         /\ at.path = fsAt[t].path
      BY <1>4, <3>1
    <3> QED
      BY <1>1, <2>1, <2>3, <3>2, Zenon DEF RemovesTo
  <2> QED
    BY <2>2, <2>3
<1>10. CASE Unlink(t)
  <2>1. fsAt[t].pc = "unlink"
    BY <1>10 DEF Unlink, FsIs
  <2>2. CASE tree[fsAt[t].path] \notin {Nothing, "dir"}
    <3>1. RmReturns(t, TRUE, fsAt[t].frames) /\ tree' = [tree EXCEPT ![fsAt[t].path] = Nothing]
      <4>1. (tree[fsAt[t].path] \notin {Nothing, "dir"}) = TRUE
        BY <2>2
      <4> QED
        BY <1>10, <4>1, Zenon DEF Unlink
    <3>2. PICK at, ans : FsTo(t, at, ans) /\ ReturnsTo(t, at, ans, TRUE, fsAt[t].frames)
      BY <1>7, <3>1
    <3> QED
      BY <1>1, <2>1, <2>2, <3>1, <3>2, Zenon DEF RemovesTo
  <2>3. CASE tree[fsAt[t].path] \in {Nothing, "dir"}
    <3>1. RmReturns(t, FALSE, fsAt[t].frames) /\ tree' = tree
      <4>1. (tree[fsAt[t].path] \notin {Nothing, "dir"}) = FALSE
        BY <2>3
      <4> QED
        BY <1>10, <4>1, Zenon DEF Unlink
    <3>2. PICK at, ans : FsTo(t, at, ans) /\ ReturnsTo(t, at, ans, FALSE, fsAt[t].frames)
      BY <1>7, <3>1
    <3> QED
      BY <1>1, <2>1, <2>3, <3>1, <3>2, Zenon DEF RemovesTo
  <2> QED
    BY <2>2, <2>3
<1>11. CASE RmOpendir(t)
  <2>1. fsAt[t].pc = "opendir" /\ UNCHANGED tree
    BY <1>11 DEF RmOpendir, FsIs
  <2>2. CASE tree[fsAt[t].path] = "dir"
    <3> DEFINE new == Append(fsAt[t].frames, RmFrame(fsAt[t].path, Children(tree, fsAt[t].path), TRUE))
    <3>1. FsMoves(t, FsAt("readdir", 0, <<>>, new)) /\ UNCHANGED fsAnswer
      BY <1>11, <2>2 DEF RmOpendir
    <3>2. PICK at, ans : FsTo(t, at, ans) /\ PlacedAt(at, "readdir", 0, new)
      BY <1>5, <3>1
    <3> QED
      BY <1>1, <2>1, <2>2, <3>2, Zenon DEF RemovesTo
  <2>3. CASE tree[fsAt[t].path] # "dir"
    <3>1. RmReturns(t, FALSE, fsAt[t].frames)
      BY <1>11, <2>3 DEF RmOpendir
    <3>2. PICK at, ans : FsTo(t, at, ans) /\ ReturnsTo(t, at, ans, FALSE, fsAt[t].frames)
      BY <1>7, <3>1
    <3> QED
      BY <1>1, <2>1, <2>3, <3>2, Zenon DEF RemovesTo
  <2> QED
    BY <2>2, <2>3
<1>12. CASE RmEntry(t)
  <2> DEFINE last == Last(fsAt[t].frames)
             new(q) == InLast(fsAt[t].frames, RmFrame(last.path, last.left \ {q}, last.ret))
  <2>1. fsAt[t].pc = "readdir" /\ UNCHANGED tree /\ UNCHANGED fsAnswer
    BY <1>12 DEF RmEntry, FsIs
  <2>2. PICK q \in last.left : FsMoves(t, FsAt("rm", 0, q, new(q)))
    BY <1>12 DEF RmEntry
  <2>3. PICK at, ans : FsTo(t, at, ans) /\ PlacedAt(at, "rm", 0, new(q)) /\ at.path = q
    BY <1>5, <2>1, <2>2
  <2>4. PlacedAt(at, "rm", 0, new(at.path)) /\ at.path \in last.left
    BY <2>2, <2>3, Zenon
  <2> QED
    BY <1>1, <2>1, <2>3, <2>4, Zenon DEF RemovesTo
<1>13. CASE RmDir(t)
  <2> DEFINE last == Last(fsAt[t].frames)
  <2>1. fsAt[t].pc = "readdir" /\ last.left = {}
    BY <1>13 DEF RmDir, FsIs
  <2>2. last.ret \in BOOLEAN
    BY <1>2, <2>1, FramesPopped, CallsAre, <1>1
  <2>3. CASE tree[last.path] = "dir" /\ Children(tree, last.path) = {}
    <3>1. (last.ret /\ (tree[last.path] = "dir" /\ Children(tree, last.path) = {})) = last.ret
      BY <2>2, <2>3
    <3>2. /\ RmReturns(t, last.ret /\ (tree[last.path] = "dir" /\ Children(tree, last.path) = {}), Front(fsAt[t].frames))
          /\ tree' = [tree EXCEPT ![last.path] = Nothing]
      BY <1>13, <2>3, Zenon DEF RmDir
    <3>3. RmReturns(t, last.ret, Front(fsAt[t].frames))
      BY <3>1, <3>2, Zenon
    <3>4. PICK at, ans : FsTo(t, at, ans) /\ ReturnsTo(t, at, ans, last.ret, Front(fsAt[t].frames))
      BY <1>7, <2>2, <3>3
    <3> QED
      BY <1>1, <2>1, <2>3, <3>2, <3>4, Zenon DEF RemovesTo
  <2>4. CASE ~(tree[last.path] = "dir" /\ Children(tree, last.path) = {})
    <3>1. (last.ret /\ (tree[last.path] = "dir" /\ Children(tree, last.path) = {})) = FALSE
      BY <2>2, <2>4
    <3>2. /\ RmReturns(t, last.ret /\ (tree[last.path] = "dir" /\ Children(tree, last.path) = {}), Front(fsAt[t].frames))
          /\ tree' = tree
      BY <1>13, <2>4, Zenon DEF RmDir
    <3>3. RmReturns(t, FALSE, Front(fsAt[t].frames))
      BY <3>1, <3>2, Zenon
    <3>4. PICK at, ans : FsTo(t, at, ans) /\ ReturnsTo(t, at, ans, FALSE, Front(fsAt[t].frames))
      BY <1>7, <3>3
    <3> QED
      BY <1>1, <2>1, <2>4, <3>2, <3>4, Zenon DEF RemovesTo
  <2> QED
    BY <2>3, <2>4
<1>14. CASE Rename(t)
  <2> DEFINE to == fsCall[t].path
             from == fsCall[t].from
             can == IF fsCall[t].op = "Mv" THEN CanRename(tree, from, to) ELSE CanMake(tree, to)
  <2>1. /\ fsAt[t].pc = "rename" /\ FsEnds(t, can)
        /\ tree' = CASE ~can -> tree [] can /\ fsCall[t].op = "Mv" -> Renamed(tree, from, to)
                     [] OTHER -> [tree EXCEPT ![to] = "link"]
    BY <1>14, Zenon DEF Rename, FsIs
  <2>2. can \in BOOLEAN
    BY DEF CanRename, CanMake
  <2>3. FsTo(t, FsEnded, can)
    BY <1>6, <2>1, <2>2
  <2>4. CASE ~can
    <3>1. tree' = tree
      BY <2>1, <2>4
    <3> QED
      BY <1>1, <2>1, <2>3, <2>4, <3>1, Zenon DEF Renames
  <2>5. CASE can /\ fsCall[t].op = "Mv"
    <3>1. tree' = Renamed(tree, from, to)
      BY <2>1, <2>5
    <3> QED
      BY <1>1, <2>1, <2>3, <2>5, <3>1, Zenon DEF Renames
  <2>6. CASE can /\ fsCall[t].op # "Mv"
    <3>1. tree' = [tree EXCEPT ![to] = "link"]
      BY <2>1, <2>6
    <3> QED
      BY <1>1, <2>1, <2>3, <2>6, <3>1, Zenon DEF Renames
  <2> QED
    BY <2>4, <2>5, <2>6
<1> QED
  BY <1>8, <1>9, <1>10, <1>11, <1>12, <1>13, <1>14

(* A thread is somewhere else, and the others are where they were. *)
LEMMA WentTo ==
  ASSUME FsShape, NEW t \in FsThreads, NEW at, NEW ans, FsTo(t, at, ans)
  PROVE  /\ fsAt'[t] = at /\ fsAnswer'[t] = ans /\ DOMAIN fsAt' = FsThreads
         /\ \A u \in FsThreads \ {t} : fsAt'[u] = fsAt[u] /\ fsAnswer'[u] = fsAnswer[u]
         /\ fsCall' = fsCall /\ before' = before /\ fsCall[t] \in FsCalls
         /\ \A u \in FsThreads : MkdirPath(u)' = MkdirPath(u)
BY DEF FsShape, FsTo, FsMoves, MkdirPath

LEMMA ToShape ==
  ASSUME FsShape, NEW t \in FsThreads, NEW at, NEW ans, FsTo(t, at, ans), TreeOK(tree'),
         at = FsEnded \/ CreatingAt(at, fsCall[t], MkdirPath(t)) \/ RemovingAt(at, fsCall[t]),
         lostRace' = lostRace \/ lostRace' = lostRace \cup {t},
         t \in lostRace' => at.pc \in {"reopen", "done"}
  PROVE  FsShape'
<1>1. /\ fsAt'[t] = at /\ fsAnswer'[t] = ans /\ DOMAIN fsAt' = FsThreads
      /\ \A u \in FsThreads \ {t} : fsAt'[u] = fsAt[u] /\ fsAnswer'[u] = fsAnswer[u]
      /\ fsCall' = fsCall /\ before' = before /\ fsCall[t] \in FsCalls
      /\ \A u \in FsThreads : MkdirPath(u)' = MkdirPath(u)
  BY WentTo
<1>2. fsAnswer' \in [FsThreads -> BOOLEAN]
  BY DEF FsShape, FsTo
<1>3. \A u \in FsThreads : FsPlace(u)'
  <2> TAKE u \in FsThreads
  <2>1. FsPlace(u)
    BY DEF FsShape
  <2>2. CASE u = t
    BY <1>1, <2>2, Zenon DEF FsPlace
  <2>3. CASE u # t
    <3>1. fsAt'[u] = fsAt[u] /\ fsCall' = fsCall /\ MkdirPath(u)' = MkdirPath(u)
      BY <1>1, <2>3
    <3> QED
      BY <2>1, <3>1, Zenon DEF FsPlace
  <2> QED
    BY <2>2, <2>3
<1>4. \A u \in lostRace' : fsAt'[u].pc \in {"reopen", "done"}
  <2> TAKE u \in lostRace'
  <2>1. CASE u = t
    BY <1>1, <2>1
  <2>2. CASE u # t
    BY <1>1, <2>2 DEF FsShape
  <2> QED
    BY <2>1, <2>2
<1> QED
  BY <1>1, <1>2, <1>3, <1>4 DEF FsShape, FsTo

(* The path that Mkdir makes, and what it has come to of it. *)
LEMMA MkdirPathIs ==
  ASSUME NEW t \in FsThreads, fsCall[t] \in FsCalls
  PROVE  MkdirPath(t) \in Seq(FsNames) /\ (MkdirPath(t) = <<>> \/ MkdirPath(t) \in FsPaths)
<1>1. fsCall[t].path \in FsPaths
  BY CallsAre
<1> QED
  BY <1>1, PathsAre, ParentIs DEF MkdirPath, Dirname

LEMMA MkdirPrefixIs ==
  ASSUME NEW t \in FsThreads, fsCall[t] \in FsCalls, fsAt[t].depth \in 1..Len(MkdirPath(t))
  PROVE  /\ MkdirPath(t) \in FsPaths /\ MkdirPath(t) \in Seq(FsNames) /\ Len(MkdirPath(t)) \in Nat \ {0}
         /\ MkdirPrefix(t) \in FsPaths /\ MkdirPrefix(t) \in Seq(FsNames)
         /\ Len(MkdirPrefix(t)) = fsAt[t].depth
         /\ IsPrefix(MkdirPrefix(t), MkdirPath(t)) /\ MkdirPrefix(t) # <<>>
         /\ Front(MkdirPrefix(t)) = SubSeq(MkdirPath(t), 1, fsAt[t].depth - 1)
         /\ fsAt[t].depth = Len(MkdirPath(t)) => MkdirPrefix(t) = MkdirPath(t)
<1> DEFINE m == MkdirPath(t)
           k == fsAt[t].depth
<1>1. m \in Seq(FsNames) /\ (m = <<>> \/ m \in FsPaths)
  BY MkdirPathIs
<1>2. k \in 1..Len(m) /\ Len(m) \in Nat /\ MkdirPrefix(t) = SubSeq(m, 1, k)
  BY <1>1, LenProperties DEF MkdirPrefix
<1> HIDE DEF m, k
<1>3. k \in 0..Len(m) /\ k # 0 /\ Len(m) # 0
  BY <1>2
<1>4. m \in FsPaths
  BY <1>1, <1>3, EmptySeq
<1>5. /\ SubSeq(m, 1, k) \in Seq(FsNames) /\ Len(SubSeq(m, 1, k)) = k /\ IsPrefix(SubSeq(m, 1, k), m)
      /\ k = Len(m) => SubSeq(m, 1, k) = m
      /\ SubSeq(m, 1, k) # <<>> /\ Front(SubSeq(m, 1, k)) = SubSeq(m, 1, k - 1)
  BY <1>1, <1>3, PrefixOf
<1>6. SubSeq(m, 1, k) \in FsPaths
  BY <1>4, <1>5, PathsAre
<1> QED
  BY <1>1, <1>2, <1>3, <1>4, <1>5, <1>6 DEF m, k

LEMMA CreatesKeepsShape ==
  ASSUME FsShape, NEW t \in FsThreads, NEW at, NEW ans, FsTo(t, at, ans), Creates(t, at, ans),
         CreatingAt(fsAt[t], fsCall[t], MkdirPath(t))
  PROVE  FsShape'
<1> DEFINE c == fsCall[t]
           m == MkdirPath(t)
           d == fsAt[t].depth
<1>1. /\ c \in FsCalls /\ c.op \in Creating /\ c.path \in FsPaths /\ m \in Seq(FsNames)
      /\ m = <<>> \/ m \in FsPaths
      /\ Len(m) \in Nat /\ d \in 0..Len(m) /\ TreeOK(tree)
  BY CallsAre, MkdirPathIs, LenProperties DEF FsTo, CreatingAt, FsShape
<1>3. FsEnded.pc = "done"
  BY FsAtIs DEF FsEnded
<1>4. ASSUME NEW ok, MakesOver(t, at, ans, ok)
      PROVE  /\ at = FsEnded \/ CreatingAt(at, c, m)
             /\ at.pc \in {"reopen", "done"}
  <2>1. CASE c.op = "Open" /\ PlacedAt(at, "reopen", d, <<>>)
    BY <1>1, <2>1 DEF PlacedAt, CreatingAt, MkdirPcs
  <2>2. CASE at = FsEnded
    BY <1>3, <2>2
  <2> QED
    BY <1>4, <2>1, <2>2 DEF MakesOver
<1>5. ASSUME Passed(t, at, ans), d \in 1..Len(m)
      PROVE  at = FsEnded \/ CreatingAt(at, c, m)
  <2>1. CASE MakesOver(t, at, ans, TRUE)
    BY <1>4, <2>1
  <2>2. CASE d # Len(m) /\ PlacedAt(at, "access", d + 1, <<>>)
    <3>1. d + 1 \in 1..Len(m) /\ d + 1 \in 0..Len(m)
      BY <1>1, <1>5, <2>2
    <3> QED
      BY <1>1, <2>2, <3>1 DEF PlacedAt, CreatingAt, MkdirPcs
  <2> QED
    BY <1>5, <2>1, <2>2 DEF Passed
<1>6. fsAt[t].pc \in {"access", "mkdir"} => d \in 1..Len(m)
  BY DEF CreatingAt
<1>7. TreeOK(tree')
  <2>1. CASE UNCHANGED tree
    BY <1>1, <2>1
  <2>2. CASE /\ fsAt[t].pc = "mkdir" /\ CanMake(tree, MkdirPrefix(t))
             /\ tree' = [tree EXCEPT ![MkdirPrefix(t)] = "dir"]
    <3>1. MkdirPrefix(t) \in FsPaths
      BY <1>1, <1>6, <2>2, MkdirPrefixIs
    <3> QED
      BY <1>1, <2>2, <3>1, PutStands DEF CanMake, FsKinds, Nothing
  <2>3. CASE CanOpen(tree, c.path) /\ tree' = [tree EXCEPT ![c.path] = "new"]
    <3>1. IsDir(tree, Front(c.path)) /\ tree[c.path] # "dir"
      BY <2>3 DEF CanOpen, LooksLikeDir
    <3>2. TreeOK([tree EXCEPT ![c.path] = "new"])
      BY <1>1, <3>1, PutStands DEF FsKinds, Nothing
    <3> QED
      BY <2>3, <3>2
  <2> QED
    BY <2>1, <2>2, <2>3, Zenon DEF Creates
<1>8. at = FsEnded \/ CreatingAt(at, c, m)
  <2>1. CASE fsAt[t].pc = "lstat" /\ Exists(tree, m) /\ MakesOver(t, at, ans, TRUE)
    BY <1>4, <2>1
  <2>2. CASE ~Exists(tree, m) /\ PlacedAt(at, "access", 1, <<>>)
    <3>1. m # <<>>
      BY <2>2 DEF Exists
    <3>2. Len(m) # 0
      BY <1>1, <3>1, EmptySeq
    <3> QED
      BY <1>1, <2>2, <3>2 DEF PlacedAt, CreatingAt, MkdirPcs
  <2>3. CASE fsAt[t].pc \in {"access", "mkdir"} /\ Passed(t, at, ans)
    BY <1>5, <1>6, <2>3
  <2>4. CASE fsAt[t].pc = "access" /\ PlacedAt(at, "mkdir", d, <<>>)
    BY <1>1, <1>6, <2>4 DEF PlacedAt, CreatingAt, MkdirPcs
  <2>5. CASE MakesOver(t, at, ans, FALSE)
    BY <1>4, <2>5
  <2>6. CASE at = FsEnded
    BY <2>6
  <2>7. CASE fsAt[t].pc = "open" /\ PlacedAt(at, "lstat", d, <<>>)
    BY <1>1, <2>7 DEF PlacedAt, CreatingAt, MkdirPcs
  <2> QED
    BY <2>1, <2>2, <2>3, <2>4, <2>5, <2>6, <2>7, Zenon DEF Creates
<1>9. lostRace' = lostRace \/ lostRace' = lostRace \cup {t}
  BY DEF Creates
<1>10. t \in lostRace' => at.pc \in {"reopen", "done"}
  <2>1. CASE MakesOver(t, at, ans, FALSE)
    BY <1>4, <2>1
  <2>2. CASE UNCHANGED lostRace /\ fsAt[t].pc \in {"lstat", "access", "mkdir", "open"}
    BY <2>2 DEF FsShape
  <2>3. CASE at = FsEnded
    BY <1>3, <2>3
  <2> QED
    BY <2>1, <2>2, <2>3, Zenon DEF Creates
<1> QED
  BY <1>7, <1>8, <1>9, <1>10, ToShape

(* The entries of a directory. *)
LEMMA ChildrenAre ==
  ASSUME NEW tr, NEW p
  PROVE  Children(tr, p) \in SUBSET FsPaths /\ \A d \in Children(tr, p) : Front(d) = p
BY DEF Children

LEMMA RemovesKeepsShape ==
  ASSUME FsShape, NEW t \in FsThreads, NEW at, NEW ans, FsTo(t, at, ans), UNCHANGED lostRace,
         RemovesTo(t, at, ans) \/ Renames(t, at, ans), RemovingAt(fsAt[t], fsCall[t])
  PROVE  FsShape'
<1> DEFINE c == fsCall[t]
           p == c.path
           fr == fsAt[t].frames
           x == fsAt[t].path
           pc == fsAt[t].pc
<1>1. /\ c \in FsCalls /\ c.op \in RemovingOps /\ p \in FsPaths /\ TreeOK(tree) /\ FramesOK(fr, p)
      /\ c.op = "Mv" => c.from \in FsPaths
      /\ pc \in RmPcs => LedTo(fr, p, x) /\ x \in FsPaths
      /\ pc = "readdir" => fr # <<>>
      /\ pc \in RmPcs \/ pc \in {"readdir", "rename"}
  <2>1. c \in FsCalls /\ p \in FsPaths /\ TreeOK(tree) /\ (c.op = "Mv" => c.from \in FsPaths)
    BY CallsAre DEF FsTo, FsShape
  <2>2. RemovingAt(fsAt[t], c)
    OBVIOUS
  <2> QED
    BY <2>1, <2>2 DEF RemovingAt, LedTo, RmPcs
<1>2. pc \in {"rm", "unlinkstat", "unlink", "opendir"} <=> pc \in RmPcs
  BY DEF RmPcs
<1>3. t \notin lostRace
  BY <1>1, <1>2 DEF FsShape, RmPcs
<1>4. FramesOK(<<>>, p)
  BY EmptySeq DEF FramesOK
<1>5. ASSUME NEW ok \in BOOLEAN, NEW f, FramesOK(f, p), ReturnsTo(t, at, ans, ok, f)
      PROVE  at = FsEnded \/ RemovingAt(at, c)
  <2>1. CASE f # <<>> /\ PlacedAt(at, "readdir", 0, InLast(f, RmFrame(Last(f).path, Last(f).left, ok)))
    <3> DEFINE new == InLast(f, RmFrame(Last(f).path, Last(f).left, ok))
    <3>1. FramesOK(new, p) /\ new # <<>>
      BY <1>1, <1>5, <2>1, FramesReturned
    <3> HIDE DEF new
    <3>2. PlacedAt(at, "readdir", 0, new)
      BY <2>1 DEF new
    <3> QED
      BY <1>1, <3>1, <3>2 DEF PlacedAt, RemovingAt
  <2>2. CASE c.op # "Rm" /\ PlacedAt(at, "rename", 0, <<>>)
    BY <1>1, <1>4, <2>2 DEF PlacedAt, RemovingAt
  <2>3. CASE at = FsEnded
    BY <2>3
  <2> QED
    BY <1>5, <2>1, <2>2, <2>3, Zenon DEF ReturnsTo
<1>6. ASSUME pc = "readdir"
      PROVE  FramesOK(Front(fr), p) /\ Last(fr).ret \in BOOLEAN /\ Last(fr).path \in FsPaths
  BY <1>1, <1>6, FramesPopped DEF LedTo
<1>7. at = FsEnded \/ RemovingAt(at, c)
  <2>1. CASE pc \in RmPcs /\ \E ok \in BOOLEAN : ReturnsTo(t, at, ans, ok, fr)
    BY <1>1, <1>5, <2>1
  <2>2. CASE pc \in RmPcs /\ at.path = x /\ \E q \in RmPcs : PlacedAt(at, q, 0, fr)
    BY <1>1, <2>2 DEF PlacedAt, RemovingAt
  <2>3. CASE pc = "opendir" /\ PlacedAt(at, "readdir", 0, Append(fr, RmFrame(x, Children(tree, x), TRUE)))
    <3> DEFINE new == Append(fr, RmFrame(x, Children(tree, x), TRUE))
    <3>1. FramesOK(new, p) /\ new # <<>>
      <4> DEFINE kids == Children(tree, x)
      <4>1. x \in FsPaths /\ LedTo(fr, p, x) /\ kids \in SUBSET FsPaths /\ \A d \in kids : Front(d) = x
        BY <1>1, <1>2, <2>3, ChildrenAre
      <4>2. new = Append(fr, RmFrame(x, kids, TRUE))
        OBVIOUS
      <4>3. p \in FsPaths /\ FramesOK(fr, p)
        BY <1>1
      <4> HIDE DEF new, kids, x, fr, p
      <4>4. FramesOK(Append(fr, RmFrame(x, kids, TRUE)), p)
        BY <4>1, <4>3, FramesPushed
      <4>5. Append(fr, RmFrame(x, kids, TRUE)) # <<>>
        <5>1. fr \in Seq(RmFrames) /\ RmFrame(x, kids, TRUE) \in RmFrames
          BY <4>1, <4>3, FrameIs DEF FramesOK
        <5> QED
          BY <5>1, AppendProperties
      <4> QED
        BY <4>2, <4>4, <4>5, Zenon
    <3> HIDE DEF new
    <3>2. PlacedAt(at, "readdir", 0, new)
      BY <2>3 DEF new
    <3> QED
      BY <1>1, <3>1, <3>2 DEF PlacedAt, RemovingAt
  <2>4. CASE /\ pc = "readdir" /\ at.path \in Last(fr).left
             /\ PlacedAt(at, "rm", 0, InLast(fr, RmFrame(Last(fr).path, Last(fr).left \ {at.path}, Last(fr).ret)))
    <3> DEFINE new == InLast(fr, RmFrame(Last(fr).path, Last(fr).left \ {at.path}, Last(fr).ret))
    <3>1. FramesOK(new, p) /\ LedTo(new, p, at.path)
      <4> DEFINE e == at.path
      <4>1. e \in Last(fr).left /\ new = InLast(fr, RmFrame(Last(fr).path, Last(fr).left \ {e}, Last(fr).ret))
        BY <2>4
      <4> HIDE DEF new, e
      <4>2. FramesOK(new, p) /\ LedTo(new, p, e)
        BY <1>1, <2>4, <4>1, FramesTaken
      <4> QED
        BY <4>2 DEF e
    <3> HIDE DEF new
    <3>2. PlacedAt(at, "rm", 0, new)
      BY <2>4 DEF new
    <3> QED
      BY <1>1, <3>1, <3>2 DEF PlacedAt, RemovingAt, RmPcs
  <2>5. CASE pc = "readdir" /\ \E ok \in BOOLEAN : ReturnsTo(t, at, ans, ok, Front(fr))
    BY <1>5, <1>6, <2>5
  <2>6. CASE at = FsEnded
    BY <2>6
  <2>7. CASE RemovesTo(t, at, ans)
    <3>1. CASE \/ pc \in {"rm", "unlinkstat"} /\ ReturnsTo(t, at, ans, TRUE, fr)
               \/ pc = "unlink" /\ ReturnsTo(t, at, ans, TRUE, fr)
               \/ pc \in {"unlink", "opendir"} /\ ReturnsTo(t, at, ans, FALSE, fr)
      BY <1>2, <2>1, <3>1
    <3>2. CASE /\ pc \in {"rm", "unlinkstat"} /\ at.path = x
               /\ \/ PlacedAt(at, "opendir", 0, fr) \/ PlacedAt(at, "unlinkstat", 0, fr)
                  \/ PlacedAt(at, "unlink", 0, fr)
      <4>1. "opendir" \in RmPcs /\ "unlinkstat" \in RmPcs /\ "unlink" \in RmPcs
        BY DEF RmPcs
      <4> QED
        BY <1>2, <2>2, <3>2, <4>1
    <3>3. CASE pc = "readdir" /\ (ReturnsTo(t, at, ans, Last(fr).ret, Front(fr)) \/ ReturnsTo(t, at, ans, FALSE, Front(fr)))
      BY <1>6, <2>5, <3>3
    <3> QED
      BY <2>3, <2>4, <2>7, <3>1, <3>2, <3>3, Zenon DEF RemovesTo
  <2> QED
    BY <2>6, <2>7 DEF Renames
<1>8. TreeOK(tree')
  <2>1. CASE UNCHANGED tree
    BY <1>1, <2>1
  <2>2. CASE pc = "unlink" /\ tree[x] \notin {Nothing, "dir"} /\ tree' = [tree EXCEPT ![x] = Nothing]
    <3>1. x \in FsPaths
      BY <1>1, <1>2, <2>2
    <3>2. \A q \in FsPaths : IsStrictPrefix(x, q) => tree[q] = Nothing
      BY <1>1, <2>2, <3>1, StandsIn DEF IsStrictPrefix
    <3>3. TreeOK([tree EXCEPT ![x] = Nothing])
      BY <1>1, <3>1, <3>2, CutStands
    <3> QED
      BY <2>2, <3>3
  <2>3. CASE /\ pc = "readdir" /\ Children(tree, Last(fr).path) = {}
             /\ tree' = [tree EXCEPT ![Last(fr).path] = Nothing]
    <3> DEFINE d == Last(fr).path
    <3>1. d \in FsPaths
      BY <1>6, <2>3
    <3> HIDE DEF d
    <3>2. \A q \in FsPaths : IsStrictPrefix(d, q) => tree[q] = Nothing
      BY <1>1, <2>3, <3>1, NoChildren DEF d
    <3>3. TreeOK([tree EXCEPT ![d] = Nothing])
      BY <1>1, <3>1, <3>2, CutStands
    <3> QED
      BY <2>3, <3>3 DEF d
  <2>4. CASE c.op = "Mv" /\ CanRename(tree, c.from, p) /\ tree' = Renamed(tree, c.from, p)
    BY <1>1, <2>4, RenamedStands
  <2>5. CASE CanMake(tree, p) /\ tree' = [tree EXCEPT ![p] = "link"]
    <3>1. IsDir(tree, Front(p)) /\ tree[p] # "dir"
      BY <2>5 DEF CanMake, Nothing
    <3>2. TreeOK([tree EXCEPT ![p] = "link"])
      BY <1>1, <3>1, PutStands DEF FsKinds, Nothing
    <3> QED
      BY <2>5, <3>2
  <2> QED
    BY <2>1, <2>2, <2>3, <2>4, <2>5, Zenon DEF RemovesTo, Renames
<1> QED
  BY <1>3, <1>7, <1>8, ToShape

(* A call begins. *)
LEMMA BeginKeepsShape ==
  ASSUME FsShape, NEW t \in FsThreads, FsBegin(t)
  PROVE  FsShape'
<1>1. PICK c \in FsCalls :
        /\ fsCall' = [fsCall EXCEPT ![t] = c]
        /\ FsMoves(t, FsAt(CASE c.op = "Mkdir" -> "lstat" [] c.op = "Open" -> "open" [] OTHER -> "rm",
                          0, c.path, <<>>))
  BY DEF FsBegin
<1> DEFINE pc == CASE c.op = "Mkdir" -> "lstat" [] c.op = "Open" -> "open" [] OTHER -> "rm"
           at == FsAt(pc, 0, c.path, <<>>)
<1>2. /\ c.op \in Creating \cup RemovingOps /\ c.path \in FsPaths
      /\ c.op = "Mkdir" => pc = "lstat"
      /\ c.op = "Open" => pc = "open"
      /\ c.op \in RemovingOps => pc = "rm"
      /\ c.op \in Creating => c.op \in {"Mkdir", "Open"}
  BY CallsAre DEF Creating, RemovingOps
<1>3. at.pc = pc /\ at.depth = 0 /\ at.path = c.path /\ at.frames = <<>>
  BY FsAtIs
<1> HIDE DEF pc, at
<1>4. /\ fsAt'[t] = at /\ DOMAIN fsAt' = FsThreads /\ fsCall'[t] = c
      /\ fsCall' \in [FsThreads -> FsCalls \cup {NoCall}]
      /\ \A u \in FsThreads \ {t} : fsAt'[u] = fsAt[u] /\ fsCall'[u] = fsCall[u]
  BY <1>1 DEF FsShape, FsMoves, at, pc
<1>5. FsPlace(t)'
  <2>1. CASE c.op \in Creating
    <3>1. pc \in MkdirPcs /\ pc \notin {"access", "mkdir", "reopen"} /\ (pc = "open" => c.op = "Open")
      BY <1>2, <2>1 DEF MkdirPcs
    <3>2. MkdirPath(t)' \in Seq(FsNames)
      <4>1. MkdirPath(t)' = IF c.op = "Open" THEN Front(c.path) ELSE c.path
        BY <1>4 DEF MkdirPath, Dirname
      <4> QED
        BY <1>2, <4>1, PathsAre, ParentIs
    <3>3. 0 \in 0..Len(MkdirPath(t)')
      BY <3>2, LenProperties
    <3>4. CreatingAt(at, c, MkdirPath(t)')
      BY <1>3, <2>1, <3>1, <3>3 DEF CreatingAt
    <3> QED
      BY <1>4, <3>4, Zenon DEF FsPlace
  <2>2. CASE c.op \in RemovingOps
    <3>1. pc = "rm"
      BY <1>2, <2>2
    <3>2. FramesOK(<<>>, c.path)
      BY EmptySeq DEF FramesOK
    <3>3. LedTo(<<>>, c.path, c.path)
      <4>1. IsPrefix(c.path, c.path)
        BY <1>2, PathsAre, PrefixOrder
      <4> QED
        BY <1>2, <4>1, EmptySeq DEF LedTo
    <3>4. RemovingAt(at, c)
      BY <1>3, <2>2, <3>1, <3>2, <3>3 DEF RemovingAt, RmPcs
    <3> QED
      BY <1>4, <3>4, Zenon DEF FsPlace
  <2> QED
    BY <1>2, <2>1, <2>2
<1>6. ASSUME NEW u \in FsThreads, u # t PROVE FsPlace(u)'
  <2>1. fsAt'[u] = fsAt[u] /\ fsCall'[u] = fsCall[u] /\ FsPlace(u)
    BY <1>4, <1>6 DEF FsShape
  <2>2. MkdirPath(u)' = MkdirPath(u)
    BY <2>1 DEF MkdirPath
  <2> QED
    BY <2>1, <2>2, Zenon DEF FsPlace
<1>7. TreeOK(tree') /\ TreeOK(before')
  BY DEF FsBegin, FsShape
<1>8. FsRunning \subseteq FsThreads /\ UNCHANGED <<fsAnswer, lostRace>>
  BY DEF FsRunning, FsBegin
<1>9. overlapped' \subseteq FsThreads
  BY <1>8 DEF FsBegin, FsShape
<1>10. \A u \in lostRace' : fsAt'[u].pc \in {"reopen", "done"}
  <2>1. t \notin lostRace
    BY DEF FsBegin, FsShape
  <2> QED
    BY <1>4, <1>8, <2>1 DEF FsShape
<1> QED
  BY <1>4, <1>5, <1>6, <1>7, <1>8, <1>9, <1>10 DEF FsShape

LEMMA FsInitShape == FsInit => FsShape
<1> SUFFICES ASSUME FsInit PROVE FsShape
  OBVIOUS
<1>1. TreeOK(tree) /\ before = tree
  BY FileTreeAssumption DEF FsInit, TreeOK
<1>2. \A t \in FsThreads : FsPlace(t)
  BY DEF FsInit, FsPlace
<1> QED
  BY <1>1, <1>2 DEF FsInit, FsShape

(* Removing.  What others remove leaves what a call knows, and has still to look at. *)
Shrinks(tr, new) == \A q \in FsPaths : new[q] = tr[q] \/ (new[q] = Nothing /\ tr[q] # "sock")

LEMMA KeptStays ==
  ASSUME NEW tr, NEW new, Shrinks(tr, new)
  PROVE  \A q : Kept(new, q) <=> Kept(tr, q)
BY DEF Shrinks, Kept, Nothing

LEMMA ShrinkKeeps ==
  ASSUME NEW tr, NEW new, Shrinks(tr, new), NEW at, NEW c, at = FsEnded \/ RemovingAt(at, c), NEW p,
         RmKnows(tr, at), RmPends(tr, at, p)
  PROVE  RmKnows(new, at) /\ RmPends(new, at, p)
<1>1. /\ at.pc \in {"unlinkstat", "unlink", "opendir"} => at.path \in FsPaths
      /\ \A i \in 1..Len(at.frames) : at.frames[i].path \in FsPaths
  <2>1. CASE at = FsEnded
    <3>1. at.pc = "done" /\ at.frames = <<>> /\ Len(<<>>) = 0
      BY <2>1, FsAtIs, EmptySeq DEF FsEnded
    <3> QED
      BY <3>1
  <2>2. CASE RemovingAt(at, c)
    BY <2>2, FramesAre DEF RemovingAt, LedTo, RmPcs, FramesOK
  <2> QED
    BY <2>1, <2>2
<1>2. RmKnows(new, at)
  BY <1>1 DEF RmKnows, Shrinks, LooksLikeDir, Nothing
<1>3. RmPends(new, at, p)
  BY KeptStays DEF RmPends, Shrinks
<1> QED
  BY <1>2, <1>3

(* A call that returns leaves to the loops that made it what it has not looked at. *)
LEMMA ReturnedPends ==
  ASSUME NEW t, NEW at, NEW ans, NEW ok \in BOOLEAN, NEW p \in FsPaths, NEW f, FramesOK(f, p),
         ReturnsTo(t, at, ans, ok, f), NEW new,
         \A i \in 1..Len(f) : new[f[i].path] \in {"dir", Nothing},
         \A q \in FsPaths : IsPrefix(p, q) /\ new[q] # Nothing => Kept(new, q) \/ FrOwed(f, q)
  PROVE  RmKnows(new, at) /\ RmPends(new, at, p)
<1>1. CASE f # <<>> /\ PlacedAt(at, "readdir", 0, InLast(f, RmFrame(Last(f).path, Last(f).left, ok)))
  <2> DEFINE g == InLast(f, RmFrame(Last(f).path, Last(f).left, ok))
  <2>1. /\ Len(g) = Len(f) /\ \A i \in 1..Len(f) : g[i].path = f[i].path
        /\ \A q : FrOwed(f, q) => FrOwed(g, q)
    BY <1>1, FramesReturned
  <2>2. at.pc = "readdir" /\ at.frames = g
    BY <1>1 DEF PlacedAt
  <2> HIDE DEF g
  <2>3. RmKnows(new, at)
    BY <2>1, <2>2 DEF RmKnows
  <2>4. RmPends(new, at, p)
    BY <2>1, <2>2 DEF RmPends, Owed
  <2> QED
    BY <2>3, <2>4
<1>2. CASE f = <<>> /\ at.frames = <<>> /\ at.pc \in {"rename", "done"}
  <2>1. Len(f) = 0
    BY <1>2, EmptySeq
  <2>2. \A q : ~FrOwed(f, q)
    BY <2>1 DEF FrOwed
  <2>3. RmKnows(new, at)
    BY <1>2, <2>1 DEF RmKnows
  <2>4. RmPends(new, at, p)
    BY <1>2, <2>2 DEF RmPends, Owed
  <2> QED
    BY <2>3, <2>4
<1>3. FsEnded.frames = <<>> /\ FsEnded.pc = "done"
  BY FsAtIs DEF FsEnded
<1> QED
  BY <1>1, <1>2, <1>3 DEF ReturnsTo, PlacedAt

(* Each step of Rm looks at what it stops having to look at. *)
LEMMA RemovesPends ==
  ASSUME FsShape, NEW t \in FsThreads, NEW at, NEW ans, FsTo(t, at, ans), RemovesTo(t, at, ans),
         RemovingAt(fsAt[t], fsCall[t]), RmKnows(tree, fsAt[t]), RmPends(tree, fsAt[t], fsCall[t].path)
  PROVE  Shrinks(tree, tree') /\ RmKnows(tree', at) /\ RmPends(tree', at, fsCall[t].path)
<1> DEFINE p == fsCall[t].path
           fr == fsAt[t].frames
           x == fsAt[t].path
           pc == fsAt[t].pc
           d == Last(fr).path
<1>1. /\ p \in FsPaths /\ TreeOK(tree) /\ FramesOK(fr, p)
      /\ pc \in RmPcs => LedTo(fr, p, x) /\ x \in FsPaths
      /\ pc = "readdir" => fr # <<>>
  <2>1. p \in FsPaths /\ TreeOK(tree)
    BY CallsAre DEF FsTo, FsShape
  <2> QED
    BY <2>1 DEF RemovingAt, LedTo, RmPcs
<1>2. {"rm", "unlinkstat", "unlink", "opendir"} = RmPcs /\ "readdir" \notin RmPcs
  BY DEF RmPcs
<1>3. FsPaths \subseteq Seq(FsNames) /\ \A q \in FsPaths : q # <<>>
  BY PathsAre
<1>4. \A i \in 1..Len(fr) : tree[fr[i].path] \in {"dir", Nothing}
  BY DEF RmKnows
<1>5. \A q \in FsPaths : IsPrefix(p, q) /\ tree[q] # Nothing =>
        Kept(tree, q) \/ (pc \in RmPcs /\ IsPrefix(x, q)) \/ FrOwed(fr, q)
  BY DEF RmPends, Owed
<1>6. pc = "readdir" => /\ FramesOK(Front(fr), p) /\ Last(fr).ret \in BOOLEAN /\ d \in FsPaths
                        /\ Len(fr) \in 1..Len(fr) /\ Last(fr) = fr[Len(fr)]
                        /\ Len(Front(fr)) = Len(fr) - 1 /\ Len(fr) \in Nat
                        /\ \A i \in 1..(Len(fr) - 1) : Front(fr)[i] = fr[i] /\ i \in 1..Len(fr)
  BY <1>1, FramesPopped DEF LedTo
<1>7. pc = "readdir" /\ Last(fr).left = {} => \A q : FrOwed(fr, q) => FrOwed(Front(fr), q) \/ q = d
  BY <1>1, FramesPopped
<1> SUFFICES Shrinks(tree, tree') /\ RmKnows(tree', at) /\ RmPends(tree', at, p)
  OBVIOUS
<1> HIDE DEF fr, x, pc, d, p
<1>8. ASSUME pc \in RmPcs, tree[x] = Nothing, UNCHANGED tree, NEW ok \in BOOLEAN, ReturnsTo(t, at, ans, ok, fr)
      PROVE  Shrinks(tree, tree') /\ RmKnows(tree', at) /\ RmPends(tree', at, p)
  <2>1. \A q \in FsPaths : IsPrefix(x, q) => tree[q] = Nothing
    BY <1>1, <1>8, StandsIn
  <2>2. \A q \in FsPaths : IsPrefix(p, q) /\ tree[q] # Nothing => Kept(tree, q) \/ FrOwed(fr, q)
    BY <1>5, <2>1
  <2>3. RmKnows(tree, at) /\ RmPends(tree, at, p)
    BY <1>1, <1>4, <1>8, <2>2, ReturnedPends
  <2> QED
    BY <1>8, <2>3 DEF Shrinks
<1>9. CASE pc \in {"rm", "unlinkstat"} /\ ~Exists(tree, x) /\ ReturnsTo(t, at, ans, TRUE, fr) /\ UNCHANGED tree
  <2>1. tree[x] = Nothing
    BY <1>9 DEF Exists
  <2> QED
    BY <1>2, <1>8, <1>9, <2>1
<1>10. CASE /\ pc \in {"rm", "unlinkstat"} /\ Exists(tree, x) /\ at.path = x /\ UNCHANGED tree
            /\ \/ pc = "rm" /\ tree[x] \in LooksLikeDir /\ PlacedAt(at, "opendir", 0, fr)
               \/ pc = "rm" /\ tree[x] \notin LooksLikeDir /\ PlacedAt(at, "unlinkstat", 0, fr)
               \/ pc = "unlinkstat" /\ PlacedAt(at, "unlink", 0, fr)
  <2>1. at.frames = fr /\ at.pc \in RmPcs /\ at.path = x
    BY <1>2, <1>10 DEF PlacedAt
  <2>2. pc = "unlinkstat" => tree[x] \notin LooksLikeDir
    BY DEF RmKnows, x, pc
  <2>3. RmKnows(tree, at)
    BY <1>4, <1>10, <2>1, <2>2 DEF RmKnows, PlacedAt
  <2>4. RmPends(tree, at, p)
    BY <1>5, <2>1 DEF RmPends, Owed
  <2> QED
    BY <1>10, <2>3, <2>4 DEF Shrinks
<1>11. CASE /\ pc = "unlink" /\ tree[x] \notin {Nothing, "dir"} /\ ReturnsTo(t, at, ans, TRUE, fr)
            /\ tree' = [tree EXCEPT ![x] = Nothing]
  <2>1. x \in FsPaths /\ tree[x] # "sock" /\ tree \in [FsPaths -> FsKinds]
    BY <1>1, <1>2, <1>11 DEF RmKnows, LooksLikeDir, x, pc, TreeOK
  <2>2. tree'[x] = Nothing /\ \A q \in FsPaths : q # x => tree'[q] = tree[q]
    BY <1>11, <2>1
  <2>3. Shrinks(tree, tree')
    BY <2>1, <2>2 DEF Shrinks
  <2>4. \A q \in FsPaths : IsPrefix(x, q) => tree'[q] = Nothing
    BY <1>1, <1>11, <2>1, <2>2, StandsIn
  <2>5. \A q \in FsPaths : IsPrefix(p, q) /\ tree'[q] # Nothing => Kept(tree', q) \/ FrOwed(fr, q)
    <3> TAKE q \in FsPaths
    <3>1. Kept(tree', q) <=> Kept(tree, q)
      BY <2>3, KeptStays
    <3> QED
      BY <1>5, <2>2, <2>4, <3>1
  <2>6. \A i \in 1..Len(fr) : tree'[fr[i].path] \in {"dir", Nothing}
    BY <1>1, <1>4, <2>2, FramesAre DEF FramesOK
  <2> QED
    BY <1>1, <1>11, <2>3, <2>5, <2>6, ReturnedPends
<1>12. CASE pc = "unlink" /\ tree[x] \in {Nothing, "dir"} /\ ReturnsTo(t, at, ans, FALSE, fr) /\ UNCHANGED tree
  <2>1. tree[x] = Nothing
    BY <1>12 DEF RmKnows, LooksLikeDir, x, pc
  <2> QED
    BY <1>2, <1>8, <1>12, <2>1
<1>13. CASE /\ pc = "opendir" /\ tree[x] = "dir" /\ UNCHANGED tree
            /\ PlacedAt(at, "readdir", 0, Append(fr, RmFrame(x, Children(tree, x), TRUE)))
  <2> DEFINE kids == Children(tree, x)
             new == Append(fr, RmFrame(x, kids, TRUE))
  <2>1. x \in FsPaths /\ LedTo(fr, p, x) /\ kids \in SUBSET FsPaths /\ \A k \in kids : Front(k) = x
    BY <1>1, <1>2, <1>13, ChildrenAre
  <2>2. /\ Len(new) = Len(fr) + 1 /\ Len(fr) \in Nat
        /\ \A i \in 1..Len(fr) : new[i] = fr[i]
        /\ new[Len(fr) + 1].path = x
        /\ \A q : FrOwed(fr, q) \/ q = x \/ (\E k \in kids : IsPrefix(k, q)) => FrOwed(new, q)
    <3> HIDE DEF kids
    <3>1. fr \in Seq(RmFrames)
      BY <1>1 DEF FramesOK
    <3>2. Pushed(new, fr, x, kids)
      BY <2>1, <3>1, PushedIs
    <3> HIDE DEF new
    <3> QED
      BY <3>2 DEF Pushed
  <2>3. at.pc = "readdir" /\ at.frames = new
    BY <1>13 DEF PlacedAt
  <2>4. ASSUME NEW q \in FsPaths, IsPrefix(x, q), tree[q] # Nothing PROVE q = x \/ \E k \in kids : IsPrefix(k, q)
    <3>1. SUFFICES ASSUME q # x PROVE \E k \in kids : IsPrefix(k, q)
      OBVIOUS
    <3>2. IsStrictPrefix(x, q)
      BY <2>4, <3>1 DEF IsStrictPrefix
    <3>3. PICK k \in FsPaths : Front(k) = x /\ IsPrefix(k, q)
      BY <2>1, <3>2, WayTo
    <3>4. tree[k] # Nothing
      BY <1>1, <2>4, <3>3, StandsIn
    <3>5. k \in kids
      BY <3>3, <3>4 DEF Children
    <3> QED
      BY <3>3, <3>5
  <2> HIDE DEF kids, new
  <2>5. RmKnows(tree, at)
    <3>1. ASSUME NEW i \in 1..Len(new) PROVE tree[new[i].path] \in {"dir", Nothing}
      <4>1. i \in 1..Len(fr) \/ i = Len(fr) + 1
        BY <2>2
      <4> QED
        BY <1>4, <1>13, <2>2, <4>1
    <3> QED
      BY <2>3, <3>1 DEF RmKnows
  <2>6. RmPends(tree, at, p)
    BY <1>5, <2>2, <2>3, <2>4 DEF RmPends, Owed
  <2> QED
    BY <1>13, <2>5, <2>6 DEF Shrinks
<1>14. CASE pc = "opendir" /\ tree[x] # "dir" /\ ReturnsTo(t, at, ans, FALSE, fr) /\ UNCHANGED tree
  <2>1. x \in FsPaths /\ tree[x] \in {"sock", Nothing}
    BY <1>1, <1>2, <1>14 DEF RmKnows, LooksLikeDir, x, pc
  <2>2. CASE tree[x] = Nothing
    BY <1>2, <1>8, <1>14, <2>2
  <2>3. CASE tree[x] = "sock"
    <3>1. \A q \in FsPaths : IsPrefix(x, q) /\ q # x => tree[q] = Nothing
      BY <1>1, <1>14, <2>1, StandsIn
    <3>2. Kept(tree, x)
      BY <1>3, <2>1, <2>3, PrefixOrder DEF Kept
    <3>3. \A q \in FsPaths : IsPrefix(p, q) /\ tree[q] # Nothing => Kept(tree, q) \/ FrOwed(fr, q)
      BY <1>5, <3>1, <3>2
    <3>4. RmKnows(tree, at) /\ RmPends(tree, at, p)
      BY <1>1, <1>4, <1>14, <3>3, ReturnedPends
    <3> QED
      BY <1>14, <3>4 DEF Shrinks
  <2> QED
    BY <2>1, <2>2, <2>3
<1>15. CASE /\ pc = "readdir" /\ UNCHANGED tree /\ at.path \in Last(fr).left
            /\ PlacedAt(at, "rm", 0, InLast(fr, RmFrame(Last(fr).path, Last(fr).left \ {at.path}, Last(fr).ret)))
  <2> DEFINE e == at.path
             new == InLast(fr, RmFrame(Last(fr).path, Last(fr).left \ {e}, Last(fr).ret))
  <2>1. e \in Last(fr).left /\ new = InLast(fr, RmFrame(Last(fr).path, Last(fr).left \ {e}, Last(fr).ret))
    BY <1>15
  <2>2. at.pc = "rm" /\ at.frames = new /\ at.path = e
    BY <1>15 DEF PlacedAt
  <2> HIDE DEF new, e
  <2>3. /\ FramesOK(new, p) /\ Len(new) = Len(fr)
        /\ \A i \in 1..Len(fr) : new[i].path = fr[i].path
        /\ \A q : FrOwed(fr, q) => FrOwed(new, q) \/ IsPrefix(e, q)
    <3>1. FramesOK(new, p) /\ Taken(new, fr, e)
      BY <1>1, <1>15, <2>1, FramesTaken
    <3> QED
      BY <3>1 DEF Taken
  <2>4. RmKnows(tree, at)
    BY <1>4, <2>2, <2>3 DEF RmKnows
  <2>5. RmPends(tree, at, p)
    BY <1>2, <1>5, <1>15, <2>2, <2>3 DEF RmPends, Owed
  <2> QED
    BY <1>15, <2>4, <2>5 DEF Shrinks
<1>16. CASE /\ pc = "readdir" /\ Last(fr).left = {} /\ tree[d] = "dir" /\ Children(tree, d) = {}
            /\ ReturnsTo(t, at, ans, Last(fr).ret, Front(fr)) /\ tree' = [tree EXCEPT ![d] = Nothing]
  <2>1. tree'[d] = Nothing /\ \A q \in FsPaths : q # d => tree'[q] = tree[q]
    BY <1>1, <1>6, <1>16 DEF TreeOK
  <2>2. Shrinks(tree, tree')
    BY <1>16, <2>1 DEF Shrinks
  <2>3. \A q \in FsPaths : IsPrefix(p, q) /\ tree'[q] # Nothing => Kept(tree', q) \/ FrOwed(Front(fr), q)
    <3> TAKE q \in FsPaths
    <3>1. Kept(tree', q) <=> Kept(tree, q)
      BY <2>2, KeptStays
    <3> QED
      BY <1>2, <1>5, <1>7, <1>16, <2>1, <3>1
  <2>4. \A i \in 1..Len(Front(fr)) : tree'[Front(fr)[i].path] \in {"dir", Nothing}
    <3>1. \A i \in 1..Len(fr) : fr[i].path \in FsPaths
      BY <1>1, FramesAre DEF FramesOK
    <3> QED
      BY <1>4, <1>6, <1>16, <2>1, <3>1
  <2>5. RmKnows(tree', at) /\ RmPends(tree', at, p)
    <3> DEFINE f == Front(fr)
               ok == Last(fr).ret
    <3>1. p \in FsPaths /\ FramesOK(f, p) /\ ok \in BOOLEAN /\ ReturnsTo(t, at, ans, ok, f)
      BY <1>1, <1>6, <1>16
    <3> HIDE DEF f, ok
    <3> QED
      BY <2>3, <2>4, <3>1, ReturnedPends DEF f
  <2> QED
    BY <2>2, <2>5
<1>17. CASE /\ pc = "readdir" /\ Last(fr).left = {} /\ UNCHANGED tree /\ ReturnsTo(t, at, ans, FALSE, Front(fr))
            /\ tree[d] # "dir" \/ Children(tree, d) # {}
  <2>1. tree[d] # Nothing => Kept(tree, d)
    <3>1. SUFFICES ASSUME tree[d] # Nothing PROVE Kept(tree, d)
      OBVIOUS
    <3>2. tree[d] = "dir"
      BY <1>4, <1>6, <1>17, <3>1 DEF d
    <3>3. PICK k \in Children(tree, d) : TRUE
      BY <1>17, <3>2
    <3>4. k \in FsPaths /\ Front(k) = d /\ tree[k] # Nothing
      BY <3>3 DEF Children
    <3>5. ~FrOwed(fr, k) /\ IsPrefix(p, k) /\ IsPrefix(d, k)
      BY <1>1, <1>17, <3>4, EntriesDone DEF d
    <3>6. Kept(tree, k)
      BY <1>2, <1>5, <1>17, <3>4, <3>5
    <3>7. PICK s \in FsPaths : tree[s] = "sock" /\ IsPrefix(k, s)
      BY <3>6 DEF Kept
    <3>8. IsPrefix(d, s)
      BY <1>3, <1>6, <1>17, <3>4, <3>5, <3>7, PrefixOrder
    <3> QED
      BY <3>7, <3>8 DEF Kept
  <2>2. \A q \in FsPaths : IsPrefix(p, q) /\ tree[q] # Nothing => Kept(tree, q) \/ FrOwed(Front(fr), q)
    BY <1>2, <1>5, <1>7, <1>17, <2>1
  <2>3. \A i \in 1..Len(Front(fr)) : tree[Front(fr)[i].path] \in {"dir", Nothing}
    BY <1>4, <1>6, <1>17
  <2>4. RmKnows(tree, at) /\ RmPends(tree, at, p)
    BY <1>1, <1>6, <1>17, <2>2, <2>3, ReturnedPends
  <2> QED
    BY <1>17, <2>4 DEF Shrinks
<1> QED
  BY <1>9, <1>10, <1>11, <1>12, <1>13, <1>14, <1>15, <1>16, <1>17, Zenon
     DEF RemovesTo, fr, x, pc, d, p

(* A step is the beginning of a call, or one of the moves. *)
LEMMA FsStepIs ==
  ASSUME FsShape, FsNext
  PROVE  \E t \in FsThreads :
           \/ FsBegin(t)
           \/ \E at, ans : /\ FsTo(t, at, ans) /\ Creates(t, at, ans)
                           /\ CreatingAt(fsAt[t], fsCall[t], MkdirPath(t))
           \/ \E at, ans : /\ FsTo(t, at, ans) /\ UNCHANGED lostRace
                           /\ RemovesTo(t, at, ans) \/ Renames(t, at, ans)
                           /\ RemovingAt(fsAt[t], fsCall[t])
<1>1. PICK t \in FsThreads :
        \/ FsBegin(t) \/ MkdirStat(t) \/ MkdirAccess(t) \/ MkdirMake(t) \/ OpenFile(t)
        \/ RmStat(t) \/ UnlinkStat(t) \/ Unlink(t) \/ RmOpendir(t) \/ RmEntry(t) \/ RmDir(t) \/ Rename(t)
  BY DEF FsNext
<1>2. CASE FsBegin(t)
  BY <1>2
<1>3. CASE MkdirStat(t) \/ MkdirAccess(t) \/ MkdirMake(t) \/ OpenFile(t)
  <2>1. \E at, ans : /\ FsTo(t, at, ans) /\ Creates(t, at, ans)
                     /\ CreatingAt(fsAt[t], fsCall[t], MkdirPath(t))
    BY <1>3, CreatesMove, Zenon
  <2> QED
    BY <2>1, Zenon
<1>4. CASE RmStat(t) \/ UnlinkStat(t) \/ Unlink(t) \/ RmOpendir(t) \/ RmEntry(t) \/ RmDir(t) \/ Rename(t)
  <2>1. \E at, ans : /\ FsTo(t, at, ans) /\ UNCHANGED lostRace
                     /\ RemovesTo(t, at, ans) \/ Renames(t, at, ans)
                     /\ RemovingAt(fsAt[t], fsCall[t])
    BY <1>4, RemovesMove, Zenon
  <2> QED
    BY <2>1, Zenon
<1> QED
  BY <1>1, <1>2, <1>3, <1>4

LEMMA FsShapeKept ==
  ASSUME FsShape, FsNext
  PROVE  FsShape'
BY FsStepIs, BeginKeepsShape, CreatesKeepsShape, RemovesKeepsShape, Zenon

(* Where a thread with a call is. *)
LEMMA InCall ==
  ASSUME FsShape, NEW t \in FsThreads, fsCall[t] \in FsCalls
  PROVE  /\ fsAt[t].pc # "out" /\ fsAt[t] # FsOut
         /\ fsCall[t].op \in Creating => fsAt[t] = FsEnded \/ CreatingAt(fsAt[t], fsCall[t], MkdirPath(t))
         /\ fsCall[t].op \in RemovingOps => fsAt[t] = FsEnded \/ RemovingAt(fsAt[t], fsCall[t])
<1>1. FsOut.pc = "out" /\ FsEnded.pc = "done"
  BY FsAtIs DEF FsOut, FsEnded
<1>2. fsCall[t] # NoCall /\ fsCall[t].op \in Creating \cup RemovingOps /\ Creating \cap RemovingOps = {}
  BY CallsAre DEF Creating, RemovingOps
<1>3. \/ fsAt[t] = FsEnded
      \/ CreatingAt(fsAt[t], fsCall[t], MkdirPath(t)) \/ RemovingAt(fsAt[t], fsCall[t])
  BY <1>2 DEF FsShape, FsPlace
<1>4. fsAt[t].pc # "out"
  BY <1>1, <1>3 DEF CreatingAt, RemovingAt, MkdirPcs, RmPcs
<1> QED
  BY <1>1, <1>2, <1>3, <1>4 DEF CreatingAt, RemovingAt

LEMMA NotInCall ==
  ASSUME FsShape, NEW t \in FsThreads, fsAt[t].pc = "out" \/ fsCall[t] = NoCall
  PROVE  fsAt[t] = FsOut /\ fsCall[t] = NoCall
<1>1. FsOut.pc = "out" /\ FsEnded.pc = "done"
  BY FsAtIs DEF FsOut, FsEnded
<1>2. NoCall \notin FsCalls
  BY CallsAre DEF Creating, RemovingOps
<1> QED
  BY <1>1, <1>2 DEF FsShape, FsPlace, CreatingAt, RemovingAt, MkdirPcs, RmPcs

(* A call begins. *)
LEMMA BeginIs ==
  ASSUME FsShape, NEW t \in FsThreads, FsBegin(t)
  PROVE  \E c \in FsCalls :
           /\ fsAt[t] = FsOut /\ fsCall[t] = NoCall /\ fsCall'[t] = c /\ UNCHANGED <<tree, fsAnswer, lostRace>>
           /\ \A u \in FsThreads \ {t} : fsAt'[u] = fsAt[u] /\ fsCall'[u] = fsCall[u]
           /\ \/ c.op = "Mkdir" /\ fsAt'[t].pc = "lstat"
              \/ c.op = "Open" /\ fsAt'[t].pc = "open"
              \/ c.op \in RemovingOps /\ fsAt'[t].pc = "rm"
           /\ fsAt'[t].depth = 0 /\ fsAt'[t].path = c.path /\ fsAt'[t].frames = <<>>
           /\ before' = tree \/ before' = before
           /\ Alone(t) => before' = tree
<1>1. PICK c \in FsCalls :
        /\ fsCall' = [fsCall EXCEPT ![t] = c]
        /\ FsMoves(t, FsAt(CASE c.op = "Mkdir" -> "lstat" [] c.op = "Open" -> "open" [] OTHER -> "rm",
                          0, c.path, <<>>))
  BY DEF FsBegin
<1> DEFINE pc == CASE c.op = "Mkdir" -> "lstat" [] c.op = "Open" -> "open" [] OTHER -> "rm"
           at == FsAt(pc, 0, c.path, <<>>)
<1>2. \/ c.op = "Mkdir" /\ pc = "lstat"
      \/ c.op = "Open" /\ pc = "open"
      \/ c.op \in RemovingOps /\ pc = "rm"
  BY CallsAre DEF Creating, RemovingOps
<1>3. at.pc = pc /\ at.depth = 0 /\ at.path = c.path /\ at.frames = <<>>
  BY FsAtIs
<1> HIDE DEF pc, at
<1>4. /\ fsAt'[t] = at /\ fsCall'[t] = c
      /\ \A u \in FsThreads \ {t} : fsAt'[u] = fsAt[u] /\ fsCall'[u] = fsCall[u]
  BY <1>1 DEF FsShape, FsMoves, at, pc
<1>5. fsAt[t] = FsOut /\ fsCall[t] = NoCall /\ UNCHANGED <<tree, fsAnswer, lostRace>>
  BY NotInCall DEF FsBegin
<1>6. Alone(t) => FsRunning = {}
  BY <1>5, FsAtIs DEF Alone, FsRunning, FsOut
<1> QED
  BY <1>2, <1>3, <1>4, <1>5, <1>6 DEF FsBegin

(* A thread that has been called is somewhere. *)
LEMMA CalledNext ==
  ASSUME FsShape, FsNext, NEW t \in FsThreads, fsCall'[t] \in FsCalls, NEW u \in FsThreads, u # t
  PROVE  ~Alone(u)'
<1>1. FsPlace(t)'
  BY FsShapeKept DEF FsShape
<1>2. FsOut.pc = "out" /\ FsEnded.pc = "done" /\ NoCall \notin FsCalls
  BY FsAtIs, CallsAre DEF FsOut, FsEnded, Creating, RemovingOps
<1>3. fsAt'[t].pc # "out"
  BY <1>1, <1>2 DEF FsPlace, CreatingAt, RemovingAt, MkdirPcs, RmPcs
<1> QED
  BY <1>3 DEF Alone

LEMMA RemovingKept ==
  ASSUME FsShape, RemovingInv, FsNext
  PROVE  RemovingInv'
<1>1. FsShape'
  BY FsShapeKept
<1>2. /\ Creating = {"Mkdir", "Open"} /\ RemovingOps = {"Rm", "Mv", "Symlink"} /\ NoCall.op = "none"
      /\ FsEnded.pc = "done"
  BY FsAtIs, CallsAre DEF Creating, RemovingOps, FsEnded
<1>3. ASSUME NEW t \in FsThreads, fsCall'[t] \in FsCalls, NEW u \in FsThreads, u # t
      PROVE  ~Alone(u)'
  BY <1>3, CalledNext
<1>4. ASSUME NEW t \in FsThreads, FsBegin(t) PROVE RemovingInv'
  <2>1. PICK c \in FsCalls :
           /\ fsAt[t] = FsOut /\ fsCall[t] = NoCall /\ fsCall'[t] = c /\ UNCHANGED <<tree, fsAnswer, lostRace>>
           /\ \A u \in FsThreads \ {t} : fsAt'[u] = fsAt[u] /\ fsCall'[u] = fsCall[u]
           /\ \/ c.op = "Mkdir" /\ fsAt'[t].pc = "lstat"
              \/ c.op = "Open" /\ fsAt'[t].pc = "open"
              \/ c.op \in RemovingOps /\ fsAt'[t].pc = "rm"
           /\ fsAt'[t].depth = 0 /\ fsAt'[t].path = c.path /\ fsAt'[t].frames = <<>>
           /\ before' = tree \/ before' = before
    BY <1>4, BeginIs, Zenon
  <2>2. OnlyRemove' => OnlyRemove
    BY <1>2, <2>1 DEF OnlyRemove
  <2>3. ASSUME NEW u \in FsThreads, u # t, Removes(u)', Quiet(u)'
        PROVE  RmKnows(tree, fsAt[u])' /\ RmPends(tree, fsAt[u], fsCall[u].path)'
    <3>1. Quiet(u)
      BY <1>3, <2>1, <2>2, <2>3 DEF Quiet
    <3>2. fsAt'[u] = fsAt[u] /\ fsCall'[u] = fsCall[u] /\ tree' = tree
      BY <2>1, <2>3
    <3>3. Removes(u)
      BY <2>3, <3>2 DEF Removes, Ended
    <3>4. RmKnows(tree, fsAt[u]) /\ RmPends(tree, fsAt[u], fsCall[u].path)
      BY <3>1, <3>3 DEF RemovingInv
    <3> QED
      BY <3>2, <3>4
  <2>4. ASSUME Removes(t)' PROVE RmKnows(tree, fsAt[t])' /\ RmPends(tree, fsAt[t], fsCall[t].path)'
    <3>1. fsAt'[t].pc = "rm" /\ fsAt'[t].path = fsCall'[t].path /\ Len(fsAt'[t].frames) = 0
      BY <1>2, <2>1, <2>4, EmptySeq DEF Removes
    <3> QED
      BY <3>1 DEF RmKnows, RmPends, Owed, RmPcs
  <2>5. OnlyRemove' => \A q \in FsPaths : tree'[q] \in {before'[q], Nothing}
    BY <2>1, <2>2 DEF RemovingInv
  <2> QED
    BY <2>3, <2>4, <2>5 DEF RemovingInv
<1>5. ASSUME NEW t \in FsThreads, NEW at, NEW ans, FsTo(t, at, ans), CreatingAt(fsAt[t], fsCall[t], MkdirPath(t))
      PROVE  RemovingInv'
  <2>1. fsCall' = fsCall /\ fsCall[t] \in FsCalls /\ fsCall[t].op \in Creating
    BY <1>5 DEF FsTo, CreatingAt
  <2>2. ~OnlyRemove'
    BY <1>2, <2>1 DEF OnlyRemove
  <2>3. \A u \in FsThreads : Removes(u)' => ~Alone(u)'
    BY <1>2, <1>3, <2>1 DEF Removes
  <2> QED
    BY <2>2, <2>3 DEF RemovingInv, Quiet
<1>6. ASSUME NEW t \in FsThreads, NEW at, NEW ans, FsTo(t, at, ans), UNCHANGED lostRace,
             RemovesTo(t, at, ans) \/ Renames(t, at, ans), RemovingAt(fsAt[t], fsCall[t])
      PROVE  RemovingInv'
  <2>1. /\ fsAt'[t] = at /\ fsCall' = fsCall /\ before' = before /\ fsCall[t] \in FsCalls
        /\ \A u \in FsThreads \ {t} : fsAt'[u] = fsAt[u]
    BY <1>6, WentTo
  <2>2. (OnlyRemove' <=> OnlyRemove) /\ (Alone(t)' <=> Alone(t))
    BY <2>1 DEF OnlyRemove, Alone
  <2>3. fsCall[t].op \in RemovingOps /\ ~Ended(t) /\ Removes(t) /\ (fsAt[t].pc = "rename" => fsCall[t].op # "Rm")
    BY <1>6 DEF RemovingAt, Removes, Ended, RmPcs
  <2>4. ASSUME Quiet(t), RemovesTo(t, at, ans)
        PROVE  Shrinks(tree, tree') /\ RmKnows(tree', at) /\ RmPends(tree', at, fsCall[t].path)
    BY <1>6, <2>3, <2>4, RemovesPends DEF RemovingInv
  <2>5. OnlyRemove => Quiet(t) /\ RemovesTo(t, at, ans)
    BY <1>2, <1>6, <2>3 DEF OnlyRemove, Quiet, Renames
  <2>6. ASSUME Removes(t)', Quiet(t)'
        PROVE  RmKnows(tree, fsAt[t])' /\ RmPends(tree, fsAt[t], fsCall[t].path)'
    <3>1. Quiet(t)
      BY <2>2, <2>6 DEF Quiet
    <3>2. ~Renames(t, at, ans)
      BY <1>2, <2>1, <2>3, <2>6 DEF Renames, Removes, Ended
    <3> QED
      BY <1>6, <2>1, <2>4, <3>1, <3>2
  <2>7. ASSUME NEW u \in FsThreads, u # t, Removes(u)', Quiet(u)'
        PROVE  RmKnows(tree, fsAt[u])' /\ RmPends(tree, fsAt[u], fsCall[u].path)'
    <3>1. OnlyRemove
      BY <1>3, <2>1, <2>2, <2>7 DEF Quiet
    <3>2. fsAt'[u] = fsAt[u] /\ fsCall'[u] = fsCall[u]
      BY <2>1, <2>7
    <3>3. Removes(u) /\ Quiet(u)
      BY <2>7, <3>1, <3>2 DEF Removes, Ended, Quiet
    <3>4. RmKnows(tree, fsAt[u]) /\ RmPends(tree, fsAt[u], fsCall[u].path)
      BY <3>3 DEF RemovingInv
    <3>5. Shrinks(tree, tree')
      BY <2>4, <2>5, <3>1
    <3>6. fsAt[u] = FsEnded \/ RemovingAt(fsAt[u], fsCall[u])
      <4>1. fsCall[u] \in FsCalls
        BY <1>2, <3>3 DEF Removes, FsShape, FsPlace
      <4> QED
        BY <3>3, <4>1, InCall DEF Removes
    <3>7. RmKnows(tree', fsAt[u]) /\ RmPends(tree', fsAt[u], fsCall[u].path)
      BY <3>4, <3>5, <3>6, ShrinkKeeps
    <3> QED
      BY <3>2, <3>7
  <2>8. OnlyRemove' => \A q \in FsPaths : tree'[q] \in {before'[q], Nothing}
    BY <2>1, <2>2, <2>4, <2>5 DEF RemovingInv, Shrinks
  <2> QED
    BY <2>6, <2>7, <2>8 DEF RemovingInv
<1> QED
  BY <1>4, <1>5, <1>6, FsStepIs, Zenon

(* Calls that only remove leave nothing. *)
LEMMA RemoversHeld == FsShape /\ RemovingInv => RemoversAgree
<1> SUFFICES ASSUME FsShape, RemovingInv, \A t \in FsThreads : Ended(t) /\ fsCall[t].op = "Rm",
                    NEW t \in FsThreads, NEW q \in FsPaths, IsPrefix(fsCall[t].path, q)
             PROVE  tree[q] = IF \E s \in FsPaths : tree[s] = "sock" /\ IsPrefix(q, s) THEN before[q] ELSE Nothing
  BY DEF RemoversAgree
<1>1. OnlyRemove /\ Removes(t) /\ Quiet(t)
  BY DEF OnlyRemove, Removes, Quiet, RemovingOps
<1>2. RmPends(tree, fsAt[t], fsCall[t].path) /\ tree[q] \in {before[q], Nothing}
  BY <1>1 DEF RemovingInv
<1>3. fsAt[t] = FsEnded
  BY <1>1 DEF FsShape, FsPlace, Ended, FsOut, FsAt, CreatingAt, RemovingAt, MkdirPcs, RmPcs
<1>4. ~Owed(fsAt[t], q)
  <2>1. fsAt[t].pc = "done" /\ fsAt[t].frames = <<>> /\ Len(<<>>) = 0
    BY <1>3, FsAtIs, EmptySeq DEF FsEnded
  <2> QED
    BY <2>1 DEF Owed, FrOwed, RmPcs
<1>5. CASE Kept(tree, q)
  <2>1. PICK s \in FsPaths : tree[s] = "sock" /\ IsPrefix(q, s)
    BY <1>5 DEF Kept
  <2>2. tree[q] # Nothing
    BY <2>1, StandsIn DEF FsShape, Nothing
  <2> QED
    BY <1>2, <2>1, <2>2
<1>6. CASE ~Kept(tree, q)
  BY <1>2, <1>4, <1>6 DEF RmPends, Kept
<1> QED
  BY <1>5, <1>6

(* Alone.  What the loops know of their directories. *)
FramesAlone(tr, fr) ==
  \A i \in 1..Len(fr) : tr[fr[i].path] = "dir" /\ (~fr[i].ret => Kept(tr, fr[i].path))

LEMMA AloneReturns ==
  ASSUME NEW t, NEW at, NEW ans, NEW ok \in BOOLEAN, NEW p \in FsPaths, NEW f, FramesOK(f, p),
         ReturnsTo(t, at, ans, ok, f), NEW new, NEW b, CutAt(new, b, p), FramesAlone(new, f),
         NEW y \in FsPaths, LedTo(f, p, y), ~ok => Kept(new, y), ok => ~Kept(new, y)
  PROVE  /\ RmAlone(new, b, at, p)
         /\ at.pc \in {"readdir", "rename", "done"}
         /\ at.pc # "readdir" => at.frames = <<>> /\ (ok <=> ~Kept(new, p))
         /\ at.pc = "done" => ans = ok
<1>1. FsEnded.pc = "done" /\ FsEnded.frames = <<>> /\ Len(<<>>) = 0
  BY FsAtIs, EmptySeq DEF FsEnded
<1>2. CASE f # <<>> /\ PlacedAt(at, "readdir", 0, InLast(f, RmFrame(Last(f).path, Last(f).left, ok)))
  <2> DEFINE g == InLast(f, RmFrame(Last(f).path, Last(f).left, ok))
  <2>1. /\ Len(g) = Len(f) /\ Len(f) \in 1..Len(f)
        /\ \A i \in 1..Len(f) : g[i].path = f[i].path /\ g[i].ret = IF i = Len(f) THEN ok ELSE f[i].ret
    BY <1>2, FramesReturned
  <2>2. at.pc = "readdir" /\ at.frames = g
    BY <1>2 DEF PlacedAt
  <2> HIDE DEF g
  <2>3. f[Len(f)].path \in FsPaths /\ IsPrefix(f[Len(f)].path, y)
    BY <2>1, FramesAre DEF LedTo, FramesOK, IsStrictPrefix
  <2>4. ~ok => Kept(new, f[Len(f)].path)
    <3>1. SUFFICES ASSUME ~ok PROVE Kept(new, f[Len(f)].path)
      OBVIOUS
    <3>2. PICK s \in FsPaths : new[s] = "sock" /\ IsPrefix(y, s)
      BY <3>1 DEF Kept
    <3>3. IsPrefix(f[Len(f)].path, s)
      BY <2>3, <3>2, PathsAre, PrefixOrder
    <3> QED
      BY <3>2, <3>3 DEF Kept
  <2>5. FramesAlone(new, g)
    BY <2>1, <2>4 DEF FramesAlone
  <2> QED
    BY <2>2, <2>5 DEF RmAlone, FramesAlone
<1>3. CASE f = <<>> /\ fsCall[t].op # "Rm" /\ ok /\ PlacedAt(at, "rename", 0, <<>>)
  <2>1. y = p /\ at.frames = <<>> /\ at.pc = "rename"
    BY <1>3 DEF LedTo, PlacedAt
  <2> QED
    BY <1>1, <1>3, <2>1 DEF RmAlone
<1>4. CASE f = <<>> /\ at = FsEnded /\ ans = ok
  <2>1. y = p /\ at.frames = <<>> /\ at.pc = "done"
    BY <1>1, <1>4 DEF LedTo
  <2> QED
    BY <1>1, <1>4, <2>1 DEF RmAlone
<1> QED
  BY <1>2, <1>3, <1>4, Zenon DEF ReturnsTo

(* What Rm leaves, when it has nothing left to look at, is what it means. *)
LEMMA CutIsRemoved ==
  ASSUME NEW tr, TreeOK(tr), NEW b, TreeOK(b), NEW p \in FsPaths, CutAt(tr, b, p),
         \A q \in FsPaths : IsPrefix(p, q) /\ tr[q] # Nothing => Kept(tr, q)
  PROVE  Removed(b, p).tree = tr /\ Removed(b, p).ok = ~Kept(tr, p) /\ Removed(b, p) = [tree |-> tr, ok |-> ~Kept(tr, p)]
<1> DEFINE kept(q) == \E s \in FsPaths : b[s] = "sock" /\ IsPrefix(p, s) /\ IsPrefix(q, s)
<1>1. \A q \in FsPaths : tr[q] = "sock" <=> b[q] = "sock"
  BY DEF CutAt, Nothing
<1>2. ASSUME NEW q \in FsPaths, IsPrefix(p, q) PROVE kept(q) <=> Kept(tr, q)
  BY <1>1, <1>2, PathsAre, PrefixOrder DEF Kept
<1>3. kept(p) <=> Kept(tr, p)
  BY <1>2, PathsAre, PrefixOrder
<1>4. ASSUME NEW q \in FsPaths PROVE tr[q] = IF IsPrefix(p, q) /\ ~kept(q) THEN Nothing ELSE b[q]
  <2>1. CASE ~IsPrefix(p, q)
    BY <2>1 DEF CutAt
  <2>2. CASE IsPrefix(p, q) /\ ~kept(q)
    BY <1>2, <2>2
  <2>3. CASE IsPrefix(p, q) /\ kept(q)
    <3>1. PICK s \in FsPaths : tr[s] = "sock" /\ IsPrefix(q, s)
      BY <1>2, <2>3 DEF Kept
    <3>2. tr[q] # Nothing
      BY <3>1, StandsIn DEF Nothing
    <3> QED
      BY <2>3, <3>2 DEF CutAt
  <2> QED
    BY <2>1, <2>2, <2>3
<1>5. tr = [q \in FsPaths |-> IF IsPrefix(p, q) /\ ~kept(q) THEN Nothing ELSE b[q]]
  BY <1>4 DEF TreeOK
<1>6. Removed(b, p) = [tree |-> [q \in FsPaths |-> IF IsPrefix(p, q) /\ ~kept(q) THEN Nothing ELSE b[q]], ok |-> ~kept(p)]
  BY DEF Removed
<1> HIDE DEF kept
<1> QED
  BY <1>3, <1>5, <1>6

(* One that runs alone removes what can be removed, and answers whether it could. *)
RmDone(tr, at, ans, p) ==
  /\ at.pc \in {"rename", "done"} => at.frames = <<>>
  /\ at.pc = "done" => (ans <=> ~Kept(tr, p)) /\ ans \in BOOLEAN

LEMMA AloneRemoves ==
  ASSUME FsShape, NEW t \in FsThreads, NEW at, NEW ans, FsTo(t, at, ans), RemovesTo(t, at, ans),
         RemovingAt(fsAt[t], fsCall[t]), RmKnows(tree, fsAt[t]), RmPends(tree, fsAt[t], fsCall[t].path),
         RmAlone(tree, before, fsAt[t], fsCall[t].path), TreeOK(tree')
  PROVE  RmAlone(tree', before, at, fsCall[t].path) /\ RmDone(tree', at, ans, fsCall[t].path)
<1> DEFINE p == fsCall[t].path
           fr == fsAt[t].frames
           x == fsAt[t].path
           pc == fsAt[t].pc
           d == Last(fr).path
<1>1. /\ p \in FsPaths /\ TreeOK(tree) /\ FramesOK(fr, p) /\ CutAt(tree, before, p) /\ FramesAlone(tree, fr)
      /\ pc \in RmPcs => LedTo(fr, p, x) /\ x \in FsPaths /\ IsPrefix(p, x)
      /\ pc = "readdir" => fr # <<>>
      /\ pc \in {"unlinkstat", "unlink", "opendir"} => tree[x] # Nothing
      /\ ans \in BOOLEAN
  <2>1. p \in FsPaths /\ TreeOK(tree) /\ ans \in BOOLEAN
    BY CallsAre DEF FsTo, FsShape
  <2> QED
    BY <2>1 DEF RemovingAt, LedTo, RmPcs, RmAlone, FramesAlone
<1>2. {"rm", "unlinkstat", "unlink", "opendir"} = RmPcs /\ "readdir" \notin RmPcs
  BY DEF RmPcs
<1>3. FsPaths \subseteq Seq(FsNames) /\ \A q \in FsPaths : q # <<>> /\ IsPrefix(q, q)
  BY PathsAre, PrefixOrder
<1>4. Shrinks(tree, tree')
  BY RemovesPends
<1>5. /\ \A q : Kept(tree', q) <=> Kept(tree, q)
      /\ CutAt(tree', before, p)
  <2>1. \A q : Kept(tree', q) <=> Kept(tree, q)
    BY <1>4, KeptStays
  <2>2. ASSUME NEW q \in FsPaths, tree'[q] # tree[q] PROVE IsPrefix(p, q)
    <3>1. \/ tree' = [tree EXCEPT ![x] = Nothing] /\ pc = "unlink"
          \/ tree' = [tree EXCEPT ![d] = Nothing] /\ pc = "readdir"
      BY <2>2, Zenon DEF RemovesTo, x, d, fr, pc
    <3>2. pc = "readdir" => d \in FsPaths /\ IsPrefix(p, d)
      BY <1>1, FramesPopped DEF LedTo
    <3> QED
      BY <1>1, <1>2, <2>2, <3>1, <3>2 DEF TreeOK
  <2>3. CutAt(tree', before, p)
    BY <1>1, <1>4, <2>2 DEF CutAt, Shrinks, Nothing
  <2> QED
    BY <2>1, <2>3
<1>6. pc = "readdir" => /\ FramesOK(Front(fr), p) /\ Last(fr).ret \in BOOLEAN /\ d \in FsPaths
                        /\ LedTo(Front(fr), p, d)
                        /\ Len(fr) \in 1..Len(fr) /\ Last(fr) = fr[Len(fr)]
                        /\ Len(Front(fr)) = Len(fr) - 1 /\ Len(fr) \in Nat
                        /\ \A i \in 1..(Len(fr) - 1) : Front(fr)[i] = fr[i] /\ i \in 1..Len(fr)
  BY <1>1, FramesPopped DEF LedTo
<1>7. \A q \in FsPaths : tree'[q] = Nothing => ~Kept(tree', q)
  BY StandsIn DEF Kept, Nothing
<1>8. FramesOK(fr, p) => \A i \in 1..Len(fr) : fr[i].path \in FsPaths
  BY FramesAre DEF FramesOK
<1>9. ASSUME NEW q, tree' = [tree EXCEPT ![q] = Nothing], q \in FsPaths, NEW f, LedTo(f, p, q), FramesAlone(tree, f),
             \A i \in 1..Len(f) : f[i].path \in FsPaths
      PROVE  FramesAlone(tree', f)
  BY <1>1, <1>5, <1>9 DEF FramesAlone, LedTo, IsStrictPrefix, TreeOK
<1>10. RmAlone(tree, before, fsAt[t], p) /\ RmKnows(tree, fsAt[t])
  OBVIOUS
<1> SUFFICES RmAlone(tree', before, at, p) /\ RmDone(tree', at, ans, p)
  OBVIOUS
<1> HIDE DEF fr, x, pc, d, p
<1>11. ASSUME NEW ok \in BOOLEAN, NEW f, FramesOK(f, p), NEW y \in FsPaths, LedTo(f, p, y),
              FramesAlone(tree', f), ReturnsTo(t, at, ans, ok, f), ok <=> ~Kept(tree', y)
       PROVE  RmAlone(tree', before, at, p) /\ RmDone(tree', at, ans, p)
  <2>0. /\ p \in FsPaths /\ ok \in BOOLEAN /\ FramesOK(f, p) /\ ReturnsTo(t, at, ans, ok, f)
        /\ CutAt(tree', before, p) /\ FramesAlone(tree', f) /\ y \in FsPaths /\ LedTo(f, p, y)
        /\ ~ok => Kept(tree', y)
        /\ ok => ~Kept(tree', y)
    BY <1>1, <1>5, <1>11
  <2>1. /\ RmAlone(tree', before, at, p)
        /\ at.pc \in {"readdir", "rename", "done"}
        /\ at.pc # "readdir" => at.frames = <<>> /\ (ok <=> ~Kept(tree', p))
        /\ at.pc = "done" => ans = ok
    BY ONLY <2>0, AloneReturns
  <2> QED
    BY <2>1 DEF RmDone
<1>12. CASE pc \in {"rm", "unlinkstat"} /\ ~Exists(tree, x) /\ ReturnsTo(t, at, ans, TRUE, fr) /\ UNCHANGED tree
  <2>1. x \in FsPaths /\ tree'[x] = Nothing /\ FramesAlone(tree', fr) /\ LedTo(fr, p, x)
    BY <1>1, <1>2, <1>12 DEF Exists
  <2> QED
    BY <1>1, <1>7, <1>11, <1>12, <2>1
<1>13. CASE /\ pc \in {"rm", "unlinkstat"} /\ Exists(tree, x) /\ at.path = x /\ UNCHANGED tree
            /\ \/ pc = "rm" /\ tree[x] \in LooksLikeDir /\ PlacedAt(at, "opendir", 0, fr)
               \/ pc = "rm" /\ tree[x] \notin LooksLikeDir /\ PlacedAt(at, "unlinkstat", 0, fr)
               \/ pc = "unlinkstat" /\ PlacedAt(at, "unlink", 0, fr)
  <2>1. at.frames = fr /\ at.pc \in {"unlinkstat", "unlink", "opendir"} /\ at.path = x
    BY <1>13 DEF PlacedAt
  <2>2. tree'[x] # Nothing
    BY <1>1, <1>2, <1>3, <1>13 DEF Exists
  <2>3. RmAlone(tree', before, at, p)
    BY <1>1, <1>5, <1>13, <2>1, <2>2 DEF RmAlone, FramesAlone
  <2> QED
    BY <2>1, <2>3 DEF RmDone
<1>14. CASE /\ pc = "unlink" /\ tree[x] \notin {Nothing, "dir"} /\ ReturnsTo(t, at, ans, TRUE, fr)
            /\ tree' = [tree EXCEPT ![x] = Nothing]
  <2>1. x \in FsPaths /\ tree'[x] = Nothing /\ LedTo(fr, p, x)
    BY <1>1, <1>2, <1>14 DEF TreeOK
  <2>2. FramesAlone(tree', fr)
    BY <1>1, <1>8, <1>9, <1>14, <2>1
  <2> QED
    BY <1>1, <1>7, <1>11, <1>14, <2>1, <2>2
<1>15. CASE pc = "unlink" /\ tree[x] \in {Nothing, "dir"} /\ ReturnsTo(t, at, ans, FALSE, fr) /\ UNCHANGED tree
  BY <1>1, <1>10, <1>15 DEF RmKnows, LooksLikeDir, x, pc
<1>16. CASE /\ pc = "opendir" /\ tree[x] = "dir" /\ UNCHANGED tree
            /\ PlacedAt(at, "readdir", 0, Append(fr, RmFrame(x, Children(tree, x), TRUE)))
  <2> DEFINE kids == Children(tree, x)
             new == Append(fr, RmFrame(x, kids, TRUE))
  <2>1. x \in FsPaths /\ LedTo(fr, p, x) /\ kids \in SUBSET FsPaths
    BY <1>1, <1>2, <1>16, ChildrenAre
  <2>2. /\ Len(new) = Len(fr) + 1 /\ Len(fr) \in Nat
        /\ \A i \in 1..Len(fr) : new[i] = fr[i]
        /\ new[Len(fr) + 1].path = x /\ new[Len(fr) + 1].ret
    <3> HIDE DEF kids
    <3>1. fr \in Seq(RmFrames)
      BY <1>1 DEF FramesOK
    <3>2. Pushed(new, fr, x, kids)
      BY <2>1, <3>1, PushedIs
    <3> HIDE DEF new
    <3> QED
      BY <3>2 DEF Pushed
  <2>3. at.pc = "readdir" /\ at.frames = new
    BY <1>16 DEF PlacedAt
  <2> HIDE DEF kids, new
  <2>4. FramesAlone(tree', new)
    <3>1. ASSUME NEW i \in 1..Len(new) PROVE tree[new[i].path] = "dir" /\ (~new[i].ret => Kept(tree, new[i].path))
      <4>1. i \in 1..Len(fr) \/ i = Len(fr) + 1
        BY <2>2
      <4> QED
        BY <1>1, <1>16, <2>2, <4>1 DEF FramesAlone
    <3> QED
      BY <1>16, <3>1 DEF FramesAlone
  <2> QED
    BY <1>5, <2>3, <2>4 DEF RmAlone, FramesAlone, RmDone
<1>17. CASE pc = "opendir" /\ tree[x] # "dir" /\ ReturnsTo(t, at, ans, FALSE, fr) /\ UNCHANGED tree
  <2>1. x \in FsPaths /\ tree[x] = "sock" /\ LedTo(fr, p, x)
    BY <1>1, <1>2, <1>10, <1>17 DEF RmKnows, LooksLikeDir, x, pc
  <2>2. Kept(tree', x) /\ FramesAlone(tree', fr)
    BY <1>1, <1>3, <1>17, <2>1 DEF Kept
  <2> QED
    BY <1>1, <1>11, <1>17, <2>1, <2>2
<1>18. CASE /\ pc = "readdir" /\ UNCHANGED tree /\ at.path \in Last(fr).left
            /\ PlacedAt(at, "rm", 0, InLast(fr, RmFrame(Last(fr).path, Last(fr).left \ {at.path}, Last(fr).ret)))
  <2> DEFINE e == at.path
             new == InLast(fr, RmFrame(Last(fr).path, Last(fr).left \ {e}, Last(fr).ret))
  <2>1. e \in Last(fr).left /\ new = InLast(fr, RmFrame(Last(fr).path, Last(fr).left \ {e}, Last(fr).ret))
    BY <1>18
  <2>2. at.pc = "rm" /\ at.frames = new
    BY <1>18 DEF PlacedAt
  <2> HIDE DEF new, e
  <2>3. /\ Len(new) = Len(fr)
        /\ \A i \in 1..Len(fr) : new[i].path = fr[i].path /\ new[i].ret = fr[i].ret
    <3>1. FramesOK(new, p) /\ Taken(new, fr, e)
      BY <1>1, <1>18, <2>1, FramesTaken
    <3> QED
      BY <3>1 DEF Taken
  <2>4. FramesAlone(tree', new)
    BY <1>1, <1>18, <2>3 DEF FramesAlone
  <2> QED
    BY <1>5, <2>2, <2>4 DEF RmAlone, FramesAlone, RmDone
<1>19. CASE /\ pc = "readdir" /\ Last(fr).left = {} /\ tree[d] = "dir" /\ Children(tree, d) = {}
            /\ ReturnsTo(t, at, ans, Last(fr).ret, Front(fr)) /\ tree' = [tree EXCEPT ![d] = Nothing]
  <2>1. d \in FsPaths /\ tree'[d] = Nothing
    BY <1>1, <1>6, <1>19 DEF TreeOK
  <2>2. ~Kept(tree', d)
    BY <1>7, <2>1
  <2>3. Last(fr).ret = TRUE
    BY <1>1, <1>5, <1>6, <1>19, <2>2 DEF FramesAlone, d
  <2>4. FramesAlone(tree, Front(fr)) /\ \A i \in 1..Len(Front(fr)) : Front(fr)[i].path \in FsPaths
    BY <1>1, <1>6, <1>8, <1>19 DEF FramesAlone
  <2> DEFINE f == Front(fr)
  <2>5. FramesOK(f, p) /\ LedTo(f, p, d) /\ ReturnsTo(t, at, ans, TRUE, f)
    BY <1>6, <1>19, <2>3
  <2> HIDE DEF f
  <2>6. FramesAlone(tree', f)
    BY <1>9, <1>19, <2>1, <2>4, <2>5 DEF f
  <2> QED
    BY <1>11, <2>1, <2>2, <2>5, <2>6
<1>20. CASE /\ pc = "readdir" /\ Last(fr).left = {} /\ UNCHANGED tree /\ ReturnsTo(t, at, ans, FALSE, Front(fr))
            /\ tree[d] # "dir" \/ Children(tree, d) # {}
  <2>1. Kept(tree, d)
    <3>2. tree[d] = "dir"
      BY <1>1, <1>6, <1>20 DEF d, FramesAlone
    <3>3. PICK k \in Children(tree, d) : TRUE
      BY <1>20, <3>2
    <3>4. k \in FsPaths /\ Front(k) = d /\ tree[k] # Nothing
      BY <3>3 DEF Children
    <3>5. ~FrOwed(fr, k) /\ IsPrefix(p, k) /\ IsPrefix(d, k)
      BY <1>1, <1>20, <3>4, EntriesDone DEF d
    <3>6. Kept(tree, k)
      BY <1>2, <1>20, <3>4, <3>5 DEF RmPends, Owed, p, fr, pc, x
    <3>7. PICK s \in FsPaths : tree[s] = "sock" /\ IsPrefix(k, s)
      BY <3>6 DEF Kept
    <3>8. IsPrefix(d, s)
      BY <1>3, <1>6, <1>20, <3>4, <3>5, <3>7, PrefixOrder
    <3> QED
      BY <3>7, <3>8 DEF Kept
  <2> DEFINE f == Front(fr)
  <2>2. FramesAlone(tree', f)
    BY <1>1, <1>6, <1>20 DEF FramesAlone
  <2>3. FramesOK(f, p) /\ d \in FsPaths /\ LedTo(f, p, d) /\ ReturnsTo(t, at, ans, FALSE, f)
    BY <1>6, <1>20
  <2> HIDE DEF f
  <2> QED
    BY <1>5, <1>11, <2>1, <2>2, <2>3
<1> QED
  BY <1>12, <1>13, <1>14, <1>15, <1>16, <1>17, <1>18, <1>19, <1>20, Zenon
     DEF RemovesTo, fr, x, pc, d, p

(* What a call that removes first means. *)
LEMMA RemovingMeans ==
  ASSUME NEW c, NEW b
  PROVE  LET gone == Removed(b, c.path)
         IN  /\ c.op = "Rm" \/ (c.op \in {"Mv", "Symlink"} /\ ~gone.ok) => Meaning(c, b) = gone
             /\ c.op = "Mv" /\ gone.ok =>
                  Meaning(c, b) = IF CanRename(gone.tree, c.from, c.path)
                                  THEN [tree |-> Renamed(gone.tree, c.from, c.path), ok |-> TRUE]
                                  ELSE [tree |-> gone.tree, ok |-> FALSE]
             /\ c.op = "Symlink" /\ gone.ok =>
                  Meaning(c, b) = IF CanMake(gone.tree, c.path)
                                  THEN [tree |-> [gone.tree EXCEPT ![c.path] = "link"], ok |-> TRUE]
                                  ELSE [tree |-> gone.tree, ok |-> FALSE]
<1> DEFINE gone == Removed(b, c.path)
           built == IF CanOpen(b, c.path) THEN b ELSE Made(b, Dirname(c.path)).tree
           openNow == [tree |-> IF CanOpen(built, c.path) THEN [built EXCEPT ![c.path] = "new"] ELSE built,
                       ok |-> CanOpen(built, c.path)]
           renamed == IF CanRename(gone.tree, c.from, c.path)
                    THEN [tree |-> Renamed(gone.tree, c.from, c.path), ok |-> TRUE]
                    ELSE [tree |-> gone.tree, ok |-> FALSE]
           linked == IF CanMake(gone.tree, c.path)
                     THEN [tree |-> [gone.tree EXCEPT ![c.path] = "link"], ok |-> TRUE]
                     ELSE [tree |-> gone.tree, ok |-> FALSE]
           dir == Made(b, c.path)
<1>1. Meaning(c, b) =
        CASE c.op = "Mkdir" -> dir
          [] c.op = "Open" -> openNow
          [] c.op = "Rm" \/ (c.op \in {"Mv","Symlink"} /\ ~gone.ok) -> gone
          [] c.op = "Mv" /\ gone.ok -> renamed
          [] OTHER -> linked
  BY DEF Meaning
<1> SUFFICES /\ c.op = "Rm" \/ (c.op \in {"Mv", "Symlink"} /\ ~gone.ok) => Meaning(c, b) = gone
             /\ c.op = "Mv" /\ gone.ok => Meaning(c, b) = renamed
             /\ c.op = "Symlink" /\ gone.ok => Meaning(c, b) = linked
  OBVIOUS
<1> HIDE DEF gone, openNow, built, renamed, linked, dir
<1> QED
  BY <1>1

LEMMA AloneRemoving ==
  ASSUME FsShape, RemovingInv, AloneInv, NEW t \in FsThreads, NEW at, NEW ans, FsTo(t, at, ans), Alone(t),
         RemovesTo(t, at, ans) \/ Renames(t, at, ans), RemovingAt(fsAt[t], fsCall[t]), TreeOK(tree')
  PROVE  /\ at.pc # "done" => RmAlone(tree', before, at, fsCall[t].path)
         /\ at.pc = "done" => [tree |-> tree', ok |-> ans] = Meaning(fsCall[t], before)
<1> DEFINE p == fsCall[t].path
           c == fsCall[t]
<1>1. /\ c \in FsCalls /\ p \in FsPaths /\ c.op \in {"Rm", "Mv", "Symlink"} /\ ans \in BOOLEAN
      /\ TreeOK(tree) /\ TreeOK(before)
  BY CallsAre DEF FsTo, FsShape, RemovingAt, RemovingOps
<1>2. RmAlone(tree, before, fsAt[t], p)
  BY DEF AloneInv, RemovingAt
<1>3. RmKnows(tree, fsAt[t]) /\ RmPends(tree, fsAt[t], p)
  <2>1. Removes(t) /\ Quiet(t)
    BY DEF Removes, Ended, Quiet, RemovingAt, RmPcs
  <2> QED
    BY <2>1 DEF RemovingInv
<1>4. \A a : a.frames = <<>> /\ a.pc \in {"rename", "done"} => \A q : ~Owed(a, q)
  <2>1. Len(<<>>) = 0
    BY EmptySeq
  <2> QED
    BY <2>1 DEF Owed, FrOwed, RmPcs
<1>5. CASE RemovesTo(t, at, ans)
  <2>1. RmAlone(tree', before, at, p) /\ RmDone(tree', at, ans, p) /\ RmPends(tree', at, p)
    BY <1>2, <1>3, <1>5, AloneRemoves, RemovesPends
  <2>2. SUFFICES ASSUME at.pc = "done" PROVE [tree |-> tree', ok |-> ans] = Meaning(c, before)
    BY <2>1
  <2>3. ans = ~Kept(tree', p) /\ at.frames = <<>>
    BY <2>1, <2>2 DEF RmDone
  <2>4. Removed(before, p) = [tree |-> tree', ok |-> ans] /\ Removed(before, p).ok = ans
    <3>1. \A q \in FsPaths : IsPrefix(p, q) /\ tree'[q] # Nothing => Kept(tree', q)
      BY <1>4, <2>1, <2>2, <2>3 DEF RmPends
    <3>2. CutAt(tree', before, p)
      BY <2>1 DEF RmAlone
    <3> QED
      BY <1>1, <2>3, <3>1, <3>2, CutIsRemoved
  <2>5. ans => c.op = "Rm"
    <3>1. \A ok, f : at.pc = "done" /\ ReturnsTo(t, at, ans, ok, f) => c.op = "Rm" \/ (~ok /\ ans = ok)
      <4>1. FsEnded.pc = "done"
        BY FsAtIs DEF FsEnded
      <4> QED
        BY <4>1, Zenon DEF ReturnsTo, PlacedAt
    <3> QED
      BY <1>5, <2>2, <3>1, Zenon DEF RemovesTo, PlacedAt
  <2>6. Meaning(c, before) = Removed(before, p)
    BY <1>1, <2>4, <2>5, RemovingMeans
  <2> QED
    BY <2>4, <2>6
<1>6. CASE Renames(t, at, ans)
  <2>1. fsAt[t].pc = "rename" /\ at = FsEnded /\ c.op \in {"Mv", "Symlink"} /\ fsAt[t].frames = <<>>
    BY <1>1, <1>6 DEF Renames, RemovingAt, RmPcs
  <2>2. at.pc = "done"
    BY <2>1, FsAtIs DEF FsEnded
  <2>3. Removed(before, p).tree = tree /\ Removed(before, p).ok = TRUE
    <3>1. \A q \in FsPaths : IsPrefix(p, q) /\ tree[q] # Nothing => Kept(tree, q)
      BY <1>3, <1>4, <2>1 DEF RmPends
    <3>2. CutAt(tree, before, p) /\ ~Kept(tree, p)
      BY <1>2, <2>1 DEF RmAlone
    <3>3. Removed(before, p).tree = tree /\ Removed(before, p).ok = ~Kept(tree, p)
      BY <1>1, <3>1, <3>2, CutIsRemoved
    <3>4. (~Kept(tree, p)) = TRUE
      BY <3>2
    <3> QED
      BY <3>3, <3>4
  <2>4. CASE c.op = "Mv"
    <3>1. Meaning(c, before) = IF CanRename(tree, c.from, p)
                               THEN [tree |-> Renamed(tree, c.from, p), ok |-> TRUE]
                               ELSE [tree |-> tree, ok |-> FALSE]
      BY <2>3, <2>4, RemovingMeans
    <3>2. \/ ans = FALSE /\ tree' = tree /\ ~CanRename(tree, c.from, p)
          \/ ans = TRUE /\ CanRename(tree, c.from, p) /\ tree' = Renamed(tree, c.from, p)
      BY <1>1, <1>6, <2>4 DEF Renames
    <3> QED
      BY <2>2, <3>1, <3>2
  <2>5. CASE c.op = "Symlink"
    <3>1. Meaning(c, before) = IF CanMake(tree, p)
                               THEN [tree |-> [tree EXCEPT ![p] = "link"], ok |-> TRUE]
                               ELSE [tree |-> tree, ok |-> FALSE]
      BY <2>3, <2>5, RemovingMeans
    <3>2. \/ ans = FALSE /\ tree' = tree /\ ~CanMake(tree, p)
          \/ ans = TRUE /\ CanMake(tree, p) /\ tree' = [tree EXCEPT ![p] = "link"]
      BY <1>1, <1>6, <2>5 DEF Renames
    <3> QED
      BY <2>2, <3>1, <3>2
  <2> QED
    BY <2>1, <2>4, <2>5
<1> QED
  BY <1>5, <1>6

(* What a call that creates means. *)
LEMMA CreatingMeans ==
  ASSUME NEW c, NEW b
  PROVE  /\ c.op = "Mkdir" => Meaning(c, b) = Made(b, c.path)
         /\ c.op = "Open" =>
              LET built == IF CanOpen(b, c.path) THEN b ELSE Made(b, Dirname(c.path)).tree
              IN  /\ CanOpen(built, c.path) => Meaning(c, b) = [tree |-> [built EXCEPT ![c.path] = "new"], ok |-> TRUE]
                  /\ ~CanOpen(built, c.path) => Meaning(c, b) = [tree |-> built, ok |-> FALSE]
<1> DEFINE gone == Removed(b, c.path)
           built == IF CanOpen(b, c.path) THEN b ELSE Made(b, Dirname(c.path)).tree
           openNow == [tree |-> IF CanOpen(built, c.path) THEN [built EXCEPT ![c.path] = "new"] ELSE built,
                       ok |-> CanOpen(built, c.path)]
           renamed == IF CanRename(gone.tree, c.from, c.path)
                    THEN [tree |-> Renamed(gone.tree, c.from, c.path), ok |-> TRUE]
                    ELSE [tree |-> gone.tree, ok |-> FALSE]
           linked == IF CanMake(gone.tree, c.path)
                     THEN [tree |-> [gone.tree EXCEPT ![c.path] = "link"], ok |-> TRUE]
                     ELSE [tree |-> gone.tree, ok |-> FALSE]
           dir == Made(b, c.path)
<1>1. Meaning(c, b) =
        CASE c.op = "Mkdir" -> dir
          [] c.op = "Open" -> openNow
          [] c.op = "Rm" \/ (c.op \in {"Mv","Symlink"} /\ ~gone.ok) -> gone
          [] c.op = "Mv" /\ gone.ok -> renamed
          [] OTHER -> linked
  BY DEF Meaning
<1>2. CanOpen(built, c.path) => openNow = [tree |-> [built EXCEPT ![c.path] = "new"], ok |-> TRUE]
  <2>1. SUFFICES ASSUME CanOpen(built, c.path) PROVE openNow = [tree |-> [built EXCEPT ![c.path] = "new"], ok |-> TRUE]
    OBVIOUS
  <2>2. CanOpen(built, c.path) = TRUE
    BY <2>1
  <2> HIDE DEF built
  <2> QED
    BY <2>2
<1>3. ~CanOpen(built, c.path) => openNow = [tree |-> built, ok |-> FALSE]
  <2>1. SUFFICES ASSUME ~CanOpen(built, c.path) PROVE openNow = [tree |-> built, ok |-> FALSE]
    OBVIOUS
  <2>2. CanOpen(built, c.path) = FALSE
    BY <2>1
  <2> HIDE DEF built
  <2> QED
    BY <2>2
<1> SUFFICES /\ c.op = "Mkdir" => Meaning(c, b) = dir
             /\ c.op = "Open" =>
                  /\ CanOpen(built, c.path) => Meaning(c, b) = [tree |-> [built EXCEPT ![c.path] = "new"], ok |-> TRUE]
                  /\ ~CanOpen(built, c.path) => Meaning(c, b) = [tree |-> built, ok |-> FALSE]
  OBVIOUS
<1> HIDE DEF gone, openNow, built, renamed, linked, dir
<1> QED
  BY <1>1, <1>2, <1>3

LEMMA MadeIs ==
  ASSUME NEW b, TreeOK(b), NEW m \in Seq(FsNames), m = <<>> \/ m \in FsPaths
  PROVE  /\ Exists(b, m) => Made(b, m).tree = b /\ Made(b, m) = [tree |-> b, ok |-> TRUE]
         /\ ~Exists(b, m) /\ (\E q \in FsPaths : IsPrefix(q, m) /\ b[q] \notin {Nothing, "dir"}) =>
              Made(b, m).tree = b /\ Made(b, m) = [tree |-> b, ok |-> FALSE]
         /\ \A tr : /\ ~Exists(b, m) /\ TreeOK(tr)
                    /\ \A q \in FsPaths : IF IsPrefix(q, m) THEN tr[q] = "dir" /\ b[q] \in {Nothing, "dir"}
                                          ELSE tr[q] = b[q]
                    => Made(b, m).tree = tr /\ Made(b, m) = [tree |-> tr, ok |-> TRUE]
<1> DEFINE blocked == \E q \in FsPaths : IsPrefix(q, m) /\ b[q] \notin {Nothing, "dir"}
           full == [q \in FsPaths |-> IF IsPrefix(q, m) THEN "dir" ELSE b[q]]
<1>1. Made(b, m) = IF Exists(b, m) THEN [tree |-> b, ok |-> TRUE]
                   ELSE [tree |-> IF blocked THEN b ELSE full, ok |-> ~blocked]
  BY DEF Made
<1>2. ASSUME NEW tr, TreeOK(tr),
             \A q \in FsPaths : IF IsPrefix(q, m) THEN tr[q] = "dir" /\ b[q] \in {Nothing, "dir"}
                                ELSE tr[q] = b[q]
      PROVE  ~blocked /\ full = tr
  BY <1>2 DEF TreeOK
<1>3. Exists(b, m) => Made(b, m).tree = b /\ Made(b, m) = [tree |-> b, ok |-> TRUE]
  BY <1>1
<1>4. ASSUME ~Exists(b, m), blocked PROVE Made(b, m).tree = b /\ Made(b, m) = [tree |-> b, ok |-> FALSE]
  <2>1. (~blocked) = FALSE
    BY <1>4
  <2> HIDE DEF blocked, full
  <2>2. Made(b, m) = [tree |-> b, ok |-> ~blocked]
    BY <1>1, <1>4
  <2>3. Made(b, m) = [tree |-> b, ok |-> FALSE]
    BY <2>1, <2>2, Zenon
  <2> QED
    BY <2>3
<1>5. ASSUME ~Exists(b, m), ~blocked PROVE Made(b, m).tree = full /\ Made(b, m) = [tree |-> full, ok |-> TRUE]
  <2>1. (~blocked) = TRUE
    BY <1>5
  <2> HIDE DEF blocked, full
  <2>2. Made(b, m) = [tree |-> full, ok |-> ~blocked]
    BY <1>1, <1>5
  <2>3. Made(b, m) = [tree |-> full, ok |-> TRUE]
    BY <2>1, <2>2, Zenon
  <2> QED
    BY <2>3
<1> HIDE DEF full
<1> QED
  BY <1>2, <1>3, <1>4, <1>5

LEMMA AloneCreates ==
  ASSUME FsShape, AloneInv, NEW t \in FsThreads, NEW at, NEW ans, FsTo(t, at, ans), Alone(t),
         Creates(t, at, ans), CreatingAt(fsAt[t], fsCall[t], MkdirPath(t)), TreeOK(tree')
  PROVE  /\ at.pc # "done" => MkdirAlone(tree', before, at, fsCall[t], MkdirPath(t))
         /\ at.pc = "done" => [tree |-> tree', ok |-> ans] = Meaning(fsCall[t], before)
<1> DEFINE c == fsCall[t]
           m == MkdirPath(t)
           b == before
           pc == fsAt[t].pc
           d == fsAt[t].depth
           p == MkdirPrefix(t)
           f == fsCall[t].path
           Good == /\ at.pc # "done" => MkdirAlone(tree', b, at, c, m)
                   /\ at.pc = "done" => [tree |-> tree', ok |-> ans] = Meaning(c, b)
<1>1. /\ c \in FsCalls /\ f \in FsPaths /\ c.op \in {"Mkdir", "Open"} /\ ans \in BOOLEAN
      /\ TreeOK(tree) /\ TreeOK(b) /\ f \in Seq(FsNames)
      /\ m \in Seq(FsNames) /\ (m = <<>> \/ m \in FsPaths) /\ Len(m) \in Nat
      /\ pc \in {"access", "mkdir"} => d \in 1..Len(m)
      /\ pc \in {"open", "reopen"} => c.op = "Open"
  BY CallsAre, PathsAre, MkdirPathIs, LenProperties DEF FsTo, FsShape, CreatingAt, Creating
<1>2. c.op = "Open" => m = Dirname(f)
  BY DEF MkdirPath
<1>3. c.op = "Mkdir" => m = f
  BY DEF MkdirPath
<1>4. MkdirAlone(tree, b, fsAt[t], c, m)
  BY DEF AloneInv, CreatingAt
<1>5. /\ pc \in {"open", "lstat"} => tree = b
      /\ pc # "open" /\ c.op = "Open" => ~CanOpen(b, f)
      /\ pc \in {"access", "mkdir"} => GrownAt(tree, b, m, d)
      /\ pc = "mkdir" => ~Exists(tree, p)
      /\ pc = "reopen" => tree = Made(b, m).tree
  BY <1>4, Zenon DEF MkdirAlone, MkdirPrefix
<1>6. FsEnded.pc = "done"
  BY FsAtIs DEF FsEnded
<1>7. pc \in {"access", "mkdir"} =>
         /\ m \in FsPaths /\ p \in FsPaths /\ p \in Seq(FsNames) /\ Len(p) = d
         /\ IsPrefix(p, m) /\ p # <<>> /\ Front(p) = SubSeq(m, 1, d - 1)
         /\ d = Len(m) => p = m
  BY <1>1, MkdirPrefixIs
<1>8. /\ c.op = "Mkdir" => Meaning(c, b) = Made(b, f)
      /\ c.op = "Open" /\ CanOpen(b, f) => Meaning(c, b) = [tree |-> [b EXCEPT ![f] = "new"], ok |-> TRUE]
      /\ c.op = "Open" /\ ~CanOpen(b, f) /\ CanOpen(Made(b, m).tree, f) =>
           Meaning(c, b) = [tree |-> [Made(b, m).tree EXCEPT ![f] = "new"], ok |-> TRUE]
      /\ c.op = "Open" /\ ~CanOpen(b, f) /\ ~CanOpen(Made(b, m).tree, f) =>
           Meaning(c, b) = [tree |-> Made(b, m).tree, ok |-> FALSE]
  BY <1>2, CreatingMeans
<1>9. SubSeq(m, 1, d) = p
  BY DEF MkdirPrefix
<1> SUFFICES Good
  OBVIOUS
<1> HIDE DEF c, m, b, pc, d, p, f, Good
<1>10. ASSUME NEW ok \in BOOLEAN, MakesOver(t, at, ans, ok), pc # "open",
              Made(b, m).tree = tree', Made(b, m) = [tree |-> tree', ok |-> ok]
       PROVE  Good
  <2>1. CASE c.op = "Open" /\ at.pc = "reopen"
    <3>1. MkdirAlone(tree', b, at, c, m)
      BY <1>5, <1>10, <2>1 DEF MkdirAlone, f, c
    <3> QED
      BY <2>1, <3>1 DEF Good
  <2>2. CASE c.op = "Mkdir" /\ at.pc = "done" /\ ans = ok
    BY <1>3, <1>8, <1>10, <2>2 DEF Good
  <2> QED
    BY <1>6, <1>10, <2>1, <2>2 DEF MakesOver, PlacedAt, c
<1>11. ASSUME NEW k \in 1..Len(m), at.pc \in {"access", "mkdir"}, at.depth = k, GrownAt(tree', b, m, k),
              at.pc = "mkdir" => ~Exists(tree', SubSeq(m, 1, k)), pc # "open"
       PROVE  Good
  <2>1. MkdirAlone(tree', b, at, c, m)
    BY <1>5, <1>11 DEF MkdirAlone, f, c
  <2> QED
    BY <1>11, <2>1 DEF Good
<1>12. CASE pc = "lstat" /\ Exists(tree, m) /\ MakesOver(t, at, ans, TRUE) /\ UNCHANGED <<tree, lostRace>>
  <2>1. Made(b, m).tree = tree' /\ Made(b, m) = [tree |-> tree', ok |-> TRUE]
    BY <1>1, <1>5, <1>12, MadeIs
  <2> QED
    BY <1>10, <1>12, <2>1
<1>13. CASE pc = "lstat" /\ ~Exists(tree, m) /\ PlacedAt(at, "access", 1, <<>>) /\ UNCHANGED <<tree, lostRace>>
  <2>1. m # <<>>
    BY <1>13 DEF Exists
  <2>2. Len(m) # 0
    BY <1>1, <2>1, EmptySeq
  <2>3. GrownAt(tree', b, m, 1)
    BY <1>5, <1>13 DEF GrownAt
  <2> QED
    BY <1>1, <1>11, <1>13, <2>2, <2>3 DEF PlacedAt
<1>14. ASSUME pc \in {"access", "mkdir"}
       PROVE  tree[p] = b[p] /\ b[m] = Nothing /\ tree[m] = Nothing
  <2>1. tree[p] = b[p]
    BY <1>1, <1>5, <1>7, <1>14 DEF GrownAt
  <2>2. b[m] = Nothing
    BY <1>5, <1>14 DEF GrownAt, Exists
  <2>3. m \in FsPaths /\ ~(Len(m) < d)
    BY <1>1, <1>7, <1>14
  <2>4. tree[m] = b[m]
    BY <1>5, <1>14, <2>3 DEF GrownAt
  <2> QED
    BY <2>1, <2>2, <2>4
<1>15. CASE pc = "access" /\ Exists(tree, p) /\ Passed(t, at, ans) /\ UNCHANGED <<tree, lostRace>>
  <2>1. d # Len(m) /\ tree[p] # Nothing
    BY <1>7, <1>14, <1>15 DEF Exists
  <2>2. PlacedAt(at, "access", d + 1, <<>>)
    BY <1>15, <2>1 DEF Passed, d, m
  <2>3. d \in 1..Len(m) /\ d + 1 \in 1..Len(m)
    BY <1>1, <1>15, <2>1
  <2>4. GrownAt(tree', b, m, d + 1)
    <3>1. \A k \in 1..d : tree[SubSeq(m, 1, k)] # Nothing
      <4>1. \A k \in 1..d : k = d \/ k \in 1..(d - 1)
        BY <2>3
      <4>2. \A k \in 1..(d - 1) : tree[SubSeq(m, 1, k)] # Nothing
        BY <1>5, <1>15 DEF GrownAt
      <4> QED
        BY <1>9, <2>1, <4>1, <4>2
    <3>2. ~Exists(b, m) /\ \A q \in FsPaths : \/ tree[q] = b[q]
                                              \/ b[q] = Nothing /\ tree[q] = "dir" /\ IsPrefix(q, m) /\ Len(q) < d
      BY <1>5, <1>15 DEF GrownAt
    <3>3. \A q \in FsPaths : Len(q) < d => Len(q) < d + 1
      BY <1>1, <1>15, PathsAre, LenProperties
    <3>4. (d + 1) - 1 = d
      BY <2>3
    <3> QED
      BY <1>15, <3>1, <3>2, <3>3, <3>4 DEF GrownAt
  <2> QED
    BY <1>11, <1>15, <2>2, <2>3, <2>4 DEF PlacedAt
<1>16. CASE /\ pc = "access" /\ ~Exists(tree, p) /\ PlacedAt(at, "mkdir", d, <<>>)
            /\ UNCHANGED <<tree, lostRace>>
  BY <1>1, <1>5, <1>9, <1>11, <1>16 DEF PlacedAt
<1>17. CASE /\ pc = "mkdir" /\ CanMake(tree, p) /\ Passed(t, at, ans) /\ UNCHANGED lostRace
            /\ tree' = [tree EXCEPT ![p] = "dir"]
  <2>1. p \in FsPaths /\ tree'[p] = "dir" /\ \A q \in FsPaths : q # p => tree'[q] = tree[q]
    BY <1>1, <1>7, <1>17 DEF TreeOK
  <2>2. tree[p] = Nothing /\ b[p] = Nothing
    BY <1>14, <1>17 DEF CanMake
  <2>3. d \in 1..Len(m) /\ d \in Nat /\ (d + 1) - 1 = d
    BY <1>1, <1>17
  <2>4. GrownAt(tree', b, m, d + 1)
    <3>1. \A k \in 1..d : tree'[SubSeq(m, 1, k)] # Nothing
      <4>1. \A k \in 1..d : SubSeq(m, 1, k) \in FsPaths
        <5> TAKE k \in 1..d
        <5>1. k \in 0..Len(m) /\ k # 0
          BY <1>1, <2>3
        <5>2. SubSeq(m, 1, k) \in Seq(FsNames) /\ IsPrefix(SubSeq(m, 1, k), m) /\ SubSeq(m, 1, k) # <<>>
          BY <1>1, <5>1, PrefixOf
        <5> QED
          BY <1>7, <1>17, <5>2, PathsAre
      <4>2. \A k \in 1..(d - 1) : tree[SubSeq(m, 1, k)] # Nothing
        BY <1>5, <1>17 DEF GrownAt
      <4>3. \A k \in 1..d : k = d \/ k \in 1..(d - 1)
        BY <2>3
      <4>4. "dir" # Nothing
        BY DEF Nothing
      <4> QED
        BY <1>9, <2>1, <4>1, <4>2, <4>3, <4>4
    <3>2. ~Exists(b, m) /\ \A q \in FsPaths : \/ tree[q] = b[q]
                                              \/ b[q] = Nothing /\ tree[q] = "dir" /\ IsPrefix(q, m) /\ Len(q) < d
      BY <1>5, <1>17 DEF GrownAt
    <3>3. \A q \in FsPaths : Len(q) < d => Len(q) < d + 1
      BY <2>3, PathsAre, LenProperties
    <3>4. IsPrefix(p, m) /\ Len(p) < d + 1
      BY <1>7, <1>17, <2>3
    <3>5. \A q \in FsPaths :
            \/ tree'[q] = b[q]
            \/ b[q] = Nothing /\ tree'[q] = "dir" /\ IsPrefix(q, m) /\ Len(q) < d + 1
      BY <2>1, <2>2, <3>2, <3>3, <3>4
    <3> QED
      BY <2>3, <3>1, <3>2, <3>5 DEF GrownAt
  <2>5. CASE d = Len(m) /\ MakesOver(t, at, ans, TRUE)
    <3>1. p = m /\ m \in FsPaths /\ ~Exists(b, m)
      BY <1>7, <1>17, <2>4, <2>5 DEF GrownAt
    <3>2. ASSUME NEW q \in FsPaths PROVE IF IsPrefix(q, m) THEN tree'[q] = "dir" /\ b[q] \in {Nothing, "dir"}
                                         ELSE tree'[q] = b[q]
      <4>1. IsPrefix(q, m) => tree'[q] = "dir"
        BY <2>1, <3>1, StandsIn
      <4> QED
        BY <2>4, <4>1 DEF GrownAt
    <3>3. Made(b, m).tree = tree' /\ Made(b, m) = [tree |-> tree', ok |-> TRUE]
      BY <1>1, <3>1, <3>2, MadeIs
    <3> QED
      BY <1>10, <1>17, <2>5, <3>3
  <2>6. CASE d # Len(m) /\ PlacedAt(at, "access", d + 1, <<>>)
    <3>1. d + 1 \in 1..Len(m)
      BY <1>1, <2>3, <2>6
    <3> QED
      BY <1>11, <1>17, <2>4, <2>6, <3>1 DEF PlacedAt
  <2> QED
    BY <1>17, <2>5, <2>6 DEF Passed, d, m
<1>18. CASE /\ pc = "mkdir" /\ ~CanMake(tree, p) /\ MakesOver(t, at, ans, FALSE) /\ UNCHANGED tree
  <2> DEFINE g == Front(p)
  <2>1. p \in FsPaths /\ tree[p] = Nothing /\ ~IsDir(tree, g)
    BY <1>5, <1>7, <1>18 DEF CanMake, Exists
  <2>2. d \in 1..Len(m) /\ d - 1 \in 0..Len(m) /\ g = SubSeq(m, 1, d - 1) /\ g \in FsPaths /\ g \in Seq(FsNames)
    BY <1>1, <1>7, <1>18, <2>1, PathsAre DEF IsDir
  <2> HIDE DEF g
  <2>3. Len(g) = d - 1 /\ IsPrefix(g, m)
    <3>1. m \in Seq(FsNames) /\ d - 1 \in 0..Len(m) /\ g = SubSeq(m, 1, d - 1)
      BY <1>1, <2>2
    <3> QED
      BY ONLY <3>1, PrefixOf
  <2>4. d - 1 # 0
    BY <2>2, <2>3, PathsAre, EmptySeq
  <2>5. tree[g] # Nothing /\ tree[g] # "dir" /\ b[g] = tree[g]
    <3>1. d - 1 \in 1..(d - 1)
      BY <2>2, <2>4
    <3> QED
      BY <1>5, <1>18, <2>1, <2>2, <3>1 DEF GrownAt, IsDir
  <2>6. ASSUME NEW q \in FsPaths PROVE tree[q] = b[q]
    <3>1. SUFFICES ASSUME b[q] = Nothing, IsPrefix(q, m), Len(q) < d PROVE FALSE
      BY <1>5, <1>18 DEF GrownAt
    <3>2. q \in Seq(FsNames) /\ Len(q) \in Nat
      BY PathsAre, LenProperties
    <3>3. Len(q) <= Len(g)
      BY <2>2, <2>3, <3>1, <3>2
    <3>4. IsPrefix(q, g)
      <4>1. IsPrefix(q, g) \/ IsPrefix(g, q)
        BY <1>1, <2>2, <2>3, <3>1, <3>2, PrefixOrder
      <4>2. IsPrefix(g, q) => g = q
        <5>1. IsPrefix(g, q) => Len(g) <= Len(q) /\ (Len(g) = Len(q) => g = q)
          BY <2>2, <3>2, PrefixOrder
        <5> QED
          BY <2>2, <2>3, <3>2, <3>3, <5>1
      <4> QED
        BY <3>2, <4>1, <4>2, PrefixOrder
    <3> QED
      BY <1>1, <2>2, <2>5, <3>1, <3>4, StandsIn
  <2>7. tree = b
    BY <1>1, <2>6 DEF TreeOK
  <2>8. Made(b, m).tree = tree' /\ Made(b, m) = [tree |-> tree', ok |-> FALSE]
    <3>1. ~Exists(b, m) /\ \E q \in FsPaths : IsPrefix(q, m) /\ b[q] \notin {Nothing, "dir"}
      BY <1>5, <1>18, <2>2, <2>3, <2>5 DEF GrownAt
    <3> QED
      BY <1>1, <1>18, <2>7, <3>1, MadeIs
  <2> QED
    BY <1>10, <1>18, <2>8
<1>19. CASE /\ pc \in {"open", "reopen"} /\ CanOpen(tree, f) /\ at = FsEnded /\ ans = TRUE
            /\ tree' = [tree EXCEPT ![f] = "new"] /\ UNCHANGED lostRace
  <2>1. Meaning(c, b) = [tree |-> tree', ok |-> TRUE]
    BY <1>1, <1>5, <1>8, <1>19
  <2> QED
    BY <1>6, <1>19, <2>1 DEF Good
<1>20. CASE /\ pc = "open" /\ ~CanOpen(tree, f) /\ PlacedAt(at, "lstat", d, <<>>)
            /\ UNCHANGED <<tree, lostRace>>
  <2>1. MkdirAlone(tree', b, at, c, m)
    BY <1>5, <1>20 DEF MkdirAlone, PlacedAt, f, c
  <2> QED
    BY <1>20, <2>1 DEF Good, PlacedAt
<1>21. CASE /\ pc = "reopen" /\ ~CanOpen(tree, f) /\ at = FsEnded /\ ans = FALSE
            /\ UNCHANGED <<tree, lostRace>>
  <2>1. Meaning(c, b) = [tree |-> tree', ok |-> FALSE]
    BY <1>1, <1>5, <1>8, <1>21
  <2> QED
    BY <1>6, <1>21, <2>1 DEF Good
<1> QED
  BY <1>12, <1>13, <1>15, <1>16, <1>17, <1>18, <1>19, <1>20, <1>21, Zenon
     DEF Creates, m, p, f, pc, d

LEMMA AloneKept ==
  ASSUME FsShape, RemovingInv, AloneInv, FsNext
  PROVE  AloneInv'
<1> DEFINE AloneOK(t) ==
      /\ fsAt[t].pc \in RmPcs \cup {"readdir", "rename"} => RmAlone(tree, before, fsAt[t], fsCall[t].path)
      /\ fsAt[t].pc \in MkdirPcs => MkdirAlone(tree, before, fsAt[t], fsCall[t], MkdirPath(t))
      /\ Ended(t) => [tree |-> tree, ok |-> fsAnswer[t]] = Meaning(fsCall[t], before)
<1>1. FsShape' /\ TreeOK(tree')
  BY FsShapeKept DEF FsShape
<1>2. ASSUME NEW t \in FsThreads, fsCall'[t] \in FsCalls, Alone(t)' => AloneOK(t)'
      PROVE  AloneInv'
  <2>1. \A u \in FsThreads : u # t => ~Alone(u)'
    BY <1>2, CalledNext
  <2> QED
    BY <1>2, <2>1 DEF AloneInv
<1> HIDE DEF AloneOK
<1>3. ASSUME NEW t \in FsThreads, FsBegin(t) PROVE AloneInv'
  <2>1. PICK c \in FsCalls :
           /\ fsAt[t] = FsOut /\ fsCall[t] = NoCall /\ fsCall'[t] = c /\ UNCHANGED <<tree, fsAnswer, lostRace>>
           /\ \A u \in FsThreads \ {t} : fsAt'[u] = fsAt[u] /\ fsCall'[u] = fsCall[u]
           /\ \/ c.op = "Mkdir" /\ fsAt'[t].pc = "lstat"
              \/ c.op = "Open" /\ fsAt'[t].pc = "open"
              \/ c.op \in RemovingOps /\ fsAt'[t].pc = "rm"
           /\ fsAt'[t].depth = 0 /\ fsAt'[t].path = c.path /\ fsAt'[t].frames = <<>>
           /\ before' = tree \/ before' = before
           /\ Alone(t) => before' = tree
    BY <1>3, BeginIs, Zenon
  <2>2. ASSUME Alone(t)' PROVE AloneOK(t)'
    <3>1. Alone(t)
      BY <2>1, <2>2 DEF Alone
    <3>2. before' = tree' /\ Len(<<>>) = 0
      BY <2>1, <3>1, EmptySeq
    <3>3. CASE c.op = "Mkdir" /\ fsAt'[t].pc = "lstat"
      BY <2>1, <3>2, <3>3 DEF AloneOK, MkdirAlone, RmPcs, Ended
    <3>4. CASE c.op = "Open" /\ fsAt'[t].pc = "open"
      BY <2>1, <3>2, <3>4 DEF AloneOK, MkdirAlone, RmPcs, Ended
    <3>5. CASE fsAt'[t].pc = "rm"
      <4>1. RmAlone(tree, before, fsAt[t], fsCall[t].path)'
        BY <2>1, <3>2, <3>5 DEF RmAlone, CutAt
      <4> QED
        BY <3>5, <4>1 DEF AloneOK, MkdirPcs, Ended
    <3> QED
      BY <2>1, <3>3, <3>4, <3>5
  <2> QED
    BY <1>2, <2>1, <2>2
<1>4. ASSUME NEW t \in FsThreads, NEW at, NEW ans, FsTo(t, at, ans)
      PROVE  /\ fsAt'[t] = at /\ fsAnswer'[t] = ans /\ fsCall' = fsCall /\ before' = before /\ fsCall[t] \in FsCalls
             /\ MkdirPath(t)' = MkdirPath(t) /\ fsCall'[t] \in FsCalls
             /\ Alone(t)' => Alone(t)
  <2>1. /\ fsAt'[t] = at /\ fsAnswer'[t] = ans /\ fsCall' = fsCall /\ before' = before /\ fsCall[t] \in FsCalls
        /\ MkdirPath(t)' = MkdirPath(t)
        /\ \A u \in FsThreads \ {t} : fsAt'[u] = fsAt[u]
    BY <1>4, WentTo
  <2> QED
    BY <2>1 DEF Alone
<1>5. ASSUME NEW t \in FsThreads, NEW at, NEW ans, FsTo(t, at, ans), Creates(t, at, ans),
             CreatingAt(fsAt[t], fsCall[t], MkdirPath(t))
      PROVE  AloneInv'
  <2>1. /\ fsAt'[t] = at /\ fsAnswer'[t] = ans /\ fsCall' = fsCall /\ before' = before /\ fsCall[t] \in FsCalls
        /\ MkdirPath(t)' = MkdirPath(t) /\ fsCall'[t] \in FsCalls
        /\ Alone(t)' => Alone(t)
    BY <1>4, <1>5
  <2>2. ASSUME Alone(t)' PROVE AloneOK(t)'
    <3>1. /\ at.pc # "done" => MkdirAlone(tree', before, at, fsCall[t], MkdirPath(t))
          /\ at.pc = "done" => [tree |-> tree', ok |-> ans] = Meaning(fsCall[t], before)
      BY <1>1, <1>5, <2>1, <2>2, AloneCreates
    <3>2. at.pc \in MkdirPcs \cup {"done"}
      <4>1. FsPlace(t)'
        BY <1>1 DEF FsShape
      <4>2. FsEnded.pc = "done" /\ FsOut.pc = "out" /\ NoCall \notin FsCalls /\ Creating \cap RemovingOps = {}
        BY FsAtIs, CallsAre DEF FsEnded, FsOut, Creating, RemovingOps
      <4>3. fsCall[t].op \in Creating
        BY <1>5 DEF CreatingAt
      <4> QED
        BY <2>1, <4>1, <4>2, <4>3 DEF FsPlace, CreatingAt, RemovingAt
    <3>3. at.pc \notin RmPcs \cup {"readdir", "rename"}
      BY <3>2 DEF MkdirPcs, RmPcs
    <3>4. at.pc \in MkdirPcs => at.pc # "done"
      BY DEF MkdirPcs
    <3> QED
      BY <2>1, <3>1, <3>3, <3>4 DEF AloneOK, Ended
  <2> QED
    BY <1>2, <2>1, <2>2
<1>6. ASSUME NEW t \in FsThreads, NEW at, NEW ans, FsTo(t, at, ans), UNCHANGED lostRace,
             RemovesTo(t, at, ans) \/ Renames(t, at, ans), RemovingAt(fsAt[t], fsCall[t])
      PROVE  AloneInv'
  <2>1. /\ fsAt'[t] = at /\ fsAnswer'[t] = ans /\ fsCall' = fsCall /\ before' = before /\ fsCall[t] \in FsCalls
        /\ MkdirPath(t)' = MkdirPath(t) /\ fsCall'[t] \in FsCalls
        /\ Alone(t)' => Alone(t)
    BY <1>4, <1>6
  <2>2. ASSUME Alone(t)' PROVE AloneOK(t)'
    <3>1. /\ at.pc # "done" => RmAlone(tree', before, at, fsCall[t].path)
          /\ at.pc = "done" => [tree |-> tree', ok |-> ans] = Meaning(fsCall[t], before)
      BY <1>1, <1>6, <2>1, <2>2, AloneRemoving
    <3>2. at.pc \notin MkdirPcs
      <4>1. FsPlace(t)'
        BY <1>1 DEF FsShape
      <4>2. FsEnded.pc = "done" /\ FsOut.pc = "out" /\ NoCall \notin FsCalls /\ Creating \cap RemovingOps = {}
        BY FsAtIs, CallsAre DEF FsEnded, FsOut, Creating, RemovingOps
      <4>3. fsCall[t].op \in RemovingOps
        BY <1>6 DEF RemovingAt
      <4> QED
        BY <2>1, <4>1, <4>2, <4>3 DEF FsPlace, CreatingAt, RemovingAt, RmPcs, MkdirPcs
    <3>3. at.pc \in RmPcs \cup {"readdir", "rename"} => at.pc # "done"
      BY DEF RmPcs
    <3> QED
      BY <2>1, <3>1, <3>2, <3>3 DEF AloneOK, Ended
  <2> QED
    BY <1>2, <2>1, <2>2
<1> QED
  BY <1>3, <1>5, <1>6, FsStepIs, Zenon

(* A call that ran alone did what it means. *)
LEMMA AloneHeld == FsShape /\ AloneInv => AloneMeans
<1> SUFFICES ASSUME FsShape, AloneInv, NEW t \in FsThreads, Ended(t), \A u \in FsThreads \ {t} : fsAt[u].pc = "out"
             PROVE  [tree |-> tree, ok |-> fsAnswer[t]] = Meaning(fsCall[t], before)
  BY DEF AloneMeans
<1> QED
  BY DEF AloneInv, Alone

(* Creating.  What others create leaves what a call has made, and what has stopped it. *)
Grows(tr, new) ==
  \A q \in FsPaths : \/ new[q] = tr[q]
                     \/ tr[q] = Nothing /\ new[q] = "dir"
                     \/ tr[q] \notin LooksLikeDir /\ new[q] = "new"
StaysIn(tr, new) ==
  /\ \A q : (q = <<>> \/ q \in FsPaths) /\ Exists(tr, q) => Exists(new, q)
  /\ \A q : BlockedAt(tr, q) => BlockedAt(new, q)
  /\ \A q \in FsPaths : /\ tr[q] \in LooksLikeDir => new[q] \in LooksLikeDir
                        /\ tr[q] = "new" => new[q] = "new"

LEMMA GrowsStays ==
  ASSUME NEW tr, NEW new, Grows(tr, new)
  PROVE  StaysIn(tr, new)
<1>1. \A q : (q = <<>> \/ q \in FsPaths) /\ Exists(tr, q) => Exists(new, q)
  BY DEF Grows, Exists, Nothing
<1>2. \A q : BlockedAt(tr, q) => BlockedAt(new, q)
  BY DEF Grows, BlockedAt, Nothing
<1>3. \A q \in FsPaths : /\ tr[q] \in LooksLikeDir => new[q] \in LooksLikeDir
                         /\ tr[q] = "new" => new[q] = "new"
  BY DEF Grows, LooksLikeDir, Nothing
<1> QED
  BY <1>1, <1>2, <1>3 DEF StaysIn

(* The prefixes of what Mkdir makes. *)
LEMMA PrefixesAre ==
  ASSUME NEW t \in FsThreads, fsCall[t] \in FsCalls, NEW k \in 1..Len(MkdirPath(t))
  PROVE  SubSeq(MkdirPath(t), 1, k) \in FsPaths
<1> DEFINE m == MkdirPath(t)
<1>1. m \in Seq(FsNames) /\ (m = <<>> \/ m \in FsPaths) /\ Len(m) \in Nat
  BY MkdirPathIs, LenProperties
<1> HIDE DEF m
<1>2. k \in 0..Len(m) /\ k # 0 /\ m # <<>>
  BY <1>1, EmptySeq DEF m
<1>3. SubSeq(m, 1, k) \in Seq(FsNames) /\ IsPrefix(SubSeq(m, 1, k), m) /\ SubSeq(m, 1, k) # <<>>
  BY <1>1, <1>2, PrefixOf
<1>4. SubSeq(m, 1, k) \in FsPaths
  BY <1>1, <1>2, <1>3, PathsAre
<1> QED
  BY <1>4 DEF m

LEMMA CreatesGrows ==
  ASSUME FsShape, NEW t \in FsThreads, NEW at, NEW ans, FsTo(t, at, ans), Creates(t, at, ans),
         CreatingAt(fsAt[t], fsCall[t], MkdirPath(t))
  PROVE  Grows(tree, tree')
<1>1. fsCall[t].path \in FsPaths /\ tree \in [FsPaths -> FsKinds] /\ fsCall[t] \in FsCalls
  BY CallsAre DEF FsTo, FsShape, TreeOK
<1>2. CASE UNCHANGED tree
  BY <1>2 DEF Grows
<1>3. CASE /\ fsAt[t].pc = "mkdir" /\ CanMake(tree, MkdirPrefix(t))
           /\ tree' = [tree EXCEPT ![MkdirPrefix(t)] = "dir"]
  <2>1. MkdirPrefix(t) \in FsPaths
    BY <1>1, <1>3, MkdirPrefixIs DEF CreatingAt
  <2> QED
    BY <1>1, <1>3, <2>1 DEF Grows, CanMake
<1>4. CASE CanOpen(tree, fsCall[t].path) /\ tree' = [tree EXCEPT ![fsCall[t].path] = "new"]
  BY <1>1, <1>4 DEF Grows, CanOpen
<1> QED
  BY <1>2, <1>3, <1>4, Zenon DEF Creates

(* Whom a thread's step leaves where it was. *)
LEMMA CreatedStays ==
  ASSUME FsShape, NEW u \in FsThreads, fsCall[u] \in FsCalls, StaysIn(tree, tree'), CreatedOK(u),
         fsAt'[u] = fsAt[u], fsCall'[u] = fsCall[u], fsAnswer'[u] = fsAnswer[u], u \in lostRace' <=> u \in lostRace
  PROVE  CreatedOK(u)'
<1> DEFINE f == fsCall[u].path
           m == MkdirPath(u)
<1>1. MkdirPath(u)' = m
  BY DEF MkdirPath
<1>2. f \in FsPaths /\ (m = <<>> \/ m \in FsPaths)
  BY CallsAre, MkdirPathIs
<1>3. fsAt[u].pc \in {"access", "mkdir"} => \A k \in 1..(fsAt[u].depth - 1) : SubSeq(m, 1, k) \in FsPaths
  <2>1. SUFFICES ASSUME fsAt[u].pc \in {"access", "mkdir"}, NEW k \in 1..(fsAt[u].depth - 1)
                 PROVE  SubSeq(m, 1, k) \in FsPaths
    OBVIOUS
  <2>2. fsAt[u].depth \in 1..Len(m) /\ Len(m) \in Nat
    <3>1. CreatingAt(fsAt[u], fsCall[u], m)
      BY <2>1, InCall, FsAtIs DEF FsShape, FsPlace, FsOut, FsEnded, RemovingAt, RmPcs
    <3> QED
      BY <2>1, <3>1, MkdirPathIs, LenProperties DEF CreatingAt
  <2>3. k \in 1..Len(m)
    BY <2>2
  <2> QED
    BY <2>3, PrefixesAre
<1>4. /\ Exists(tree, f) => Exists(tree', f)
      /\ Exists(tree, m) => Exists(tree', m)
      /\ BlockedAt(tree, f) => BlockedAt(tree', f)
      /\ BlockedAt(tree, m) => BlockedAt(tree', m)
      /\ tree[f] \in LooksLikeDir => tree'[f] \in LooksLikeDir
      /\ tree[f] = "new" => tree'[f] = "new"
      /\ fsAt[u].pc \in {"access", "mkdir"} =>
           \A k \in 1..(fsAt[u].depth - 1) : Exists(tree, SubSeq(m, 1, k)) => Exists(tree', SubSeq(m, 1, k))
  BY <1>2, <1>3 DEF StaysIn
<1> HIDE DEF f, m
<1>5. Refused(u) => Refused(u)'
  BY <1>4 DEF Refused, f
<1>6. /\ Ended(u) /\ fsAnswer[u] => Exists(tree, f) /\ (fsCall[u].op = "Open" => tree[f] = "new")
      /\ Ended(u) /\ ~fsAnswer[u] /\ u \notin lostRace => Refused(u)
      /\ fsAt[u].pc \in {"access", "mkdir"} => \A k \in 1..(fsAt[u].depth - 1) : Exists(tree, SubSeq(m, 1, k))
      /\ fsAt[u].pc = "reopen" /\ u \notin lostRace => Exists(tree, m) \/ BlockedAt(tree, m)
  BY DEF CreatedOK, f, m
<1>7. /\ Ended(u)' /\ fsAnswer'[u] => Exists(tree', f) /\ (fsCall[u].op = "Open" => tree'[f] = "new")
      /\ Ended(u)' /\ ~fsAnswer'[u] /\ u \notin lostRace' => Refused(u)'
      /\ fsAt'[u].pc \in {"access", "mkdir"} => \A k \in 1..(fsAt'[u].depth - 1) : Exists(tree', SubSeq(m, 1, k))
      /\ fsAt'[u].pc = "reopen" /\ u \notin lostRace' => Exists(tree', m) \/ BlockedAt(tree', m)
  BY <1>4, <1>5, <1>6 DEF Ended
<1> QED
  BY <1>1, <1>7 DEF CreatedOK, f, m

(* What stops Mkdir is on the way. *)
LEMMA StoppedAt ==
  ASSUME NEW tr, NEW m \in FsPaths, NEW q \in FsPaths, IsStrictPrefix(q, m), Exists(tr, q), ~IsDir(tr, q)
  PROVE  BlockedAt(tr, m)
BY DEF BlockedAt, Exists, IsDir

LEMMA BlockedBelow ==
  ASSUME NEW tr, NEW f \in FsPaths, Front(f) = <<>> \/ Front(f) \in FsPaths
  PROVE  /\ BlockedAt(tr, Front(f)) => BlockedAt(tr, f)
         /\ Exists(tr, Front(f)) /\ ~IsDir(tr, Front(f)) => BlockedAt(tr, f)
<1>1. f \in Seq(FsNames) /\ f # <<>> /\ FsPaths \subseteq Seq(FsNames)
  BY PathsAre
<1>2. Front(f) \in Seq(FsNames) /\ IsPrefix(Front(f), f) /\ Front(f) # f
  BY <1>1, ParentIs
<1> DEFINE g == Front(f)
<1>3. g \in Seq(FsNames) /\ IsStrictPrefix(g, f) /\ IsPrefix(g, f) /\ (g = <<>> \/ g \in FsPaths)
  BY <1>2 DEF IsStrictPrefix
<1> SUFFICES /\ BlockedAt(tr, g) => BlockedAt(tr, f)
             /\ Exists(tr, g) /\ ~IsDir(tr, g) => BlockedAt(tr, f)
  OBVIOUS
<1> HIDE DEF g
<1>4. ASSUME NEW q \in FsPaths, IsStrictPrefix(q, g) PROVE IsStrictPrefix(q, f)
  <2>1. IsPrefix(q, g) /\ q # g /\ q \in Seq(FsNames)
    BY <1>1, <1>4 DEF IsStrictPrefix
  <2>2. IsPrefix(q, f)
    BY <1>1, <1>3, <2>1, PrefixOrder
  <2>3. q # f
    BY <1>1, <1>3, <2>1, PrefixOrder
  <2> QED
    BY <2>2, <2>3 DEF IsStrictPrefix
<1>5. BlockedAt(tr, g) => BlockedAt(tr, f)
  BY <1>4 DEF BlockedAt
<1>6. Exists(tr, g) /\ ~IsDir(tr, g) => BlockedAt(tr, f)
  BY <1>3, StoppedAt DEF IsDir
<1> QED
  BY <1>5, <1>6

(* What a thread's own step leaves. *)
LEMMA CreatesOK ==
  ASSUME FsShape, NEW t \in FsThreads, NEW at, NEW ans, FsTo(t, at, ans), Creates(t, at, ans),
         CreatingAt(fsAt[t], fsCall[t], MkdirPath(t)), CreatedOK(t)
  PROVE  CreatedOK(t)'
<1> DEFINE c == fsCall[t]
           m == MkdirPath(t)
           pc == fsAt[t].pc
           d == fsAt[t].depth
           p == MkdirPrefix(t)
           f == fsCall[t].path
           Good == /\ at.pc = "done" /\ ans => Exists(tree', f) /\ (c.op = "Open" => tree'[f] = "new")
                   /\ at.pc = "done" /\ ~ans /\ t \notin lostRace' =>
                        BlockedAt(tree', f) \/ (c.op = "Open" /\ tree'[f] \in LooksLikeDir)
                   /\ at.pc \in {"access", "mkdir"} =>
                        \A k \in 1..(at.depth - 1) : Exists(tree', SubSeq(m, 1, k))
                   /\ at.pc = "reopen" /\ t \notin lostRace' => Exists(tree', m) \/ BlockedAt(tree', m)
<1>1. /\ c \in FsCalls /\ f \in FsPaths /\ c.op \in {"Mkdir", "Open"} /\ ans \in BOOLEAN
      /\ tree \in [FsPaths -> FsKinds]
      /\ m \in Seq(FsNames) /\ (m = <<>> \/ m \in FsPaths) /\ Len(m) \in Nat
      /\ pc \in {"access", "mkdir"} => d \in 1..Len(m)
      /\ pc \in {"open", "reopen"} => c.op = "Open"
  BY CallsAre, MkdirPathIs, LenProperties DEF FsTo, FsShape, TreeOK, CreatingAt, Creating
<1>2. (c.op = "Open" => m = Front(f)) /\ (c.op = "Mkdir" => m = f)
  BY <1>1 DEF MkdirPath, Dirname
<1>3. /\ pc \in {"access", "mkdir"} => \A k \in 1..(d - 1) : Exists(tree, SubSeq(m, 1, k))
      /\ pc = "reopen" /\ t \notin lostRace => Exists(tree, m) \/ BlockedAt(tree, m)
  BY DEF CreatedOK
<1>4. /\ fsAt'[t] = at /\ fsAnswer'[t] = ans /\ fsCall' = fsCall /\ MkdirPath(t)' = m
  BY WentTo
<1>5. Good => CreatedOK(t)'
  <2> HIDE DEF m
  <2>1. ASSUME Good PROVE CreatedOK(t)'
    BY <1>4, <2>1 DEF CreatedOK, Refused, Ended
  <2> QED
    BY <2>1
<1>6. FsEnded.pc = "done"
  BY FsAtIs DEF FsEnded
<1>7. pc \in {"access", "mkdir"} =>
         /\ m \in FsPaths /\ p \in FsPaths /\ p \in Seq(FsNames) /\ Len(p) = d
         /\ IsPrefix(p, m) /\ p # <<>> /\ Front(p) = SubSeq(m, 1, d - 1)
         /\ d = Len(m) => p = m
  BY <1>1, MkdirPrefixIs
<1>8. SubSeq(m, 1, d) = p
  BY DEF MkdirPrefix
<1>9. StaysIn(tree, tree')
  BY CreatesGrows, GrowsStays
<1> SUFFICES Good
  BY <1>5
<1> HIDE DEF c, m, pc, d, p, f, Good
<1>10. ASSUME MakesOver(t, at, ans, TRUE), Exists(tree', m)
       PROVE  Good
  <2>1. CASE c.op = "Open" /\ at.pc = "reopen"
    BY <1>10, <2>1 DEF Good
  <2>2. CASE c.op = "Mkdir" /\ at.pc = "done" /\ ans = TRUE
    BY <1>2, <1>10, <2>2 DEF Good
  <2> QED
    BY <1>6, <1>10, <2>1, <2>2 DEF MakesOver, PlacedAt, c
<1>11. ASSUME at.pc \in {"access", "mkdir"}, \A k \in 1..(at.depth - 1) : Exists(tree', SubSeq(m, 1, k))
       PROVE  Good
  BY <1>11 DEF Good
<1>12. ASSUME pc \in {"access", "mkdir"}, Exists(tree', p), Passed(t, at, ans)
       PROVE  Good
  <2>1. CASE d = Len(m) /\ MakesOver(t, at, ans, TRUE)
    BY <1>7, <1>10, <1>12, <2>1
  <2>2. CASE d # Len(m) /\ PlacedAt(at, "access", d + 1, <<>>)
    <3>1. \A k \in 1..d : k = d \/ k \in 1..(d - 1)
      BY <1>1, <1>12
    <3>2. \A k \in 1..(d - 1) : SubSeq(m, 1, k) \in FsPaths
      <4> TAKE k \in 1..(d - 1)
      <4>1. k \in 1..Len(m)
        BY <1>1, <1>12
      <4> QED
        BY <1>1, <4>1, PrefixesAre DEF m, c
    <3>3. \A k \in 1..(d - 1) : Exists(tree', SubSeq(m, 1, k))
      BY <1>3, <1>9, <1>12, <3>2 DEF StaysIn
    <3>4. \A k \in 1..d : Exists(tree', SubSeq(m, 1, k))
      BY <1>8, <1>12, <3>1, <3>3
    <3>5. at.pc = "access" /\ at.depth = d + 1 /\ (d + 1) - 1 = d
      BY <1>1, <1>12, <2>2 DEF PlacedAt
    <3> QED
      BY <1>11, <3>4, <3>5
  <2> QED
    BY <1>12, <2>1, <2>2 DEF Passed, d, m
<1>13. CASE pc = "lstat" /\ Exists(tree, m) /\ MakesOver(t, at, ans, TRUE) /\ UNCHANGED <<tree, lostRace>>
  BY <1>10, <1>13
<1>14. CASE pc = "lstat" /\ ~Exists(tree, m) /\ PlacedAt(at, "access", 1, <<>>) /\ UNCHANGED <<tree, lostRace>>
  BY <1>11, <1>14 DEF PlacedAt
<1>15. CASE pc = "access" /\ Exists(tree, p) /\ Passed(t, at, ans) /\ UNCHANGED <<tree, lostRace>>
  BY <1>12, <1>15
<1>16. CASE /\ pc = "access" /\ ~Exists(tree, p) /\ PlacedAt(at, "mkdir", d, <<>>)
            /\ UNCHANGED <<tree, lostRace>>
  BY <1>3, <1>11, <1>16 DEF PlacedAt
<1>17. CASE /\ pc = "mkdir" /\ CanMake(tree, p) /\ Passed(t, at, ans) /\ UNCHANGED lostRace
            /\ tree' = [tree EXCEPT ![p] = "dir"]
  <2>1. Exists(tree', p)
    BY <1>1, <1>7, <1>17 DEF Exists, Nothing
  <2> QED
    BY <1>12, <1>17, <2>1
<1>18. CASE /\ pc = "mkdir" /\ ~CanMake(tree, p) /\ MakesOver(t, at, ans, FALSE) /\ UNCHANGED tree
            /\ lostRace' = IF Exists(tree, p) THEN lostRace \cup {t} ELSE lostRace
  <2>1. Exists(tree, p) => t \in lostRace'
    BY <1>18
  <2>2. ~Exists(tree, p) => BlockedAt(tree', m)
    <3>1. SUFFICES ASSUME ~Exists(tree, p) PROVE BlockedAt(tree, m)
      BY <1>18
    <3> DEFINE g == Front(p)
    <3>2. p \in FsPaths /\ ~IsDir(tree, g) /\ m \in FsPaths
      BY <1>7, <1>18, <3>1 DEF CanMake, Exists
    <3>3. d \in 1..Len(m) /\ d - 1 \in 0..Len(m) /\ g = SubSeq(m, 1, d - 1) /\ g \in FsPaths
      BY <1>1, <1>7, <1>18, <3>2, PathsAre DEF IsDir
    <3> HIDE DEF g
    <3>4. Len(g) = d - 1 /\ IsPrefix(g, m)
      <4>1. m \in Seq(FsNames) /\ d - 1 \in 0..Len(m) /\ g = SubSeq(m, 1, d - 1)
        BY <1>1, <3>3
      <4> QED
        BY ONLY <4>1, PrefixOf
    <3>5. d - 1 # 0
      BY <3>3, <3>4, PathsAre, EmptySeq
    <3>6. d - 1 \in 1..(d - 1) /\ Len(g) # Len(m)
      BY <1>1, <3>3, <3>4, <3>5
    <3>7. Exists(tree, g)
      BY <1>3, <1>18, <3>3, <3>6
    <3>8. IsStrictPrefix(g, m)
      BY <3>4, <3>6 DEF IsStrictPrefix
    <3> QED
      BY <3>2, <3>3, <3>7, <3>8, StoppedAt
  <2>3. CASE c.op = "Open" /\ at.pc = "reopen"
    BY <2>1, <2>2, <2>3 DEF Good
  <2>4. CASE c.op = "Mkdir" /\ at.pc = "done" /\ ans = FALSE
    BY <1>2, <2>1, <2>2, <2>4 DEF Good
  <2> QED
    BY <1>6, <1>18, <2>3, <2>4 DEF MakesOver, PlacedAt, c
<1>19. CASE /\ pc \in {"open", "reopen"} /\ CanOpen(tree, f) /\ at = FsEnded /\ ans = TRUE
            /\ tree' = [tree EXCEPT ![f] = "new"] /\ UNCHANGED lostRace
  <2>1. tree'[f] = "new" /\ Exists(tree', f)
    BY <1>1, <1>19 DEF Exists, Nothing
  <2> QED
    BY <1>6, <1>19, <2>1 DEF Good
<1>20. CASE /\ pc = "open" /\ ~CanOpen(tree, f) /\ PlacedAt(at, "lstat", d, <<>>)
            /\ UNCHANGED <<tree, lostRace>>
  BY <1>20 DEF Good, PlacedAt
<1>21. CASE /\ pc = "reopen" /\ ~CanOpen(tree, f) /\ at = FsEnded /\ ans = FALSE
            /\ UNCHANGED <<tree, lostRace>>
  <2>1. t \notin lostRace' => BlockedAt(tree', f) \/ tree'[f] \in LooksLikeDir
    <3>1. SUFFICES ASSUME t \notin lostRace, tree[f] \notin LooksLikeDir PROVE BlockedAt(tree, f)
      BY <1>21
    <3>2. ~IsDir(tree, m) /\ m = Front(f) /\ (Exists(tree, m) \/ BlockedAt(tree, m))
      BY <1>1, <1>2, <1>3, <1>21, <3>1 DEF CanOpen
    <3> QED
      BY <1>1, <3>2, BlockedBelow
  <2> QED
    BY <1>1, <1>6, <1>21, <2>1 DEF Good
<1> QED
  BY <1>13, <1>14, <1>15, <1>16, <1>17, <1>18, <1>19, <1>20, <1>21, Zenon
     DEF Creates, m, p, f, pc, d

LEMMA CreatingKept ==
  ASSUME FsShape, CreatingInv, FsNext
  PROVE  CreatingInv'
<1>1. FsShape'
  BY FsShapeKept
<1>2. FsOut.pc = "out" /\ FsEnded.pc = "done"
  BY FsAtIs DEF FsOut, FsEnded
<1>3. Creating = {"Mkdir", "Open"} /\ RemovingOps = {"Rm", "Mv", "Symlink"} /\ NoCall.op = "none"
  BY CallsAre DEF Creating, RemovingOps
<1>4. ASSUME NEW u \in FsThreads, Ended(u) \/ fsAt[u].pc \in MkdirPcs PROVE fsCall[u] \in FsCalls
  BY <1>2, <1>4 DEF FsShape, FsPlace, Ended, MkdirPcs
<1>5. ASSUME NEW t \in FsThreads, FsBegin(t) PROVE CreatingInv'
  <2>1. PICK c \in FsCalls :
           /\ fsAt[t] = FsOut /\ fsCall[t] = NoCall /\ fsCall'[t] = c /\ UNCHANGED <<tree, fsAnswer, lostRace>>
           /\ \A u \in FsThreads \ {t} : fsAt'[u] = fsAt[u] /\ fsCall'[u] = fsCall[u]
           /\ \/ c.op = "Mkdir" /\ fsAt'[t].pc = "lstat"
              \/ c.op = "Open" /\ fsAt'[t].pc = "open"
              \/ c.op \in RemovingOps /\ fsAt'[t].pc = "rm"
           /\ fsAt'[t].depth = 0 /\ fsAt'[t].path = c.path /\ fsAt'[t].frames = <<>>
           /\ before' = tree \/ before' = before
           /\ Alone(t) => before' = tree
    BY <1>5, BeginIs, Zenon
  <2>2. SUFFICES ASSUME OnlyCreate'
                 PROVE  /\ \A u \in FsThreads : Ended(u)' \/ fsAt'[u].pc \in MkdirPcs => CreatedOK(u)'
                        /\ \E u \in FsThreads : Winner(u)'
    BY DEF CreatingInv
  <2>3. OnlyCreate
    BY <1>3, <2>1, <2>2 DEF OnlyCreate
  <2>4. fsAt'[t].pc \in {"lstat", "open"}
    BY <1>3, <2>1, <2>2 DEF OnlyCreate
  <2>5. t \notin lostRace
    BY <1>2, <2>1 DEF FsShape
  <2>6. CreatedOK(t)' /\ Winner(t)'
    BY <2>1, <2>4, <2>5 DEF CreatedOK, Ended, Winner
  <2>7. StaysIn(tree, tree')
    BY <2>1, GrowsStays DEF Grows
  <2>8. ASSUME NEW u \in FsThreads, u # t, Ended(u)' \/ fsAt'[u].pc \in MkdirPcs
        PROVE  CreatedOK(u)'
    <3>1. /\ fsAt'[u] = fsAt[u] /\ fsCall'[u] = fsCall[u] /\ fsAnswer'[u] = fsAnswer[u]
          /\ u \in lostRace' <=> u \in lostRace
      BY <2>1, <2>8
    <3>2. Ended(u) \/ fsAt[u].pc \in MkdirPcs
      BY <2>8, <3>1 DEF Ended
    <3>3. CreatedOK(u)
      BY <2>3, <3>2 DEF CreatingInv
    <3>4. fsCall[u] \in FsCalls
      BY <1>4, <3>2
    <3> QED
      BY <2>7, <3>1, <3>3, <3>4, CreatedStays
  <2> QED
    BY <2>6, <2>8
<1>6. ASSUME NEW t \in FsThreads, NEW at, NEW ans, FsTo(t, at, ans), UNCHANGED lostRace,
             RemovesTo(t, at, ans) \/ Renames(t, at, ans), RemovingAt(fsAt[t], fsCall[t])
      PROVE  CreatingInv'
  <2>1. fsCall' = fsCall /\ fsCall[t].op \in RemovingOps
    BY <1>6 DEF FsTo, RemovingAt
  <2> QED
    BY <1>3, <2>1 DEF CreatingInv, OnlyCreate
<1>7. ASSUME NEW t \in FsThreads, NEW at, NEW ans, FsTo(t, at, ans), Creates(t, at, ans),
             CreatingAt(fsAt[t], fsCall[t], MkdirPath(t))
      PROVE  CreatingInv'
  <2>1. /\ fsAt'[t] = at /\ fsAnswer'[t] = ans
        /\ \A u \in FsThreads \ {t} : fsAt'[u] = fsAt[u] /\ fsAnswer'[u] = fsAnswer[u]
        /\ fsCall' = fsCall /\ fsCall[t] \in FsCalls
        /\ \A u \in FsThreads : MkdirPath(u)' = MkdirPath(u)
    BY <1>7, WentTo
  <2>2. SUFFICES ASSUME OnlyCreate
                 PROVE  /\ \A u \in FsThreads : Ended(u)' \/ fsAt'[u].pc \in MkdirPcs => CreatedOK(u)'
                        /\ \E u \in FsThreads : Winner(u)'
    BY <2>1 DEF CreatingInv, OnlyCreate
  <2>3. fsAt[t].pc \in MkdirPcs /\ ~Ended(t) /\ CreatedOK(t)
    BY <1>7, <2>2 DEF CreatingInv, CreatingAt, MkdirPcs, Ended
  <2>4. CreatedOK(t)'
    BY <1>7, <2>3, CreatesOK
  <2>5. StaysIn(tree, tree')
    BY <1>7, CreatesGrows, GrowsStays
  <2>6. lostRace' = lostRace \/ lostRace' = lostRace \cup {t}
    BY <1>7, Zenon DEF Creates
  <2>7. ASSUME NEW u \in FsThreads, u # t, Ended(u)' \/ fsAt'[u].pc \in MkdirPcs
        PROVE  CreatedOK(u)'
    <3>1. /\ fsAt'[u] = fsAt[u] /\ fsCall'[u] = fsCall[u] /\ fsAnswer'[u] = fsAnswer[u]
          /\ u \in lostRace' <=> u \in lostRace
      BY <2>1, <2>6, <2>7
    <3>2. Ended(u) \/ fsAt[u].pc \in MkdirPcs
      BY <2>7, <3>1 DEF Ended
    <3>3. CreatedOK(u)
      BY <2>2, <3>2 DEF CreatingInv
    <3>4. fsCall[u] \in FsCalls
      BY <1>4, <3>2
    <3> QED
      BY <2>5, <3>1, <3>3, <3>4, CreatedStays
  <2>8. at.pc = "mkdir" => ~Exists(tree', MkdirPrefix(t)')
    <3>1. at.pc = "mkdir" => /\ fsAt[t].pc = "access" /\ ~Exists(tree, MkdirPrefix(t))
                             /\ PlacedAt(at, "mkdir", fsAt[t].depth, <<>>) /\ UNCHANGED tree
      BY <1>2, <1>7, Zenon DEF Creates, Passed, MakesOver, PlacedAt
    <3>2. at.pc = "mkdir" => MkdirPrefix(t)' = MkdirPrefix(t)
      BY <2>1, <3>1 DEF MkdirPrefix, PlacedAt
    <3> QED
      BY <3>1, <3>2
  <2>9. t \notin lostRace' => Winner(t)'
    BY <2>1, <2>8 DEF Winner
  <2>10. PICK w \in FsThreads : Winner(w)
    BY <2>2 DEF CreatingInv
  <2>11. \E u \in FsThreads : Winner(u)'
    <3>1. CASE t \notin lostRace'
      BY <2>9, <3>1
    <3>2. CASE t \in lostRace' /\ w = t
      <4>1. t \notin lostRace /\ (fsAt[t].pc = "mkdir" => ~Exists(tree, MkdirPrefix(t)))
        BY <2>3, <2>10, <3>2 DEF Winner
      <4>2. lostRace' = lostRace \/ (fsAt[t].pc = "mkdir" /\ lostRace' = IF Exists(tree, MkdirPrefix(t)) THEN lostRace \cup {t} ELSE lostRace)
        BY <1>7, Zenon DEF Creates
      <4> QED
        BY <3>2, <4>1, <4>2
    <3>3. CASE t \in lostRace' /\ w # t
      <4>1. fsAt'[w] = fsAt[w] /\ fsAnswer'[w] = fsAnswer[w] /\ (w \in lostRace' <=> w \in lostRace)
        BY <2>1, <2>6, <3>3
      <4>2. MkdirPrefix(w)' = MkdirPrefix(w)
        BY <2>1, <4>1 DEF MkdirPrefix
      <4>3. CASE Ended(w) /\ fsAnswer[w]
        BY <4>1, <4>3 DEF Winner, Ended
      <4>4. CASE w \notin lostRace /\ (fsAt[w].pc = "mkdir" => ~Exists(tree, MkdirPrefix(w)))
        <5>1. CASE UNCHANGED tree
          <6>1. w \notin lostRace' /\ (fsAt'[w].pc = "mkdir" => ~Exists(tree', MkdirPrefix(w)'))
            BY <4>1, <4>2, <4>4, <5>1
          <6> QED
            BY <6>1 DEF Winner
        <5>2. CASE fsAt[t].pc = "mkdir" /\ UNCHANGED lostRace
          BY <3>3, <5>2 DEF FsShape
        <5>3. CASE at = FsEnded /\ ans = TRUE
          <6>1. Ended(t)' /\ fsAnswer'[t]
            BY <1>2, <2>1, <5>3 DEF Ended
          <6> QED
            BY <6>1 DEF Winner
        <5> QED
          BY <1>7, <5>1, <5>2, <5>3, Zenon DEF Creates
      <4> QED
        BY <2>10, <4>3, <4>4 DEF Winner
    <3> QED
      BY <3>1, <3>2, <3>3
  <2> QED
    BY <2>4, <2>7, <2>11
<1> QED
  BY <1>5, <1>6, <1>7, FsStepIs, Zenon

(* Calls that only create meet in the race of Mkdir, and one of them wins it. *)
LEMMA CreatorsHeld == FsShape /\ CreatingInv => CreatorsAgree
<1> SUFFICES ASSUME FsShape, CreatingInv, \A t \in FsThreads : Ended(t) /\ fsCall[t].op \in Creating
             PROVE  /\ \A t \in FsThreads : fsAnswer[t] => Exists(tree, fsCall[t].path)
                    /\ \A t \in FsThreads \ lostRace : fsAnswer[t] = Meaning(fsCall[t], tree).ok
                    /\ \E t \in FsThreads : t \notin lostRace \/ fsAnswer[t]
  BY DEF CreatorsAgree
<1>1. OnlyCreate /\ \A t \in FsThreads : CreatedOK(t)
  BY DEF OnlyCreate, CreatingInv
<1>2. \A t \in FsThreads : fsAnswer[t] => Exists(tree, fsCall[t].path)
  BY <1>1 DEF CreatedOK
<1>3. \E t \in FsThreads : t \notin lostRace \/ fsAnswer[t]
  BY <1>1 DEF CreatingInv, Winner
<1>4. ASSUME NEW t \in FsThreads \ lostRace PROVE fsAnswer[t] = Meaning(fsCall[t], tree).ok
  <2> DEFINE c == fsCall[t]
             f == fsCall[t].path
             m == Dirname(f)
  <2>1. /\ TreeOK(tree) /\ fsAnswer[t] \in BOOLEAN /\ c \in FsCalls /\ f \in FsPaths /\ f \in Seq(FsNames)
        /\ c.op \in {"Mkdir", "Open"} /\ FsPaths \subseteq Seq(FsNames)
    <3>1. fsCall[t] # NoCall
      BY CallsAre DEF Creating
    <3>2. c \in FsCalls
      BY <3>1 DEF FsShape
    <3> QED
      BY <3>2, CallsAre, PathsAre DEF FsShape, Creating
  <2>2. m \in Seq(FsNames) /\ (m = <<>> \/ m \in FsPaths) /\ IsPrefix(m, f) /\ Front(f) = m
    BY <2>1, PathsAre, ParentIs DEF Dirname
  <2>3. /\ fsAnswer[t] => Exists(tree, f) /\ (c.op = "Open" => tree[f] = "new")
        /\ ~fsAnswer[t] => BlockedAt(tree, f) \/ (c.op = "Open" /\ tree[f] \in LooksLikeDir)
    BY <1>1 DEF CreatedOK, Refused
  <2>4. tree[f] # Nothing => IsDir(tree, m)
    BY <2>1, <2>2, StandsIn
  <2>5. ASSUME BlockedAt(tree, f)
        PROVE  /\ tree[f] = Nothing /\ ~IsDir(tree, m)
               /\ \E q \in FsPaths : IsPrefix(q, f) /\ IsPrefix(q, m) /\ tree[q] \notin {Nothing, "dir"}
    <3>1. PICK q \in FsPaths : IsStrictPrefix(q, f) /\ tree[q] \notin {Nothing, "dir"}
      BY <2>5 DEF BlockedAt
    <3>2. q # f /\ IsPrefix(q, f) /\ IsPrefix(q, m)
      BY <2>1, <2>2, <3>1, PathsAre, ParentIs DEF IsStrictPrefix
    <3>3. tree[f] = Nothing
      BY <2>1, <3>1, <3>2, StandsIn
    <3>4. m # <<>>
      <4>1. q \in Seq(FsNames) /\ q # <<>>
        BY PathsAre
      <4>2. IsPrefix(q, m) => Len(q) <= Len(m)
        BY <2>2, <4>1, PrefixIs
      <4> QED
        BY <3>2, <4>1, <4>2, EmptySeq, LenProperties
    <3>5. tree[m] # "dir"
      BY <2>1, <2>2, <3>1, <3>2, <3>4, StandsIn
    <3> QED
      BY <3>1, <3>2, <3>3, <3>4, <3>5 DEF IsDir
  <2>6. /\ c.op = "Mkdir" => Meaning(c, tree) = Made(tree, f)
        /\ c.op = "Open" /\ CanOpen(tree, f) => Meaning(c, tree).ok = TRUE
        /\ c.op = "Open" /\ ~CanOpen(tree, f) /\ Made(tree, m).tree = tree => Meaning(c, tree).ok = FALSE
    BY CreatingMeans
  <2> HIDE DEF c, f, m
  <2>7. /\ Exists(tree, f) => Made(tree, f).ok = TRUE
        /\ ~Exists(tree, f) /\ (\E q \in FsPaths : IsPrefix(q, f) /\ tree[q] \notin {Nothing, "dir"}) =>
             Made(tree, f).ok = FALSE
        /\ Exists(tree, m) => Made(tree, m).tree = tree
        /\ ~Exists(tree, m) /\ (\E q \in FsPaths : IsPrefix(q, m) /\ tree[q] \notin {Nothing, "dir"}) =>
             Made(tree, m).tree = tree
    <3>1. \A r \in Seq(FsNames) : r = <<>> \/ r \in FsPaths =>
            /\ Exists(tree, r) => Made(tree, r).tree = tree /\ Made(tree, r).ok = TRUE
            /\ ~Exists(tree, r) /\ (\E q \in FsPaths : IsPrefix(q, r) /\ tree[q] \notin {Nothing, "dir"}) =>
                 Made(tree, r).tree = tree /\ Made(tree, r).ok = FALSE
      BY <2>1, MadeIs
    <3> QED
      BY <2>1, <2>2, <3>1
  <2>8. f # <<>>
    BY <2>1, PathsAre
  <2>9. CASE fsAnswer[t] = TRUE /\ c.op = "Mkdir"
    BY <2>3, <2>6, <2>7, <2>9 DEF c
  <2>10. CASE fsAnswer[t] = TRUE /\ c.op = "Open"
    <3>1. CanOpen(tree, f)
      BY <2>2, <2>3, <2>4, <2>10 DEF CanOpen, LooksLikeDir, Nothing
    <3> QED
      BY <2>6, <2>10, <3>1 DEF c
  <2>11. CASE fsAnswer[t] = FALSE /\ c.op = "Mkdir"
    <3>1. BlockedAt(tree, f)
      BY <2>3, <2>11
    <3>2. ~Exists(tree, f)
      BY <2>5, <2>8, <3>1 DEF Exists
    <3> QED
      BY <2>5, <2>6, <2>7, <2>11, <3>1, <3>2 DEF c
  <2>12. CASE fsAnswer[t] = FALSE /\ c.op = "Open"
    <3>1. Made(tree, m).tree = tree /\ ~CanOpen(tree, f)
      <4>1. CASE BlockedAt(tree, f)
        BY <2>2, <2>5, <2>7, <4>1 DEF CanOpen
      <4>2. CASE tree[f] \in LooksLikeDir
        <5>1. Exists(tree, m)
          BY <2>4, <4>2 DEF Exists, IsDir, LooksLikeDir, Nothing
        <5> QED
          BY <2>7, <4>2, <5>1 DEF CanOpen
      <4> QED
        BY <2>3, <2>12, <4>1, <4>2
    <3> QED
      BY <2>6, <2>12, <3>1 DEF c
  <2> QED
    BY <2>1, <2>9, <2>10, <2>11, <2>12
<1> QED
  BY <1>2, <1>3, <1>4

LEMMA FsInitInv == FsInit => FsInv
<1> SUFFICES ASSUME FsInit PROVE FsInv
  OBVIOUS
<1>1. FsShape
  BY FsInitShape
<1>2. \A t \in FsThreads : fsAt[t].pc = "out" /\ fsCall[t].op = "none"
  BY FsAtIs, CallsAre DEF FsInit, FsOut
<1>3. RemovingInv
  BY <1>2 DEF RemovingInv, Removes, RemovingOps, FsInit
<1>4. AloneInv
  BY <1>2 DEF AloneInv, RmPcs, MkdirPcs, Ended
<1>5. CreatingInv
  BY <1>2, FileTreeAssumption DEF CreatingInv, Ended, MkdirPcs, Winner, FsInit
<1> QED
  BY <1>1, <1>3, <1>4, <1>5 DEF FsInv

LEMMA FsInvKept == FsInv /\ [FsNext]_fsVars => FsInv'
<1> SUFFICES ASSUME FsInv, [FsNext]_fsVars PROVE FsInv'
  OBVIOUS
<1>1. CASE FsNext
  BY <1>1, FsShapeKept, RemovingKept, AloneKept, CreatingKept DEF FsInv
<1>2. CASE UNCHANGED fsVars
  <2>1. /\ tree' = tree /\ fsCall' = fsCall /\ fsAt' = fsAt /\ fsAnswer' = fsAnswer /\ before' = before
        /\ overlapped' = overlapped /\ lostRace' = lostRace
    BY <1>2 DEF fsVars
  <2>2. FsShape'
    BY <2>1 DEF FsInv, FsShape, FsPlace, MkdirPath
  <2>3. RemovingInv'
    BY <2>1 DEF FsInv, RemovingInv, Removes, Quiet, OnlyRemove, Alone, Ended
  <2>4. AloneInv'
    BY <2>1 DEF FsInv, AloneInv, Alone, Ended, MkdirPath
  <2>5. CreatingInv'
    BY <2>1 DEF FsInv, CreatingInv, OnlyCreate, CreatedOK, Refused, Winner, Ended, MkdirPrefix, MkdirPath
  <2> QED
    BY <2>2, <2>3, <2>4, <2>5 DEF FsInv
<1> QED
  BY <1>1, <1>2

(* A call of FSUtil that runs alone does to the tree, and answers, what it means; calls that create
   meet only in the race of Mkdir, and one of them wins it; calls that remove leave nothing. *)
THEOREM FilesCorrect == FsSpec => []FilesKept
<1>1. FsInv => FilesKept
  BY RemoversHeld, AloneHeld, CreatorsHeld DEF FsInv, FilesKept
<1> QED
  BY <1>1, FsInitInv, FsInvKept, PTL DEF FsSpec

(* Data given to the file system is there, but for the named exceptions, for any paths, trees,
   threads, calls, sizes, speeds and lines (FSUtil, WriteFixToStreamWithSpeed, FileLogAppender). *)
THEOREM DataCorrect == StoredSpec => []DataKept
<1>1. FilesKept /\ TransfersHonest /\ LinesKept => DataKept
  BY DEF DataKept
<1> QED
  BY <1>1, FilesCorrect, TransfersCorrect, LinesCorrect, PTL DEF StoredSpec
=============================================================================
