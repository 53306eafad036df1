--------------------------- MODULE Library_proofs ---------------------------
(***************************************************************************)
(* Parts of the library by themselves, for all values of their constants:  *)
(* listeners follow their ConfigVar and routes answer with the servlet     *)
(* registered last; the blocks of a ByteArray are a sequence of bytes, and *)
(* what it sends is what it was asked to; typed values come back; loggers  *)
(* follow their configuration and settings the files that are loaded; but  *)
(* for the named exceptions.                                               *)
(***************************************************************************)
EXTENDS ConfigVar, ServletDispatch, ByteArray, TypedBytes, Configuration,
        SequenceTheorems, WellFoundedInduction, TLAPS

(* What the value and a set under way say of a listener outside of owed: it goes by the
   old value while the set has still to tell it, and by the new one from then on. *)
Follows ==
  \A l \in m_cbs \ owed :
    /\ Setting = {} => mirror[l] = m_val
    /\ \A t \in Setting : mirror[l] = IF l \in setter[t].tell THEN m_val ELSE setter[t].v
(* Two sets at once owe everybody. *)
OverlapOwes == \A t, u \in Setting : t = u \/ m_cbs \subseteq owed
(* A set that is alone has told those it need not tell any more, whatever was owed. *)
AloneTells ==
  \A t \in Setting : setter[t].alone =>
    /\ Setting = {t}
    /\ \A l \in m_cbs : l \in setter[t].tell \/ mirror[l] = setter[t].v
(* Who is about to join still has the value of now. *)
JoinersCurrent == \A l \in joining : l \notin m_cbs /\ (l \in owed \/ mirror[l] = m_val)
TellsListeners ==
  \A t \in Setters : /\ setter[t].tell \subseteq m_cbs
                     /\ setter[t].pc = "notify" \/ setter[t].tell = {}
                     /\ setter[t].pc # "out" => setter[t].v \in ConfigValues

CvInv ==
  CvTypeOK /\ Follows /\ OverlapOwes /\ AloneTells /\ JoinersCurrent /\ TellsListeners

LEMMA CvInitInv == CvInit => CvInv
BY ConfigVarAssumption
   DEF CvInit, CvInv, CvTypeOK, AtRest, Setting, Follows, OverlapOwes, AloneTells, JoinersCurrent,
       TellsListeners

(* Setting after a step of one setter. *)
LEMMA SettingAfter ==
  ASSUME NEW t \in Setters, CvTypeOK, NEW new,
         setter' = [setter EXCEPT ![t] = new]
  PROVE  /\ setter'[t] = new
         /\ \A u \in Setters : u # t => setter'[u] = setter[u]
         /\ Setting' = IF new.pc # "out" THEN Setting \cup {t} ELSE Setting \ {t}
<1>1. setter'[t] = new /\ \A u \in Setters : u # t => setter'[u] = setter[u]
  BY DEF CvTypeOK
<1> QED
  BY <1>1 DEF Setting

(* Every step keeps the invariant. *)
LEMMA CvStepInv == CvInv /\ [CvNext]_cvVars => CvInv'
<1> SUFFICES ASSUME CvInv, [CvNext]_cvVars PROVE CvInv'
  OBVIOUS
<1> USE DEF CvInv
<1>1. ASSUME NEW t \in Setters, NEW v \in ConfigValues, SetValue(t, v) PROVE CvInv'
  <2> USE <1>1 DEF SetValue
  <2>1. /\ setter'[t] = [pc |-> "notify", v |-> v, tell |-> m_cbs, alone |-> Others(t) = {}]
        /\ \A u \in Setters : u # t =>
             setter'[u] = [setter[u] EXCEPT !.alone = setter[u].alone /\ u \notin Others(t)]
    OBVIOUS
  <2>2. t \notin Setting /\ Others(t) = Setting
    BY DEF Others, Setting
  <2>3. \A u \in Setters : /\ u # t => setter'[u].pc = setter[u].pc /\ setter'[u].v = setter[u].v
                                    /\ setter'[u].tell = setter[u].tell
                           /\ u # t /\ u \in Setting => ~setter'[u].alone
    <3> SUFFICES ASSUME NEW u \in Setters, u # t
                 PROVE  /\ setter'[u].pc = setter[u].pc /\ setter'[u].v = setter[u].v
                        /\ setter'[u].tell = setter[u].tell
                        /\ u \in Setting => ~setter'[u].alone
      OBVIOUS
    <3>1. setter'[u] = [setter[u] EXCEPT !.alone = setter[u].alone /\ u \notin Others(t)]
      BY <2>1
    <3>2. setter[u] \in [pc : {"out", "notify", "assign"}, v : ConfigValues \cup {0},
                         tell : SUBSET Listeners, alone : BOOLEAN]
      BY DEF CvTypeOK
    <3> HIDE <1>1 DEF SetValue, CvInv
    <3>3. setter'[u].alone = (setter[u].alone /\ u \notin Others(t))
      BY <3>1, <3>2
    <3> QED
      BY <3>1, <3>2, <3>3, <2>2
  <2>4. Setting' = Setting \cup {t}
    BY <2>1, <2>3 DEF Setting
  <2>5. CvTypeOK'
    <3>1. setter' \in [Setters -> [pc : {"out", "notify", "assign"}, v : ConfigValues \cup {0},
                                   tell : SUBSET Listeners, alone : BOOLEAN]]
      BY ZenonT(30) DEF CvTypeOK
    <3> QED
      BY <3>1, ConfigVarAssumption, SMTT(30) DEF CvTypeOK
  <2>6. Setting # {} => owed' = Listeners
    BY <2>2
  <2>7. Follows'
    BY <2>1, <2>3, <2>4, <2>6 DEF Follows, CvTypeOK
  <2>8. OverlapOwes'
    BY <2>4, <2>6 DEF OverlapOwes, CvTypeOK
  <2>9. AloneTells'
    <3> SUFFICES ASSUME NEW u \in Setting', setter'[u].alone
                 PROVE  /\ Setting' = {u}
                        /\ \A l \in m_cbs : l \in setter'[u].tell \/ mirror[l] = setter'[u].v
      BY DEF AloneTells
    <3>1. u = t
      BY <2>3, <2>4 DEF Setting
    <3>2. setter'[t].alone = (Others(t) = {}) /\ setter'[t].tell = m_cbs
      BY <2>1
    <3> QED
      BY <3>1, <3>2, <2>2, <2>4
  <2>10. JoinersCurrent'
    BY DEF JoinersCurrent, CvTypeOK
  <2>11. TellsListeners'
    BY <2>1, <2>3 DEF TellsListeners
  <2> QED
    BY <2>5, <2>7, <2>8, <2>9, <2>10, <2>11
<1>2. ASSUME NEW t \in Setters, Notify(t) PROVE CvInv'
  <2>1. PICK l0 \in setter[t].tell :
          /\ setter[t].pc = "notify" /\ UNCHANGED <<m_val, m_cbs, joining, sets>>
          /\ \/ /\ mirror' = [mirror EXCEPT ![l0] = setter[t].v]
                /\ setter' = [setter EXCEPT ![t] = [setter[t] EXCEPT !.tell = setter[t].tell \ {l0}]]
                /\ owed' = owed
             \/ /\ setter' = [setter EXCEPT ![t] = AtRest]
                /\ owed' = owed \cup (m_cbs \ setter[t].tell) /\ mirror' = mirror
    BY <1>2 DEF Notify
  <2>2. t \in Setting /\ l0 \in m_cbs /\ l0 \in Listeners /\ setter[t].v \in ConfigValues
    BY <2>1 DEF Setting, TellsListeners, CvTypeOK
  <2>3. CASE /\ mirror' = [mirror EXCEPT ![l0] = setter[t].v]
             /\ setter' = [setter EXCEPT ![t] = [setter[t] EXCEPT !.tell = setter[t].tell \ {l0}]]
             /\ owed' = owed
    <3>1. /\ setter'[t].v = setter[t].v /\ setter'[t].tell = setter[t].tell \ {l0}
          /\ setter'[t].alone = setter[t].alone /\ setter'[t].pc = "notify"
          /\ \A u \in Setters : u # t => setter'[u] = setter[u]
      BY <2>1, <2>3 DEF CvTypeOK
    <3>2. /\ mirror'[l0] = setter[t].v
          /\ \A l \in Listeners : l # l0 => mirror'[l] = mirror[l]
      BY <2>2, <2>3 DEF CvTypeOK
    <3>3. Setting' = Setting
      BY <3>1, <2>1 DEF Setting
    <3>4. CvTypeOK'
      BY <2>1, <2>2, <2>3 DEF CvTypeOK
    <3>5. Follows'
      BY <2>1, <2>2, <2>3, <3>1, <3>2, <3>3 DEF Follows, OverlapOwes, CvTypeOK, Setting
    <3>6. (OverlapOwes /\ JoinersCurrent)'
      BY <2>1, <2>2, <2>3, <3>2, <3>3 DEF OverlapOwes, JoinersCurrent, CvTypeOK
    <3>7. AloneTells'
      BY <2>1, <2>2, <3>1, <3>2, <3>3 DEF AloneTells, CvTypeOK, Setting
    <3>8. TellsListeners'
      BY <2>1, <3>1 DEF TellsListeners
    <3> QED
      BY <3>4, <3>5, <3>6, <3>7, <3>8
  <2>4. CASE /\ setter' = [setter EXCEPT ![t] = AtRest]
             /\ owed' = owed \cup (m_cbs \ setter[t].tell) /\ mirror' = mirror
    <3>1. setter'[t] = AtRest /\ \A u \in Setters : u # t => setter'[u] = setter[u]
      BY <2>4 DEF CvTypeOK
    <3>2. Setting' = Setting \ {t}
      BY <3>1 DEF Setting, AtRest
    <3>3. CvTypeOK'
      BY <2>1, <2>4 DEF CvTypeOK, AtRest
    <3>4. Follows'
      BY <2>1, <2>2, <2>4, <3>1, <3>2 DEF Follows, OverlapOwes, Setting
    <3>5. (OverlapOwes /\ JoinersCurrent)'
      BY <2>1, <2>4, <3>2 DEF OverlapOwes, JoinersCurrent
    <3>6. AloneTells'
      BY <2>1, <2>2, <3>1, <3>2 DEF AloneTells, Setting
    <3>7. TellsListeners'
      BY <2>1, <3>1 DEF TellsListeners, AtRest
    <3> QED
      BY <3>3, <3>4, <3>5, <3>6, <3>7
  <2> QED
    BY <2>1, <2>3, <2>4
<1>3. ASSUME NEW t \in Setters, ReleaseRead(t) PROVE CvInv'
  <2>1. /\ setter[t].pc = "notify" /\ setter[t].tell = {}
        /\ setter' = [setter EXCEPT ![t] = [setter[t] EXCEPT !.pc = "assign"]]
        /\ UNCHANGED <<m_val, m_cbs, mirror, joining, sets, owed>>
    BY <1>3 DEF ReleaseRead
  <2>2. /\ setter'[t].v = setter[t].v /\ setter'[t].tell = setter[t].tell
        /\ setter'[t].alone = setter[t].alone /\ setter'[t].pc = "assign"
        /\ \A u \in Setters : u # t => setter'[u] = setter[u]
    BY <2>1 DEF CvTypeOK
  <2>3. Setting' = Setting /\ t \in Setting
    BY <2>1, <2>2 DEF Setting
  <2>4. CvTypeOK'
    BY <2>1 DEF CvTypeOK
  <2>5. (Follows /\ OverlapOwes /\ JoinersCurrent)'
    BY <2>1, <2>2, <2>3 DEF Follows, OverlapOwes, JoinersCurrent, Setting
  <2>6. (AloneTells /\ TellsListeners)'
    BY <2>1, <2>2, <2>3 DEF AloneTells, TellsListeners, Setting
  <2> QED
    BY <2>4, <2>5, <2>6
<1>4. ASSUME NEW t \in Setters, Assign(t) PROVE CvInv'
  <2>1. /\ t \in Setting /\ setter[t].tell = {} /\ m_val' = setter[t].v
        /\ setter' = [setter EXCEPT ![t] = AtRest]
        /\ owed' = (IF setter[t].alone THEN owed \ m_cbs ELSE owed) \cup joining
        /\ UNCHANGED <<m_cbs, mirror, joining, sets>>
    BY <1>4 DEF Assign, Setting, TellsListeners
  <2>2. setter'[t] = AtRest /\ \A u \in Setters : u # t => setter'[u] = setter[u]
    BY <2>1 DEF CvTypeOK
  <2>3. Setting' = Setting \ {t}
    BY <2>2 DEF Setting, AtRest
  <2>4. \A l \in m_cbs \ owed' : mirror[l] = setter[t].v
    BY <2>1 DEF AloneTells, Follows
  <2>5. CvTypeOK'
    <3>1. setter[t].v \in ConfigValues
      BY <2>1 DEF TellsListeners, Setting
    <3> QED
      BY <2>1, <3>1 DEF CvTypeOK, AtRest
  <2>6. \A u \in Setting' : ~setter[t].alone /\ ~setter[u].alone /\ m_cbs \subseteq owed'
    BY <2>1, <2>3 DEF AloneTells, OverlapOwes
  <2>7. Follows'
    BY <2>1, <2>4, <2>6 DEF Follows
  <2>8. (OverlapOwes /\ JoinersCurrent)'
    BY <2>1, <2>6 DEF OverlapOwes, JoinersCurrent
  <2>9. AloneTells'
    BY <2>2, <2>3, <2>6 DEF AloneTells, Setting
  <2>10. TellsListeners'
    BY <2>1, <2>2 DEF TellsListeners, AtRest
  <2> QED
    BY <2>5, <2>7, <2>8, <2>9, <2>10
<1>5. ASSUME NEW l \in Listeners, GetValue(l) PROVE CvInv'
  BY <1>5 DEF GetValue, CvTypeOK, Follows, OverlapOwes, AloneTells, JoinersCurrent, TellsListeners, Setting
<1>6. ASSUME NEW l \in Listeners, AddListener(l) PROVE CvInv'
  <2>1. /\ l \in joining /\ m_cbs' = m_cbs \cup {l} /\ joining' = joining \ {l}
        /\ owed' = (IF Setting # {} THEN owed \cup {l} ELSE owed)
        /\ setter' = [u \in Setters |-> [setter[u] EXCEPT !.alone = setter[u].alone /\ setter[u].pc = "out"]]
        /\ UNCHANGED <<m_val, mirror, sets>>
    BY <1>6 DEF AddListener
  <2>2. \A u \in Setters : /\ setter'[u].pc = setter[u].pc /\ setter'[u].v = setter[u].v
                           /\ setter'[u].tell = setter[u].tell
                           /\ setter[u].pc # "out" => ~setter'[u].alone
    <3> SUFFICES ASSUME NEW u \in Setters
                 PROVE  /\ setter'[u].pc = setter[u].pc /\ setter'[u].v = setter[u].v
                        /\ setter'[u].tell = setter[u].tell
                        /\ setter[u].pc # "out" => ~setter'[u].alone
      OBVIOUS
    <3>1. setter'[u] = [setter[u] EXCEPT !.alone = setter[u].alone /\ setter[u].pc = "out"]
      BY <2>1
    <3>2. setter[u] \in [pc : {"out", "notify", "assign"}, v : ConfigValues \cup {0},
                         tell : SUBSET Listeners, alone : BOOLEAN]
      BY DEF CvTypeOK
    <3>3. setter'[u].alone = (setter[u].alone /\ setter[u].pc = "out")
      BY <3>1, <3>2
    <3> QED
      BY <3>1, <3>2, <3>3
  <2>3. Setting' = Setting
    BY <2>2 DEF Setting
  <2>4. CvTypeOK'
    <3>1. setter' \in [Setters -> [pc : {"out", "notify", "assign"}, v : ConfigValues \cup {0},
                                   tell : SUBSET Listeners, alone : BOOLEAN]]
      BY <2>1 DEF CvTypeOK
    <3> QED
      BY <2>1, <3>1 DEF CvTypeOK
  <2>5. Follows'
    BY <2>1, <2>2, <2>3 DEF Follows, JoinersCurrent, Setting
  <2>6. (OverlapOwes /\ JoinersCurrent)'
    BY <2>1, <2>3 DEF OverlapOwes, JoinersCurrent
  <2>7. AloneTells'
    BY <2>2, <2>3 DEF AloneTells, Setting
  <2>8. TellsListeners'
    BY <2>1, <2>2 DEF TellsListeners
  <2> QED
    BY <2>4, <2>5, <2>6, <2>7, <2>8
<1>7. ASSUME NEW l \in Listeners, DelListener(l) PROVE CvInv'
  BY <1>7 DEF DelListener, WriteLockFree, CvTypeOK, Follows, OverlapOwes, AloneTells, JoinersCurrent,
     TellsListeners, Setting
<1>8. ASSUME UNCHANGED cvVars PROVE CvInv'
  BY <1>8 DEF cvVars, CvTypeOK, Follows, OverlapOwes, AloneTells, JoinersCurrent, TellsListeners, Setting
<1> QED
  BY <1>1, <1>2, <1>3, <1>4, <1>5, <1>6, <1>7, <1>8 DEF CvNext

(* A listener that is outside of owed is told from the value it should go by. *)
LEMMA TellStep ==
  CvInv /\ [CvNext]_cvVars =>
    \A l \in m_cbs \ (owed \cup owed') : mirror'[l] # mirror[l] => mirror[l] = m_val
<1> SUFFICES ASSUME CvInv, [CvNext]_cvVars,
                    NEW l \in m_cbs \ (owed \cup owed'), mirror'[l] # mirror[l]
             PROVE  mirror[l] = m_val
  OBVIOUS
<1>1. l \in Listeners
  BY DEF CvInv, CvTypeOK
<1>2. CASE \E k \in Listeners : GetValue(k)
  BY <1>1, <1>2 DEF GetValue, CvInv, CvTypeOK
<1>3. CASE \E t \in Setters : Notify(t)
  <2>1. PICK t \in Setters : Notify(t)
    BY <1>3
  <2>2. PICK k \in setter[t].tell :
          setter[t].pc = "notify" /\ (mirror' = [mirror EXCEPT ![k] = setter[t].v] \/ mirror' = mirror)
    BY <2>1 DEF Notify
  <2>3. l = k
    BY <1>1, <2>2 DEF CvInv, CvTypeOK
  <2> QED
    BY <2>2, <2>3 DEF CvInv, Follows, Setting
<1>4. CASE mirror' = mirror
  BY <1>4
<1> QED
  BY <1>2, <1>3, <1>4 DEF CvNext, cvVars, SetValue, ReleaseRead, Assign, AddListener, DelListener

(* Whoever mirrors a setting by a listener goes by its value or by one that is being set, and
   is told each change from the value it has, but for the named races of setValue
   (config.h:445-462), for any number of threads, listeners and values. *)
THEOREM ListenersCorrect == CvSpec => ListenersFollow
<1>1. CvInit => CvInv
  BY CvInitInv
<1>2. CvInv /\ [CvNext]_cvVars => CvInv'
  BY CvStepInv
<1>3. CvInv => \A l \in m_cbs \ owed : MirrorAgrees(l)
  <2> SUFFICES ASSUME CvInv, NEW l \in m_cbs \ owed PROVE MirrorAgrees(l)
    OBVIOUS
  <2>1. CASE Setting = {}
    BY <2>1 DEF CvInv, Follows, MirrorAgrees
  <2>2. CASE Setting # {}
    <3>1. PICK t \in Setting : TRUE
      BY <2>2
    <3> QED
      BY <3>1 DEF CvInv, Follows, MirrorAgrees, Setting
  <2> QED
    BY <2>1, <2>2
<1>4. CvInv /\ [CvNext]_cvVars =>
        [\A l \in m_cbs \ (owed \cup owed') : mirror'[l] # mirror[l] => mirror[l] = m_val]_cvVars
  BY TellStep
<1> QED
  BY <1>1, <1>2, <1>3, <1>4, PTL DEF CvSpec, ListenersFollow, ToldFromItsOwn

-----------------------------------------------------------------------------
(* A pattern has one entry in the list if it has a servlet, and none if it has not; the
   list and what callers asked for agree on every pattern that is not astray. *)
OneEntry(list, g, s) ==
  /\ s # 0 => \E i \in DOMAIN list : list[i][1] = g
  /\ \A i, j \in DOMAIN list : list[i][1] = g /\ list[j][1] = g => i = j
  /\ \A i \in DOMAIN list : list[i][1] = g => s # 0 /\ list[i][2] = s
EntriesAgree == \A g \in Globs \ astray : OneEntry(m_globs, g, told[g])

DispatchInv == DispatchTypeOK /\ EntriesAgree

(* The loops over the list stop at the first hit, and there is one. *)
LEMMA FirstOfSet ==
  ASSUME NEW set \in SUBSET Nat, set # {}
  PROVE  FirstOf(set) \in set /\ \A j \in set : FirstOf(set) <= j
<1>1. PICK x \in set : \A y \in set : ~(<<y, x>> \in OpToRel(<, Nat))
  BY WFMin, NatLessThanWellFounded
<1>2. \A y \in set : x <= y
  <2> SUFFICES ASSUME NEW y \in set, y < x PROVE FALSE
    OBVIOUS
  <2>1. <<y, x>> \in OpToRel(<, Nat)
    BY Zenon DEF OpToRel
  <2> QED
    BY <1>1, <2>1
<1> QED
  BY <1>2 DEF FirstOf

(* A list without its k-th entry. *)
LEMMA ElementRemoved ==
  ASSUME NEW S, NEW s \in Seq(S), NEW k \in 1..Len(s)
  PROVE  /\ RemoveAt(s, k) \in Seq(S) /\ Len(RemoveAt(s, k)) = Len(s) - 1
         /\ \A i \in 1..Len(s) - 1 : RemoveAt(s, k)[i] = IF i < k THEN s[i] ELSE s[i + 1]
<1> DEFINE a == SubSeq(s, 1, k - 1)
           b == SubSeq(s, k + 1, Len(s))
<1>1. a \in Seq(S) /\ Len(a) = k - 1 /\ \A i \in 1..k - 1 : a[i] = s[i]
  OBVIOUS
<1>2. b \in Seq(S) /\ Len(b) = Len(s) - k /\ \A i \in 1..Len(s) - k : b[i] = s[i + k]
  OBVIOUS
<1>3. RemoveAt(s, k) = a \o b
  BY DEF RemoveAt
<1> HIDE DEF a, b
<1>4. /\ a \o b \in Seq(S) /\ Len(a \o b) = Len(a) + Len(b)
      /\ \A i \in 1..Len(a) + Len(b) : (a \o b)[i] = IF i <= Len(a) THEN a[i] ELSE b[i - Len(a)]
  BY <1>1, <1>2, ConcatProperties, Zenon
<1>5. Len(s) \in Nat /\ Len(a) + Len(b) = Len(s) - 1
  BY <1>1, <1>2
<1>6. ASSUME NEW i \in 1..Len(s) - 1
      PROVE  (a \o b)[i] = IF i < k THEN s[i] ELSE s[i + 1]
  <2>1. i \in 1..Len(a) + Len(b)
    BY <1>5
  <2>2. (a \o b)[i] = IF i <= Len(a) THEN a[i] ELSE b[i - Len(a)]
    BY <1>4, <2>1
  <2>3. CASE i < k
    BY <1>1, <1>5, <2>2, <2>3
  <2>4. CASE ~(i < k)
    <3>1. i - Len(a) \in 1..Len(s) - k /\ (i - Len(a)) + k = i + 1 /\ ~(i <= Len(a))
      BY <1>1, <1>5, <2>4
    <3>2. b[i - Len(a)] = s[i + 1]
      BY <1>2, <3>1
    <3> QED
      BY <2>2, <2>4, <3>1, <3>2
  <2> QED
    BY <2>3, <2>4
<1> QED
  BY <1>3, <1>4, <1>5, <1>6 DEF OneEntry

(* At first there are no patterns. *)
LEMMA DispatchInitInv == DispatchInit => DispatchInv
BY DEF DispatchInit, DispatchInv, DispatchTypeOK, EntriesAgree, OneEntry

(* What WithoutFirst leaves: of g nothing unless g is astray, of the others the same. *)
LEMMA Without ==
  ASSUME DispatchInv, NEW g \in Globs
  PROVE  /\ WithoutFirst(g) \in Seq(Globs \X Servlets)
         /\ \A i \in DOMAIN WithoutFirst(g) : g \notin astray => WithoutFirst(g)[i][1] # g
         /\ \A h \in Globs \ astray : h # g => OneEntry(WithoutFirst(g), h, told[h])
<1> DEFINE w == WithoutFirst(g)
<1>1. m_globs \in Seq(Globs \X Servlets) /\ DOMAIN m_globs = 1..Len(m_globs) /\ Len(m_globs) \in Nat
  BY DEF DispatchInv, DispatchTypeOK
<1>2. CASE EntriesOf(g) = {}
  BY <1>1, <1>2 DEF WithoutFirst, EntriesOf, DispatchInv, EntriesAgree
<1>3. CASE EntriesOf(g) # {}
  <2> DEFINE k == FirstOf(EntriesOf(g))
  <2>1. k \in 1..Len(m_globs) /\ m_globs[k][1] = g
    <3>1. EntriesOf(g) \in SUBSET Nat
      BY <1>1 DEF EntriesOf
    <3>2. k \in EntriesOf(g)
      BY <1>3, <3>1, FirstOfSet
    <3> QED
      BY <1>1, <3>2 DEF EntriesOf
  <2>2. w = RemoveAt(m_globs, k)
    BY <1>3 DEF WithoutFirst
  <2> HIDE DEF k, w
  <2>3. /\ w \in Seq(Globs \X Servlets) /\ Len(w) = Len(m_globs) - 1
        /\ \A i \in 1..Len(m_globs) - 1 : w[i] = IF i < k THEN m_globs[i] ELSE m_globs[i + 1]
    BY <1>1, <2>1, <2>2, ElementRemoved, Zenon
  <2>4. DOMAIN w = 1..Len(m_globs) - 1
    BY <2>3
  \* where an entry of the rest was, and where an entry that is not the k-th went
  <2> DEFINE Was(i) == IF i < k THEN i ELSE i + 1
  <2>5. \A i \in DOMAIN w : Was(i) \in DOMAIN m_globs /\ Was(i) # k /\ w[i] = m_globs[Was(i)]
    BY <1>1, <2>1, <2>3, <2>4
  <2>6. \A i, j \in DOMAIN w : Was(i) = Was(j) => i = j
    BY <2>1, <2>4
  <2>7. \A m \in DOMAIN m_globs : m # k => \E i \in DOMAIN w : Was(i) = m
    <3> SUFFICES ASSUME NEW m \in DOMAIN m_globs, m # k PROVE \E i \in DOMAIN w : Was(i) = m
      OBVIOUS
    <3>1. CASE m < k
      BY <1>1, <2>1, <2>4, <3>1
    <3>2. CASE m > k
      <4>1. m - 1 \in DOMAIN w /\ Was(m - 1) = m
        BY <1>1, <2>1, <2>4, <3>2
      <4> QED
        BY <4>1
    <3> QED
      BY <1>1, <2>1, <3>1, <3>2
  <2> HIDE DEF Was
  <2>8. \A i \in DOMAIN w : g \notin astray => w[i][1] # g
    BY <1>1, <2>1, <2>5 DEF DispatchInv, EntriesAgree, OneEntry
  <2>9. ASSUME NEW h \in Globs \ astray, h # g
        PROVE  OneEntry(w, h, told[h])
    <3>1. told[h] # 0 => \E i \in DOMAIN w : w[i][1] = h
      <4> SUFFICES ASSUME told[h] # 0 PROVE \E i \in DOMAIN w : w[i][1] = h
        OBVIOUS
      <4>1. PICK m \in DOMAIN m_globs : m_globs[m][1] = h
        BY DEF DispatchInv, EntriesAgree, OneEntry
      <4>2. PICK i \in DOMAIN w : Was(i) = m
        BY <2>1, <2>7, <2>9, <4>1
      <4> QED
        BY <2>5, <4>1, <4>2
    <3>2. \A i, j \in DOMAIN w : w[i][1] = h /\ w[j][1] = h => i = j
      BY <2>5, <2>6 DEF DispatchInv, EntriesAgree, OneEntry
    <3>3. \A i \in DOMAIN w : w[i][1] = h => told[h] # 0 /\ w[i][2] = told[h]
      BY <2>5 DEF DispatchInv, EntriesAgree, OneEntry
    <3> QED
      BY <3>1, <3>2, <3>3 DEF OneEntry
  <2> QED
    BY <2>3, <2>8, <2>9 DEF w
<1> QED
  BY <1>2, <1>3

(* A list in which g has no entry, with one for g behind it. *)
LEMMA Entered ==
  ASSUME DispatchTypeOK, NEW w \in Seq(Globs \X Servlets), NEW g \in Globs, NEW s \in Servlets,
         m_globs' = Append(w, <<g, s>>), told' = [told EXCEPT ![g] = s],
         g \notin astray' => \A i \in DOMAIN w : w[i][1] # g,
         \A h \in Globs \ astray' : h # g => OneEntry(w, h, told[h])
  PROVE  EntriesAgree' /\ m_globs' \in Seq(Globs \X Servlets)
<1> DEFINE n == Len(w) + 1
<1>1. /\ m_globs' \in Seq(Globs \X Servlets) /\ Len(w) \in Nat
      /\ DOMAIN w = 1..Len(w) /\ DOMAIN m_globs' = 1..n
  OBVIOUS
<1>2. m_globs'[n] = <<g, s>> /\ \A i \in 1..Len(w) : m_globs'[i] = w[i]
  OBVIOUS
<1>3. told'[g] = s /\ s # 0 /\ \A h \in Globs : h # g => told'[h] = told[h]
  BY ServletAssumption DEF DispatchTypeOK
<1>4. DOMAIN m_globs' = DOMAIN w \cup {n} /\ n \notin DOMAIN w
  BY <1>1
<1>5. m_globs'[n][1] = g /\ m_globs'[n][2] = s /\ \A i \in DOMAIN w : m_globs'[i] = w[i]
  BY <1>1, <1>2
<1> HIDE DEF n
<1>6. ASSUME NEW h \in Globs \ astray', h = g
      PROVE  OneEntry(m_globs', h, told'[h])
  BY <1>3, <1>4, <1>5, <1>6 DEF OneEntry
<1>7. ASSUME NEW h \in Globs \ astray', h # g
      PROVE  OneEntry(m_globs', h, told'[h])
  BY <1>3, <1>4, <1>5, <1>7 DEF OneEntry
<1>8. EntriesAgree'
  BY <1>6, <1>7 DEF EntriesAgree, OneEntry
<1> QED
  BY <1>1, <1>8

(* Every operation keeps the invariant. *)
LEMMA DispatchStepInv == DispatchInv /\ [DispatchNext]_dispatchVars => DispatchInv'
<1> SUFFICES ASSUME DispatchInv, [DispatchNext]_dispatchVars PROVE DispatchInv'
  OBVIOUS
<1>1. ASSUME NEW p \in Paths, NEW s \in Servlets \cup {0}, SetServlet(p, s) PROVE DispatchInv'
  BY <1>1 DEF SetServlet, DispatchInv, DispatchTypeOK, EntriesAgree, OneEntry
<1>2. ASSUME NEW g \in Globs, NEW s \in Servlets, AddGlobServlet(g, s) PROVE DispatchInv'
  <2> DEFINE w == WithoutFirst(g)
  <2>1. /\ w \in Seq(Globs \X Servlets)
        /\ g \notin astray => \A i \in DOMAIN w : w[i][1] # g
        /\ \A h \in Globs \ astray : h # g => OneEntry(w, h, told[h])
    BY Without
  <2>2. /\ m_globs' = Append(w, <<g, s>>) /\ told' = [told EXCEPT ![g] = s]
        /\ astray' = astray /\ m_exact' = m_exact
    BY <1>2 DEF AddGlobServlet
  <2> HIDE DEF w
  <2>3. /\ g \notin astray' => \A i \in DOMAIN w : w[i][1] # g
        /\ \A h \in Globs \ astray' : h # g => OneEntry(w, h, told[h])
    BY <2>1, <2>2
  <2>4. DispatchTypeOK
    BY DEF DispatchInv
  <2>5. EntriesAgree' /\ m_globs' \in Seq(Globs \X Servlets)
    BY <2>1, <2>2, <2>3, <2>4, Entered, Zenon
  <2> QED
    BY <2>2, <2>5 DEF DispatchInv, DispatchTypeOK
<1>3. ASSUME NEW g \in Globs, NEW s \in Servlets, AddGlobServletCreator(g, s) PROVE DispatchInv'
  <2> DEFINE w == IF m_globs = <<>> THEN <<>> ELSE Tail(m_globs)
             out == IF m_globs = <<>> THEN {} ELSE {m_globs[1][1]} \ {g}
  <2>1. /\ m_globs' = Append(w, <<g, s>>) /\ told' = [told EXCEPT ![g] = s] /\ m_exact' = m_exact
        /\ astray' = astray \cup out \cup {h \in {g} : \E i \in DOMAIN w : w[i][1] = h}
    BY <1>3 DEF AddGlobServletCreator
  <2>2. m_globs \in Seq(Globs \X Servlets) /\ DOMAIN m_globs = 1..Len(m_globs) /\ Len(m_globs) \in Nat
    BY DEF DispatchInv, DispatchTypeOK
  <2>3. w \in Seq(Globs \X Servlets)
    BY <2>2
  <2>4. g \notin astray' => \A i \in DOMAIN w : w[i][1] # g
    BY <2>1
  <2>5. ASSUME NEW h \in Globs \ astray', h # g
        PROVE  OneEntry(w, h, told[h])
    <3>1. CASE m_globs = <<>>
      BY <2>1, <2>5, <3>1 DEF DispatchInv, EntriesAgree, OneEntry
    <3>2. CASE m_globs # <<>>
      <4>1. /\ DOMAIN w = 1..Len(m_globs) - 1 /\ 1 \in DOMAIN m_globs
            /\ \A i \in DOMAIN w : w[i] = m_globs[i + 1] /\ i + 1 \in DOMAIN m_globs
        BY <2>2, <3>2
      <4>2. m_globs[1][1] # h
        BY <2>1, <2>5, <3>2
      <4>3. \A m \in DOMAIN m_globs : m_globs[m][1] = h => m - 1 \in DOMAIN w /\ w[m - 1][1] = h
        BY <2>2, <4>1, <4>2
      <4>4. \A i, j \in DOMAIN w : i + 1 = j + 1 => i = j
        BY <4>1, <2>2
      <4>5. h \in Globs \ astray
        BY <2>1
      <4> HIDE DEF w
      <4>6. told[h] # 0 => \E i \in DOMAIN w : w[i][1] = h
        BY <4>3, <4>5 DEF DispatchInv, EntriesAgree, OneEntry
      <4>7. \A i, j \in DOMAIN w : w[i][1] = h /\ w[j][1] = h => i = j
        BY <4>1, <4>4, <4>5 DEF DispatchInv, EntriesAgree, OneEntry
      <4>8. \A i \in DOMAIN w : w[i][1] = h => told[h] # 0 /\ w[i][2] = told[h]
        BY <4>1, <4>5 DEF DispatchInv, EntriesAgree, OneEntry
      <4> QED
        BY <4>6, <4>7, <4>8 DEF OneEntry
    <3> QED
      BY <3>1, <3>2
  <2>6. astray' \subseteq Globs
    BY <2>1, <2>2 DEF DispatchInv, DispatchTypeOK
  <2> HIDE DEF w
  <2>7. DispatchTypeOK
    BY DEF DispatchInv
  <2>8. EntriesAgree' /\ m_globs' \in Seq(Globs \X Servlets)
    BY <2>1, <2>3, <2>4, <2>5, <2>7, Entered, Zenon
  <2> QED
    BY <2>1, <2>6, <2>8 DEF DispatchInv, DispatchTypeOK
<1>4. ASSUME NEW g \in Globs, DelGlobServlet(g) PROVE DispatchInv'
  <2> DEFINE w == WithoutFirst(g)
  <2>1. /\ w \in Seq(Globs \X Servlets)
        /\ g \notin astray => \A i \in DOMAIN w : w[i][1] # g
        /\ \A h \in Globs \ astray : h # g => OneEntry(w, h, told[h])
    BY Without
  <2>2. /\ m_globs' = w /\ told' = [told EXCEPT ![g] = 0]
        /\ astray' = astray /\ m_exact' = m_exact
    BY <1>4 DEF DelGlobServlet
  <2>3. told'[g] = 0 /\ \A h \in Globs : h # g => told'[h] = told[h]
    BY <2>2 DEF DispatchInv, DispatchTypeOK
  <2> HIDE DEF w
  <2>4. EntriesAgree'
    BY <2>1, <2>2, <2>3 DEF EntriesAgree, OneEntry
  <2>5. DispatchTypeOK'
    BY <2>1, <2>2 DEF DispatchInv, DispatchTypeOK
  <2> QED
    BY <2>4, <2>5 DEF DispatchInv
<1>5. ASSUME UNCHANGED dispatchVars PROVE DispatchInv'
  BY <1>5 DEF dispatchVars, DispatchInv, DispatchTypeOK, EntriesAgree, OneEntry
<1> QED
  BY <1>1, <1>2, <1>3, <1>4, <1>5 DEF DispatchNext

(* What the list and the map agree on is what a request is answered by. *)
LEMMA AgreeAnswers == DispatchInv => AnswersRegistered
<1> SUFFICES ASSUME DispatchInv, NEW p \in Paths,
                    NEW may, may = {g \in Globs : Matches(g, p)}, may \cap astray = {}, m_exact[p] = 0
             PROVE  GetMatchedServlet(p) \in
                      (IF \A g \in may : told[g] = 0 THEN {0} ELSE {told[g] : g \in may} \ {0})
  BY DEF AnswersRegistered, GetMatchedServlet
<1> DEFINE hits == {i \in DOMAIN m_globs : Matches(m_globs[i][1], p)}
<1>1. m_globs \in Seq(Globs \X Servlets) /\ DOMAIN m_globs \in SUBSET Nat
  BY DEF DispatchInv, DispatchTypeOK
<1>2. \A i \in DOMAIN m_globs : m_globs[i][1] \in Globs
  BY <1>1
<1>3. CASE hits = {}
  <2>1. GetMatchedServlet(p) = 0
    BY <1>3 DEF GetMatchedServlet
  <2>2. \A g \in may : told[g] = 0
    BY <1>3 DEF DispatchInv, EntriesAgree, OneEntry
  <2> QED
    BY <2>1, <2>2
<1>4. CASE hits # {}
  <2>1. FirstOf(hits) \in hits
    BY <1>1, <1>4, FirstOfSet
  <2>2. GetMatchedServlet(p) = m_globs[FirstOf(hits)][2]
    BY <1>4 DEF GetMatchedServlet
  <2>3. PICK i \in DOMAIN m_globs : Matches(m_globs[i][1], p) /\ GetMatchedServlet(p) = m_globs[i][2]
    BY <2>1, <2>2
  <2>4. m_globs[i][1] \in may /\ told[m_globs[i][1]] = m_globs[i][2] /\ told[m_globs[i][1]] # 0
    BY <1>2, <2>3 DEF DispatchInv, EntriesAgree, OneEntry
  <2> QED
    BY <2>3, <2>4
<1> QED
  BY <1>3, <1>4

(* A path is answered by what was registered for it and never by a servlet that was deleted or
   replaced, unless addGlobServletCreator erased another pattern (servlet.cc:123-131), for any
   number of paths, patterns and servlets, and whatever fnmatch says of them. *)
THEOREM AnswersCorrect == DispatchSpec => []AnswersRegistered
<1>1. DispatchInit => DispatchInv
  BY DispatchInitInv
<1>2. DispatchInv /\ [DispatchNext]_dispatchVars => DispatchInv'
  BY DispatchStepInv
<1>3. DispatchInv => AnswersRegistered
  BY AgreeAnswers
<1> QED
  BY <1>1, <1>2, <1>3, PTL DEF DispatchSpec

-----------------------------------------------------------------------------
(* Numbers: a position is its block and its place in it. *)
LEMMA DivMod ==
  ASSUME NEW b \in Nat \ {0}, NEW x \in Nat
  PROVE  /\ x \div b \in Nat /\ x % b \in 0 .. b - 1
         /\ x = (x \div b) * b + (x % b)
<1> DEFINE q == x \div b
           r == x % b
<1>1. q \in Int /\ r \in 0 .. b - 1 /\ x = b * q + r
  OBVIOUS
<1> HIDE DEF q, r
<1>2. q <= -1 => b * q <= -b
  BY <1>1
<1>3. b * q \in Int /\ b * q = q * b
  BY <1>1
<1>4. q \in Nat
  BY <1>1, <1>2, <1>3
<1> QED
  BY <1>1, <1>3, <1>4 DEF q, r

LEMMA DivNat ==
  ASSUME NEW b \in Nat \ {0}, NEW x \in Nat
  PROVE  x \div b \in Nat
BY DivMod

LEMMA DivUnique ==
  ASSUME NEW b \in Nat \ {0}, NEW q \in Nat, NEW r \in 0 .. b - 1
  PROVE  /\ q * b + r \in Nat
         /\ (q * b + r) \div b = q /\ (q * b + r) % b = r
<1>1. q * b \in Nat
  OBVIOUS
<1>2. PICK x \in Nat : x = q * b + r
  BY <1>1
<1>3. PICK p \in Nat, s \in 0 .. b - 1 : p = x \div b /\ s = x % b /\ x = p * b + s
  BY DivMod
<1>4. p * b \in Nat
  OBVIOUS
<1>5. p >= q + 1 => p * b >= q * b + b
  OBVIOUS
<1>6. q >= p + 1 => q * b >= p * b + b
  OBVIOUS
<1>7. p = q
  BY <1>1, <1>2, <1>3, <1>4, <1>5, <1>6
<1> QED
  BY <1>1, <1>2, <1>3, <1>7

LEMMA DivBounds ==
  ASSUME NEW b \in Nat \ {0}, NEW x \in Nat, NEW k \in Nat
  PROVE  /\ k * b \in Nat
         /\ x < k * b => x \div b < k
         /\ x >= k * b => x \div b >= k
<1>1. PICK q \in Nat, r \in 0 .. b - 1 : q = x \div b /\ x = q * b + r
  BY DivMod
<1>2. k * b \in Nat /\ q * b \in Nat
  OBVIOUS
<1>3. q >= k => q * b >= k * b
  OBVIOUS
<1>4. k >= q + 1 => k * b >= q * b + b
  OBVIOUS
<1> QED
  BY <1>1, <1>2, <1>3, <1>4

(* Blocks enough for d bytes, and not one more. *)
LEMMA RoundUp ==
  ASSUME NEW b \in Nat \ {0}, NEW d \in Nat
  PROVE  LET k == (d + b - 1) \div b
         IN k \in Nat /\ k * b \in Nat /\ k * b >= d /\ k * b <= d + b - 1 /\ (d > 0 => k > 0)
<1>1. PICK x \in Nat : x = d + b - 1
  OBVIOUS
<1>2. PICK k \in Nat, r \in 0 .. b - 1 : k = x \div b /\ x = k * b + r
  BY DivMod
<1>3. k * b \in Nat /\ (k = 0 => k * b = 0)
  OBVIOUS
<1>4. k * b >= d /\ k * b <= d + b - 1 /\ (d > 0 => k > 0)
  BY <1>1, <1>2, <1>3
<1> QED
  BY <1>1, <1>2, <1>3, <1>4

(* A difference in a size_t. *)
LEMMA Wraps ==
  ASSUME NEW n \in Nat \ {0}, NEW x \in Int
  PROVE  /\ x % n \in 0 .. n - 1
         /\ x \in 0 .. n - 1 => x % n = x
         /\ x \in -n .. -1 => x % n = x + n
<1> DEFINE q == x \div n
           m == x % n
<1>1. q \in Int /\ m \in 0 .. n - 1 /\ x = n * q + m
  OBVIOUS
<1> HIDE DEF q, m
<1>2. /\ q >= 1 => n * q >= n
      /\ q <= -1 => n * q <= -n
      /\ q <= -2 => n * q <= -n - n
      /\ q = 0 => n * q = 0
      /\ q = -1 => n * q = -n
      /\ n * q \in Int
  <2>1. q >= 1 => n * q >= n
    BY <1>1
  <2>2. q <= -1 => n * q <= -n
    BY <1>1
  <2>3. q <= -2 => n * q <= -n - n
    BY <1>1
  <2>4. (q = 0 => n * q = 0) /\ (q = -1 => n * q = -n) /\ n * q \in Int
    BY <1>1
  <2> QED
    BY <2>1, <2>2, <2>3, <2>4
<1>3. x \in 0 .. n - 1 => m = x
  BY <1>1, <1>2
<1>4. x \in -n .. -1 => m = x + n
  BY <1>1, <1>2
<1> QED
  BY <1>1, <1>3, <1>4 DEF m

LEMMA SubIs ==
  ASSUME NEW a \in Nat, NEW b \in Nat, Word \in Nat \ {0}
  PROVE  /\ Sub(a, b) \in Nat
         /\ a - b \in 0 .. Word - 1 => Sub(a, b) = a - b
         /\ a - b \in -Word .. -1 => Sub(a, b) = a - b + Word
<1>1. PICK x \in Int : x = a - b
  OBVIOUS
<1>2. /\ x % Word \in 0 .. Word - 1
      /\ x \in 0 .. Word - 1 => x % Word = x
      /\ x \in -Word .. -1 => x % Word = x + Word
  BY Wraps
<1>3. Sub(a, b) = x % Word
  BY <1>1 DEF Sub
<1> QED
  BY <1>1, <1>2, <1>3
-----------------------------------------------------------------------------
(* ByteArray.  What the values are. *)
BaShape ==
  /\ m_baseSize \in BaseSizes
  /\ m_position \in Nat /\ m_size \in Nat /\ m_cur \in Nat /\ left \in Nat
  /\ strayed \in BOOLEAN /\ crashed \in BOOLEAN
  /\ mem \in Seq(Cells)
  /\ op = [name |-> op.name, n |-> op.n, at |-> op.at, out |-> op.out]
  /\ op.n \in Nat /\ op.at \in Nat
  /\ ofs = [open |-> ofs.open, pos |-> ofs.pos, block |-> ofs.block, rest |-> ofs.rest, out |-> ofs.out]
  /\ ofs.open \in BOOLEAN

(* The memory is whole blocks, and no more of them than a size_t can count. *)
BaWhole ==
  /\ Blocks \in Nat \ {0} /\ Len(mem) = Blocks * m_baseSize
  /\ Len(mem) <= MaxBytes + m_baseSize

(* A message under way: what was sent, and what is left. *)
BaMessage ==
  /\ left > 0 => op.out \in Seq(Cells) /\ (crashed \/ op.name \in {"writeFixSize", "sendAstray"})
  /\ op.name = "writeFixSize" =>
       /\ ~strayed /\ op.at <= m_position
       /\ op.out = SubSeq(mem, op.at + 1, m_position)
       /\ m_position + left = op.at + op.n

(* A file under way, unless it is one whose end is cut off. *)
BaFile ==
  ofs.open =>
    /\ ~strayed /\ left = 0
    /\ ofs.pos \in Int /\ ofs.block \in Nat /\ ofs.rest \in Int
    /\ (Npos = 0 \/ GetReadSize > m_baseSize) =>
       /\ ofs.rest >= 0 /\ m_position <= ofs.pos
       /\ ofs.pos + ofs.rest = m_size
       /\ ofs.out = SubSeq(mem, m_position + 1, ofs.pos)
       /\ ofs.rest > 0 => \/ ofs.pos = ofs.block * m_baseSize
                          \/ /\ ofs.pos = m_position /\ ofs.block = m_cur
                             /\ ofs.rest > m_baseSize

BaInv == BaShape /\ BaWhole /\ CursorAgrees /\ CrashesNamed /\ BaMessage /\ BaFile

LEMMA LeastOfThree ==
  ASSUME NEW a \in Nat, NEW b \in Nat, NEW c \in Nat
  PROVE  /\ Min({a, b, c}) \in Nat
         /\ Min({a, b, c}) <= a /\ Min({a, b, c}) <= b /\ Min({a, b, c}) <= c
         /\ Min({a, b, c}) \in {a, b, c}
<1>1. \E x \in {a, b, c} : \A y \in {a, b, c} : x <= y
  OBVIOUS
<1>2. /\ Min({a, b, c}) \in {a, b, c}
      /\ \A y \in {a, b, c} : Min({a, b, c}) <= y
  BY <1>1 DEF Min
<1> QED
  BY <1>2

(* Where the cursor is, as long as it agrees with the position. *)
LEMMA BaPlace ==
  ASSUME BaShape, BaWhole
  PROVE  /\ m_baseSize \in Nat \ {0} /\ Word \in Nat \ {0} /\ MaxBytes \in Nat
         /\ Len(mem) \in Nat /\ Len(mem) > 0 /\ Len(mem) < Word
         /\ Npos \in 0 .. m_baseSize - 1
         /\ GetReadSize \in Nat /\ GetCapacity \in Nat
         /\ m_cur * m_baseSize \in Nat /\ Here \in Nat
         /\ \A k \in Nat : Blocks <= k => k * m_baseSize >= Len(mem)
         /\ \A k \in Nat : k < Blocks => k * m_baseSize + m_baseSize <= Len(mem)
<1>1. m_baseSize \in Nat \ {0} /\ Word \in Nat \ {0} /\ MaxBytes \in Nat /\ MaxBytes + m_baseSize < Word
  BY ByteArrayAssumption DEF BaShape
<1>2. Len(mem) \in Nat /\ mem \in Seq(Cells)
  BY LenProperties DEF BaShape
<1>3. Npos \in 0 .. m_baseSize - 1
  BY <1>1, DivMod DEF Npos, BaShape
<1>4. GetReadSize \in Nat /\ GetCapacity \in Nat
  <2>1. m_size \in Nat /\ m_position \in Nat /\ m_capacity \in Nat
    BY <1>2 DEF BaShape, m_capacity
  <2> QED
    BY <1>1, <2>1, SubIs DEF GetReadSize, GetCapacity
<1>5. m_cur * m_baseSize \in Nat /\ Here \in Nat
  <2>1. m_cur \in Nat /\ m_cur * m_baseSize \in Nat
    BY <1>1 DEF BaShape
  <2> HIDE DEF Npos
  <2> QED
    BY <1>3, <2>1 DEF Here
<1>6. PICK B \in Nat \ {0} : B = Blocks /\ Len(mem) = B * m_baseSize
  BY DEF BaWhole
<1>7. ASSUME NEW k \in Nat, B <= k
      PROVE  k * m_baseSize >= Len(mem)
  BY <1>1, <1>6, <1>7
<1>8. ASSUME NEW k \in Nat, k < B
      PROVE  k * m_baseSize + m_baseSize <= Len(mem)
  BY <1>1, <1>6, <1>8
<1>9. Len(mem) > 0
  BY <1>1, <1>6
<1> QED
  BY <1>1, <1>2, <1>3, <1>4, <1>5, <1>6, <1>7, <1>8, <1>9 DEF BaWhole

LEMMA BaAgreed ==
  ASSUME BaShape, BaWhole, CursorAgrees, ~strayed
  PROVE  /\ m_cur = m_position \div m_baseSize
         /\ m_position = m_cur * m_baseSize + Npos /\ Here = m_position
         /\ m_position <= m_size /\ m_size <= Len(mem)
         /\ GetReadSize = m_size - m_position
         /\ GetCapacity = Len(mem) - m_position
         /\ (m_cur >= Blocks) <=> (m_position = Len(mem))
         /\ GetCapacity = 0 => m_cur = Blocks
<1>1. /\ m_baseSize \in Nat \ {0} /\ Word \in Nat \ {0} /\ Len(mem) \in Nat /\ Len(mem) < Word
      /\ Npos \in 0 .. m_baseSize - 1 /\ m_position \in Nat /\ m_size \in Nat /\ m_cur \in Nat
      /\ m_cur * m_baseSize \in Nat
  BY BaPlace DEF BaShape
<1>2. m_cur = m_position \div m_baseSize /\ m_position <= m_size /\ m_size <= Len(mem)
  BY DEF CursorAgrees, m_capacity
<1>3. m_position = m_cur * m_baseSize + Npos /\ Here = m_position
  BY <1>1, <1>2, DivMod DEF Npos, Here
<1>4. GetReadSize = m_size - m_position /\ GetCapacity = Len(mem) - m_position
  <2>1. m_size - m_position \in 0 .. Word - 1 /\ Len(mem) - m_position \in 0 .. Word - 1
    BY <1>1, <1>2
  <2> QED
    BY <1>1, <2>1, SubIs DEF GetReadSize, GetCapacity, m_capacity
<1>5. PICK B \in Nat \ {0} : B = Blocks /\ Len(mem) = B * m_baseSize
  BY DEF BaWhole
<1>6. m_position < B * m_baseSize => m_cur < B
  BY <1>1, <1>2, DivBounds
<1>7. m_position >= B * m_baseSize => m_cur >= B
  BY <1>1, <1>2, DivBounds
<1>8. m_position = Len(mem) => m_cur = B
  <2> SUFFICES ASSUME m_position = Len(mem) PROVE m_cur = B
    OBVIOUS
  <2>1. 0 \in 0 .. m_baseSize - 1 /\ B * m_baseSize + 0 = B * m_baseSize /\ B * m_baseSize \in Nat
    BY <1>1
  <2>2. (B * m_baseSize + 0) \div m_baseSize = B
    BY <1>1, <2>1, DivUnique
  <2> QED
    BY <2>1, <2>2, <1>2, <1>5
<1>9. ((m_cur >= B) <=> (m_position = Len(mem)))
  BY <1>1, <1>2, <1>5, <1>6, <1>7
<1> QED
  BY <1>1, <1>2, <1>3, <1>4, <1>5, <1>8, <1>9

(* What addCapacity leaves. *)
LEMMA BaGrowth ==
  ASSUME BaShape, BaWhole, NEW n \in Nat, m_position + n <= MaxBytes
  PROVE  /\ Grown(n) \in Seq(Cells)
         /\ \E k \in Nat \ {0} : Len(Grown(n)) = k * m_baseSize
         /\ Len(Grown(n)) <= MaxBytes + m_baseSize
         /\ Len(Grown(n)) \in Nat /\ Len(Grown(n)) >= Len(mem)
         /\ \A i \in 1 .. Len(mem) : Grown(n)[i] = mem[i]
         /\ m_position <= Len(mem) => Len(Grown(n)) >= m_position + n
         /\ CurAfterGrowth(n) \in Nat
<1>1. /\ m_baseSize \in Nat \ {0} /\ Word \in Nat \ {0} /\ Len(mem) \in Nat /\ Len(mem) < Word
      /\ MaxBytes \in Nat /\ MaxBytes + m_baseSize < Word /\ Len(mem) <= MaxBytes + m_baseSize
      /\ m_position \in Nat /\ m_cur \in Nat /\ GetCapacity \in Nat
  BY BaPlace, ByteArrayAssumption DEF BaShape, BaWhole
<1>2. m_position <= Len(mem) => GetCapacity = Len(mem) - m_position
  <2> SUFFICES ASSUME m_position <= Len(mem) PROVE GetCapacity = Len(mem) - m_position
    OBVIOUS
  <2>1. Len(mem) - m_position \in 0 .. Word - 1
    BY <1>1
  <2> QED
    BY <1>1, <2>1, SubIs DEF GetCapacity, m_capacity
<1>3. m_position > Len(mem) => GetCapacity >= n
  <2> SUFFICES ASSUME m_position > Len(mem) PROVE GetCapacity >= n
    OBVIOUS
  <2>1. Len(mem) - m_position \in -Word .. -1
    BY <1>1
  <2>2. GetCapacity = Len(mem) - m_position + Word
    BY <1>1, <2>1, SubIs DEF GetCapacity, m_capacity
  <2> QED
    BY <1>1, <2>2
<1>4. PICK k \in Nat : /\ k = NewBlocks(n) /\ k * m_baseSize \in Nat
                       /\ GetCapacity >= n => k = 0
                       /\ GetCapacity < n => /\ k * m_baseSize >= n - GetCapacity
                                             /\ k * m_baseSize <= n - GetCapacity + m_baseSize - 1
  <2>1. CASE GetCapacity >= n
    BY <1>1, <2>1 DEF NewBlocks
  <2>2. CASE GetCapacity < n
    <3>1. PICK d \in Nat : d = n - GetCapacity
      BY <1>1, <2>2
    <3>2. NewBlocks(n) = (d + m_baseSize - 1) \div m_baseSize
      BY <1>1, <2>2, <3>1 DEF NewBlocks
    <3>3. LET j == (d + m_baseSize - 1) \div m_baseSize
          IN  j \in Nat /\ j * m_baseSize \in Nat /\ j * m_baseSize >= d /\ j * m_baseSize <= d + m_baseSize - 1
      BY <1>1, RoundUp
    <3> QED
      BY <1>1, <2>2, <3>1, <3>2, <3>3
  <2> QED
    BY <1>1, <2>1, <2>2
<1> DEFINE new == [i \in 1 .. k * m_baseSize |-> Raw]
<1>5. new \in Seq(Cells) /\ Len(new) = k * m_baseSize
  <2>1. Raw \in Cells
    BY DEF Cells
  <2>2. new \in [1 .. k * m_baseSize -> Cells]
    BY <2>1
  <2> QED
    BY <1>4, <2>2, LenProperties
<1>6. mem \in Seq(Cells) /\ Grown(n) = mem \o new
  BY <1>4 DEF Grown, BaShape
<1> HIDE DEF new
<1>7. /\ Grown(n) \in Seq(Cells) /\ Len(Grown(n)) = Len(mem) + k * m_baseSize
      /\ \A i \in 1 .. Len(mem) : Grown(n)[i] = mem[i]
  <2>1. /\ mem \o new \in Seq(Cells) /\ Len(mem \o new) = Len(mem) + Len(new)
        /\ \A i \in 1 .. Len(mem) : (mem \o new)[i] = mem[i]
    <3>1. /\ mem \o new \in Seq(Cells) /\ Len(mem \o new) = Len(mem) + Len(new)
          /\ \A i \in 1 .. Len(mem) + Len(new) :
               (mem \o new)[i] = IF i <= Len(mem) THEN mem[i] ELSE new[i - Len(mem)]
      BY <1>5, <1>6, ConcatProperties
    <3>2. 1 .. Len(mem) \subseteq 1 .. Len(mem) + Len(new) /\ Len(mem) \in Nat
      BY <1>1, <1>4, <1>5
    <3> QED
      BY <3>1, <3>2
  <2> QED
    BY <1>5, <1>6, <2>1
<1>8. \E j \in Nat \ {0} : Len(Grown(n)) = j * m_baseSize
  <2>1. PICK B \in Nat \ {0} : Len(mem) = B * m_baseSize
    BY DEF BaWhole
  <2>2. B + k \in Nat \ {0} /\ (B + k) * m_baseSize = B * m_baseSize + k * m_baseSize
    BY <1>1, <2>1
  <2> QED
    BY <1>7, <2>1, <2>2
<1>9. Len(Grown(n)) <= MaxBytes + m_baseSize
  <2>1. k = 0 => k * m_baseSize = 0
    BY <1>1
  <2> QED
    BY <1>1, <1>2, <1>3, <1>4, <1>7, <2>1, SMTT(30)
<1>10. m_position <= Len(mem) => Len(Grown(n)) >= m_position + n
  BY <1>1, <1>2, <1>4, <1>7, SMTT(30)
<1>11. CurAfterGrowth(n) \in Nat
  BY <1>1 DEF CurAfterGrowth, BaWhole
<1>12. Len(Grown(n)) \in Nat /\ Len(Grown(n)) >= Len(mem)
  BY <1>1, <1>4, <1>7
<1> HIDE DEF CurAfterGrowth, Grown
<1> QED
  BY <1>7, <1>8, <1>9, <1>10, <1>11, <1>12

-----------------------------------------------------------------------------
(* Parts of the invariant that most calls leave in the same way. *)
LEMMA BaWholeNext ==
  ASSUME BaShape, m_baseSize' = m_baseSize, NEW k \in Nat \ {0},
         Len(mem') = k * m_baseSize, Len(mem') <= MaxBytes + m_baseSize
  PROVE  BaWhole'
<1>1. m_baseSize \in Nat \ {0}
  BY ByteArrayAssumption DEF BaShape
<1>2. k * m_baseSize + 0 = k * m_baseSize /\ 0 \in 0 .. m_baseSize - 1 /\ k * m_baseSize \in Nat
  BY <1>1
<1>3. (k * m_baseSize + 0) \div m_baseSize = k
  BY <1>1, <1>2, DivUnique
<1>4. Blocks' = k
  BY <1>2, <1>3 DEF Blocks, m_capacity
<1> QED
  BY <1>4 DEF BaWhole

LEMMA BaQuiet ==
  ASSUME ~crashed, crashed' = crashed, ~ofs.open, ofs' = ofs, left' = 0, op'.name # "writeFixSize"
  PROVE  BaMessage' /\ BaFile' /\ CrashesNamed'
<1>1. BaMessage'
  BY DEF BaMessage
<1>2. BaFile'
  BY DEF BaFile
<1>3. CrashesNamed'
  BY DEF CrashesNamed
<1> QED
  BY <1>1, <1>2, <1>3

(* A call that moves nothing and only answers. *)
LEMMA BaAnswers ==
  ASSUME BaInv, ~crashed, ~ofs.open, left = 0,
         NEW name, name # "writeFixSize", NEW n \in Nat, NEW p \in Nat, NEW out,
         op' = [name |-> name, n |-> n, at |-> p, out |-> out],
         UNCHANGED <<m_baseSize, m_position, m_size, m_cur, mem, left, ofs, strayed, crashed>>
  PROVE  BaInv'
<1>1. BaShape'
  BY DEF BaInv, BaShape
<1>2. BaWhole' /\ CursorAgrees'
  BY DEF BaInv, BaWhole, Blocks, m_capacity, CursorAgrees
<1>3. op'.name = name
  OBVIOUS
<1>4. BaMessage' /\ BaFile' /\ CrashesNamed'
  BY <1>3, BaQuiet
<1> QED
  BY <1>1, <1>2, <1>4 DEF BaInv

LEMMA BaCrash ==
  ASSUME BaInv, ~crashed, NEW name, name # "writeFixSize", NEW n \in Nat, NEW p \in Nat,
         Crash(name, n, p), strayed \/ FarRead' \/ FilePart' \/ ReadNothing'
  PROVE  BaInv'
<1>1. /\ op' = [name |-> name, n |-> n, at |-> p, out |-> <<>>] /\ crashed' = TRUE
      /\ UNCHANGED <<m_baseSize, m_position, m_size, m_cur, mem, left, ofs, strayed>>
  BY DEF Crash, BaOpAt
<1>2. BaShape'
  BY <1>1 DEF BaInv, BaShape
<1>3. BaWhole' /\ CursorAgrees'
  BY <1>1 DEF BaInv, BaWhole, Blocks, m_capacity, CursorAgrees
<1>4. CrashesNamed'
  BY <1>1 DEF CrashesNamed
<1>5. BaMessage'
  <2>1. <<>> \in Seq(Cells)
    BY EmptySeq
  <2> QED
    BY <1>1, <2>1 DEF BaMessage
<1>6. BaFile'
  BY <1>1 DEF BaInv, BaFile, Npos, GetReadSize, Sub
<1> QED
  BY <1>2, <1>3, <1>4, <1>5, <1>6 DEF BaInv

(* The strings of bytes a caller writes. *)
LEMMA ChunkBytes ==
  ASSUME NEW s \in Chunks(MaxChunk)
  PROVE  /\ s \in Seq(Cells) /\ Len(s) \in 1 .. MaxChunk
         /\ s \in [1 .. Len(s) -> ByteValues]
<1>1. PICK k \in 1 .. MaxChunk : s \in [1 .. k -> ByteValues]
  BY DEF Chunks
<1>2. MaxChunk \in Nat
  BY ByteArrayAssumption
<1>3. s \in Seq(ByteValues) /\ Len(s) = k
  BY <1>1, <1>2
<1>4. s \in Seq(Cells)
  BY <1>1, <1>3 DEF Cells
<1> QED
  BY <1>1, <1>2, <1>3, <1>4

(* How a write over the position leaves the cursor. *)
LEMMA BaMoved ==
  ASSUME BaShape, BaWhole, CursorAgrees, ~strayed, NEW n \in Nat,
         m_position' = m_position + n, m_size' = IF m_position + n > m_size THEN m_position + n ELSE m_size,
         m_cur' = (m_position + n) \div m_baseSize, m_baseSize' = m_baseSize,
         Len(mem') \in Nat, Len(mem') >= m_position + n, Len(mem') >= Len(mem)
  PROVE  CursorAgrees'
<1>1. m_position \in Nat /\ m_size \in Nat /\ m_size <= Len(mem) /\ Len(mem) \in Nat
  BY BaAgreed, BaPlace DEF BaShape
<1>2. m_position' <= m_size' /\ m_size' <= Len(mem')
  BY <1>1
<1> QED
  BY <1>2 DEF CursorAgrees, m_capacity

LEMMA WriteKeeps ==
  ASSUME BaInv, ~crashed, ~ofs.open, left = 0, NEW s \in Chunks(MaxChunk), Write(s)
  PROVE  /\ BaInv'
         /\ ~strayed => /\ mem' = [i \in 1 .. Len(Grown(Len(s))) |->
                                     IF i \in m_position + 1 .. m_position + Len(s)
                                       THEN s[i - m_position] ELSE Grown(Len(s))[i]]
                        /\ m_position' = m_position + Len(s)
                        /\ op'.name = "write" /\ op'.n = Len(s) /\ op'.out = s
                        /\ m_size' = IF m_position' > m_size THEN m_position' ELSE m_size
<1> DEFINE n == Len(s)
           G == Grown(n)
           from == CurAfterGrowth(n) * m_baseSize + Npos
<1>1. BaShape /\ BaWhole /\ CursorAgrees
  BY DEF BaInv
<1>2. /\ s \in Seq(Cells) /\ n \in Nat /\ n > 0 /\ m_position + n <= MaxBytes
      /\ \A i \in 1 .. n : s[i] \in Cells
  <2>1. s \in Seq(Cells) /\ Len(s) \in 1 .. MaxChunk
    BY ChunkBytes
  <2>2. MaxChunk \in Nat
    BY ByteArrayAssumption
  <2>3. \A i \in 1 .. n : s[i] \in Cells
    BY <2>1, ElementOfSeq
  <2> QED
    BY <2>1, <2>2, <2>3 DEF Write
<1>3. /\ G \in Seq(Cells) /\ Len(G) \in Nat /\ Len(G) <= MaxBytes + m_baseSize /\ Len(G) >= Len(mem)
      /\ \E k \in Nat \ {0} : Len(G) = k * m_baseSize
      /\ m_position <= Len(mem) => Len(G) >= m_position + n
      /\ CurAfterGrowth(n) \in Nat
  BY <1>1, <1>2, BaGrowth
<1>4. /\ m_baseSize \in Nat \ {0} /\ Npos \in 0 .. m_baseSize - 1 /\ Len(mem) \in Nat
      /\ m_position \in Nat /\ m_size \in Nat /\ m_cur \in Nat
  BY <1>1, BaPlace DEF BaShape
<1>5. CurAfterGrowth(n) * m_baseSize \in Nat /\ from \in Nat
  <2>1. PICK c \in Nat : c = CurAfterGrowth(n)
    BY <1>3
  <2>2. c * m_baseSize \in Nat
    BY <1>4
  <2> QED
    BY <1>4, <2>1, <2>2
<1>6. ASSUME ~strayed
      PROVE  /\ CurAfterGrowth(n) * m_baseSize <= m_position /\ from = m_position
             /\ ~ (CurAfterGrowth(n) * m_baseSize >= Len(G)) /\ ~ (from + n > Len(G))
             /\ Len(G) >= m_position + n
  <2>1. /\ m_position = m_cur * m_baseSize + Npos /\ m_position <= Len(mem)
        /\ GetCapacity = 0 => m_cur = Blocks
    BY <1>1, <1>4, <1>6, BaAgreed
  <2>2. CurAfterGrowth(n) = m_cur
    BY <2>1 DEF CurAfterGrowth
  <2>3. from = m_position
    BY <2>1, <2>2
  <2>4. CurAfterGrowth(n) * m_baseSize <= m_position
    BY <1>4, <1>5, <2>3
  <2> HIDE DEF from, G, n
  <2> QED
    BY <1>2, <1>3, <1>4, <1>5, <2>1, <2>3, <2>4
<1>7. CASE CurAfterGrowth(n) * m_baseSize >= Len(G) \/ from + n > Len(G)
  <2>1. strayed
    BY <1>6, <1>7
  <2>2. Crash("write", n, m_position)
    BY <1>7 DEF Write
  <2>3. BaInv'
    BY <1>2, <1>4, <2>1, <2>2, BaCrash
  <2> QED
    BY <2>1, <2>3
<1>8. CASE ~ (CurAfterGrowth(n) * m_baseSize >= Len(G) \/ from + n > Len(G))
  <2>1. /\ mem' = [i \in 1..Len(G) |-> IF i \in from + 1 .. from + n THEN s[i - from] ELSE G[i]]
        /\ m_cur' = (from + n) \div m_baseSize
        /\ m_position' = m_position + n
        /\ m_size' = (IF m_position' > m_size THEN m_position' ELSE m_size)
        /\ op' = [name |-> "write", n |-> n, at |-> m_position, out |-> s]
        /\ UNCHANGED <<m_baseSize, left, ofs, strayed, crashed>>
    BY <1>8 DEF Write, Stored, BaOp, BaOpAt
  <2> HIDE DEF n, G, from
  <2>2. mem' \in Seq(Cells) /\ Len(mem') = Len(G)
    <3>1. \A i \in 1 .. Len(G) : G[i] \in Cells
      BY <1>3, ElementOfSeq
    <3>2. ASSUME NEW i \in 1 .. Len(G), i \in from + 1 .. from + n
          PROVE  s[i - from] \in Cells
      <4>1. i - from \in 1 .. n
        BY <1>2, <1>5, <3>2
      <4> QED
        BY <1>2, <4>1
    <3>3. mem' \in [1 .. Len(G) -> Cells]
      BY <2>1, <3>1, <3>2
    <3> QED
      BY <1>3, <3>3
  <2>3. m_cur' \in Nat /\ m_position' \in Nat /\ m_size' \in Nat
    <3>1. from + n \in Nat
      BY <1>2, <1>5
    <3>2. (from + n) \div m_baseSize \in Nat
      BY <1>4, <3>1, DivNat
    <3>3. m_position' \in Nat
      BY <1>2, <1>4, <2>1
    <3>4. m_size' \in Nat
      BY <1>4, <2>1, <3>3
    <3> QED
      BY <2>1, <3>2, <3>3, <3>4
  <2>4. /\ op'.name = "write" /\ op'.n = n /\ op'.at = m_position /\ op'.out = s
        /\ op' = [name |-> op'.name, n |-> op'.n, at |-> op'.at, out |-> op'.out]
    BY <2>1
  <2>5. BaShape'
    BY <1>1, <1>2, <1>4, <2>1, <2>2, <2>3, <2>4 DEF BaShape
  <2>6. BaWhole'
    BY <1>1, <1>3, <2>1, <2>2, BaWholeNext
  <2>7. CursorAgrees'
    <3>1. CASE strayed
      BY <2>1, <3>1 DEF CursorAgrees
    <3>2. CASE ~strayed
      <4>1. from = m_position /\ Len(G) >= m_position + n
        BY <1>6, <3>2
      <4>2. /\ m_size' = (IF m_position + n > m_size THEN m_position + n ELSE m_size)
            /\ m_cur' = (m_position + n) \div m_baseSize
            /\ m_position' = m_position + n /\ m_baseSize' = m_baseSize
        BY <2>1, <4>1
      <4>3. Len(mem') \in Nat /\ Len(mem') >= m_position + n /\ Len(mem') >= Len(mem)
        BY <1>3, <2>2, <4>1
      <4> QED
        BY <1>1, <1>2, <3>2, <4>2, <4>3, BaMoved
    <3> QED
      BY <3>1, <3>2
  <2>8. BaMessage' /\ BaFile' /\ CrashesNamed'
    <3>1. op'.name # "writeFixSize"
      BY <2>4
    <3> QED
      BY <2>1, <3>1, BaQuiet
  <2>9. BaInv'
    BY <2>5, <2>6, <2>7, <2>8 DEF BaInv
  <2>10. ~strayed => from = m_position
    BY <1>6
  <2> QED
    BY <2>1, <2>4, <2>9, <2>10 DEF n, G
<1> QED
  BY <1>7, <1>8

(* read and its two siblings. *)
LEMMA ReadKeeps ==
  ASSUME BaInv, ~crashed, ~ofs.open, left = 0, NEW n \in Nat, Read(n)
  PROVE  /\ BaInv'
         /\ ~strayed /\ ~strayed' /\ ~crashed' =>
              /\ op'.name = "read" /\ op'.n = n
              /\ \/ /\ op'.out = Thrown /\ m_position + n > m_size
                    /\ UNCHANGED <<mem, m_position, m_size>>
                 \/ /\ m_position + n <= m_size /\ m_position' = m_position + n
                    /\ op'.out = SubSeq(mem, m_position + 1, m_position + n)
                    /\ UNCHANGED <<mem, m_size>>
<1>1. BaShape /\ BaWhole /\ CursorAgrees
  BY DEF BaInv
<1>2. /\ m_baseSize \in Nat \ {0} /\ Npos \in 0 .. m_baseSize - 1 /\ Len(mem) \in Nat
      /\ m_position \in Nat /\ m_size \in Nat /\ m_cur \in Nat /\ Here \in Nat
      /\ strayed \in BOOLEAN
  BY <1>1, BaPlace DEF BaShape
<1>3. CASE n > GetReadSize
  <2>1. /\ op' = [name |-> "read", n |-> n, at |-> m_position, out |-> Thrown]
        /\ UNCHANGED <<m_baseSize, m_position, m_size, m_cur, mem, left, ofs, strayed, crashed>>
    BY <1>3 DEF Read, BaThrow, BaOpAt
  <2>2. BaInv'
    BY <1>2, <2>1, BaAnswers
  <2>3. op'.name = "read" /\ op'.n = n /\ op'.out = Thrown
    BY <2>1
  <2>4. ~strayed => m_position + n > m_size
    <3> SUFFICES ASSUME ~strayed PROVE m_position + n > m_size
      OBVIOUS
    <3>1. GetReadSize = m_size - m_position
      BY <1>1, BaAgreed
    <3> QED
      BY <1>2, <1>3, <3>1
  <2> QED
    BY <2>1, <2>2, <2>3, <2>4
<1>4. CASE ~ (n > GetReadSize) /\ (m_cur >= Blocks \/ Here + n > m_capacity)
  <2>1. Crash("read", n, m_position)
    BY <1>4 DEF Read
  <2>2. strayed \/ ReadNothing'
    <3> SUFFICES ASSUME ~strayed PROVE ReadNothing'
      OBVIOUS
    <3>1. /\ Here = m_position /\ m_position <= m_size /\ m_size <= Len(mem)
          /\ GetReadSize = m_size - m_position /\ ((m_cur >= Blocks) <=> (m_position = Len(mem)))
      BY <1>1, BaAgreed
    <3>2. m_position + n <= m_size
      BY <1>2, <1>4, <3>1
    <3>3. ~ (Here + n > m_capacity)
      BY <1>2, <3>1, <3>2 DEF m_capacity
    <3>4. m_position = Len(mem)
      BY <1>4, <3>1, <3>3
    <3>5. n = 0
      BY <1>2, <3>1, <3>2, <3>4
    <3> QED
      BY <2>1, <3>4, <3>5 DEF ReadNothing, Crash, BaOpAt, m_capacity
  <2>3. BaInv'
    BY <1>2, <2>1, <2>2, BaCrash
  <2> QED
    BY <2>1, <2>3 DEF Crash
<1>5. CASE ~ (n > GetReadSize) /\ ~ (m_cur >= Blocks \/ Here + n > m_capacity)
  <2> DEFINE over == n > m_baseSize - Npos
  <2>1. /\ op' = [name |-> "read", n |-> n, at |-> m_position, out |-> SubSeq(mem, Here + 1, Here + n)]
        /\ m_position' = m_position + n + (IF over THEN Npos ELSE 0)
        /\ m_cur' = (Here + n) \div m_baseSize
        /\ strayed' = (strayed \/ (over /\ Npos > 0))
        /\ UNCHANGED <<m_baseSize, m_size, mem, left, ofs, crashed>>
    BY <1>5 DEF Read, BaOp, BaOpAt
  <2> HIDE DEF over
  <2>2. m_cur' \in Nat /\ m_position' \in Nat /\ strayed' \in BOOLEAN
    <3>1. Here + n \in Nat
      BY <1>2
    <3>2. m_cur' \in Nat
      BY <1>2, <2>1, <3>1, DivMod
    <3>3. m_position' \in Nat
      BY <1>2, <2>1
    <3> QED
      BY <2>1, <3>2, <3>3
  <2>3. BaShape'
    BY <1>1, <1>2, <2>1, <2>2 DEF BaShape
  <2>4. BaWhole'
    BY <1>1, <2>1 DEF BaWhole, Blocks, m_capacity
  <2>5. BaMessage' /\ BaFile' /\ CrashesNamed'
    <3>1. op'.name # "writeFixSize"
      BY <2>1
    <3> QED
      BY <2>1, <3>1, BaQuiet
  <2>6. ASSUME ~strayed, ~strayed'
        PROVE  /\ Here = m_position /\ m_position + n <= m_size /\ m_position' = m_position + n
               /\ m_size <= Len(mem)
    <3>1. /\ Here = m_position /\ m_position <= m_size /\ m_size <= Len(mem)
          /\ GetReadSize = m_size - m_position
      BY <1>1, <2>6, BaAgreed
    <3>2. over => Npos = 0
      <4>1. strayed' = (strayed \/ (over /\ Npos > 0))
        BY <2>1
      <4>2. ~ (over /\ Npos > 0)
        BY <2>6, <4>1, Zenon
      <4> QED
        BY <1>2, <4>2
    <3>3. m_position' = m_position + n
      BY <1>2, <2>1, <3>2
    <3> QED
      BY <1>2, <1>5, <3>1, <3>3
  <2>7. CursorAgrees'
    BY <2>1, <2>6 DEF CursorAgrees, m_capacity
  <2>8. BaInv'
    BY <2>3, <2>4, <2>5, <2>7 DEF BaInv
  <2>9. op'.name = "read" /\ op'.n = n /\ op'.out = SubSeq(mem, Here + 1, Here + n)
    BY <2>1
  <2> QED
    BY <2>1, <2>6, <2>8, <2>9
<1> QED
  BY <1>3, <1>4, <1>5

LEMMA ReadFromKeeps ==
  ASSUME BaInv, ~crashed, ~ofs.open, left = 0,
         NEW name, NEW n \in Nat \ {0}, NEW p \in Nat,
         name = "readAt" \/ (name = "toString" /\ n = GetReadSize /\ p = m_position),
         ReadFrom(name, n, p)
  PROVE  /\ BaInv' /\ UNCHANGED <<mem, m_position, m_size>>
         /\ op'.name = name /\ op'.n = n /\ op'.at = p
         /\ ~strayed /\ ~crashed' /\ ~FarRead' =>
              \/ name = "readAt" /\ op'.out = Thrown /\ p + n > m_size
              \/ p + n <= m_size /\ op'.out = SubSeq(mem, p + 1, p + n)
<1> DEFINE from == (m_cur * m_baseSize) + (p % m_baseSize)
<1>1. BaShape /\ BaWhole /\ CursorAgrees
  BY DEF BaInv
<1>2. /\ m_baseSize \in Nat \ {0} /\ Len(mem) \in Nat /\ Word \in Nat \ {0} /\ Len(mem) < Word
      /\ m_position \in Nat /\ m_size \in Nat /\ m_cur \in Nat
      /\ p % m_baseSize \in 0 .. m_baseSize - 1 /\ m_cur * m_baseSize \in Nat
  BY <1>1, BaPlace, DivMod DEF BaShape
<1>3. name # "writeFixSize"
  OBVIOUS
<1>4. CASE n > Sub(m_size, p)
  <2>1. /\ op' = [name |-> name, n |-> n, at |-> p, out |-> Thrown]
        /\ UNCHANGED <<m_baseSize, m_position, m_size, m_cur, mem, left, ofs, strayed, crashed>>
    BY <1>4 DEF ReadFrom, BaThrow, BaOpAt
  <2>2. BaInv'
    BY <1>2, <1>3, <2>1, BaAnswers
  <2>3. op'.name = name /\ op'.n = n /\ op'.at = p /\ op'.out = Thrown
    BY <2>1
  <2>4. name = "readAt"
    <3>1. ~ (n > n)
      BY <1>2
    <3>2. ~ (n = GetReadSize /\ p = m_position)
      BY <1>4, <3>1 DEF GetReadSize
    <3> QED
      BY <3>2
  <2>5. ~strayed /\ ~FarRead' => p + n > m_size
    <3> SUFFICES ASSUME ~strayed, ~FarRead' PROVE p + n > m_size
      OBVIOUS
    <3>1. m_size' = m_size
      BY <2>1
    <3>2. ~ (p > m_size)
      BY <2>3, <2>4, <3>1 DEF FarRead
    <3>3. m_size <= Len(mem)
      BY <1>1 DEF CursorAgrees, m_capacity
    <3>4. m_size - p \in 0 .. Word - 1
      BY <1>2, <3>2, <3>3
    <3>5. Sub(m_size, p) = m_size - p
      BY <1>2, <3>4, SubIs
    <3> QED
      BY <1>2, <1>4, <3>5
  <2> QED
    BY <2>1, <2>2, <2>3, <2>4, <2>5
<1>5. ASSUME ~ (n > Sub(m_size, p)), ~strayed, name = "readAt" => p \div m_baseSize = m_cur /\ p <= m_size
      PROVE  from = p /\ p + n <= m_size /\ m_size <= Len(mem) /\ ~ (m_cur >= Blocks)
  <2>1. /\ m_position <= m_size /\ m_size <= Len(mem) /\ m_cur = m_position \div m_baseSize
        /\ GetReadSize = m_size - m_position
        /\ \A k \in Nat : Blocks <= k => k * m_baseSize >= Len(mem)
    BY <1>1, <1>5, BaAgreed, BaPlace
  <2>2. p \div m_baseSize = m_cur /\ p <= m_size
    BY <1>5, <2>1
  <2>3. from = p
    BY <1>2, <2>2, DivMod
  <2>4. m_size - p \in 0 .. Word - 1
    BY <1>2, <2>1, <2>2
  <2>5. Sub(m_size, p) = m_size - p
    BY <1>2, <2>4, SubIs
  <2>6. p + n <= m_size
    BY <1>2, <1>5, <2>2, <2>5
  <2>7. m_cur * m_baseSize < Len(mem)
    BY <1>2, <2>1, <2>3, <2>6
  <2>8. PICK B \in Nat \ {0} : B = Blocks
    BY <1>1 DEF BaWhole
  <2>9. ~ (B <= m_cur)
    <3> SUFFICES ASSUME B <= m_cur PROVE FALSE
      OBVIOUS
    <3>1. m_cur * m_baseSize >= Len(mem)
      BY <1>2, <2>1, <2>8
    <3> QED
      BY <1>2, <2>7, <3>1
  <2> QED
    BY <1>2, <2>1, <2>3, <2>6, <2>8, <2>9
<1>6. CASE ~ (n > Sub(m_size, p)) /\ (m_cur >= Blocks \/ from + n > m_capacity)
  <2>1. Crash(name, n, p)
    BY <1>6 DEF ReadFrom
  <2>2. strayed \/ FarRead'
    <3> SUFFICES ASSUME ~strayed PROVE FarRead'
      OBVIOUS
    <3>1. ~ (name = "readAt" => p \div m_baseSize = m_cur /\ p <= m_size)
      <4> SUFFICES ASSUME name = "readAt" => p \div m_baseSize = m_cur /\ p <= m_size PROVE FALSE
        OBVIOUS
      <4>1. from = p /\ p + n <= m_size /\ m_size <= Len(mem) /\ ~ (m_cur >= Blocks)
        BY <1>5, <1>6
      <4> HIDE DEF from
      <4> QED
        BY <1>2, <1>6, <4>1 DEF m_capacity
    <3>2. /\ op' = [name |-> name, n |-> n, at |-> p, out |-> <<>>]
          /\ m_cur' = m_cur /\ m_size' = m_size /\ m_baseSize' = m_baseSize
      BY <2>1 DEF Crash, BaOpAt
    <3>3. p > m_size \/ p <= m_size
      BY <1>2
    <3>4. op'.name = name /\ op'.at = p
      BY <3>2
    <3> QED
      BY <3>1, <3>2, <3>3, <3>4 DEF FarRead
  <2>3. BaInv'
    BY <1>3, <2>1, <2>2, BaCrash
  <2>4. /\ op' = [name |-> name, n |-> n, at |-> p, out |-> <<>>] /\ crashed'
        /\ UNCHANGED <<mem, m_position, m_size>>
    BY <2>1 DEF Crash, BaOpAt
  <2> QED
    BY <2>3, <2>4
<1>7. CASE ~ (n > Sub(m_size, p)) /\ ~ (m_cur >= Blocks \/ from + n > m_capacity)
  <2>1. /\ op' = [name |-> name, n |-> n, at |-> p, out |-> SubSeq(mem, from + 1, from + n)]
        /\ UNCHANGED <<m_baseSize, m_position, m_size, m_cur, mem, left, ofs, strayed, crashed>>
    BY <1>7 DEF ReadFrom, BaOpAt
  <2> HIDE DEF from
  <2>2. BaInv'
    BY <1>2, <1>3, <2>1, BaAnswers
  <2>3. op'.name = name /\ op'.n = n /\ op'.at = p /\ op'.out = SubSeq(mem, from + 1, from + n)
    BY <2>1
  <2>4. ASSUME ~strayed, ~FarRead'
        PROVE  p + n <= m_size /\ from = p
    <3>1. name = "readAt" => p \div m_baseSize = m_cur /\ ~ (p > m_size)
      BY <2>1, <2>3, <2>4 DEF FarRead
    <3>2. name = "readAt" => p \div m_baseSize = m_cur /\ p <= m_size
      BY <1>2, <3>1
    <3> QED
      BY <1>5, <1>7, <2>4, <3>2
  <2> QED
    BY <2>1, <2>2, <2>3, <2>4
<1> QED
  BY <1>4, <1>6, <1>7

(* setPosition to a place within the blocks makes the cursor agree, or keeps it so. *)
LEMMA MovedAgrees ==
  ASSUME BaShape, BaWhole, CursorAgrees, NEW v \in Nat, v <= Len(mem), MovedTo(v),
         UNCHANGED <<m_baseSize, mem>>
  PROVE  /\ m_position' \in Nat /\ m_size' \in Nat /\ m_cur' \in Nat /\ strayed' \in BOOLEAN
         /\ CursorAgrees' /\ (~strayed => ~strayed')
<1>1. /\ m_baseSize \in Nat \ {0} /\ Len(mem) \in Nat /\ m_size \in Nat /\ strayed \in BOOLEAN
  BY BaPlace DEF BaShape
<1>2. /\ m_position' = v /\ m_size' = (IF v > m_size THEN v ELSE m_size)
      /\ m_cur' = v \div m_baseSize /\ strayed' = (strayed /\ m_size > m_capacity)
      /\ m_baseSize' = m_baseSize /\ mem' = mem
  BY DEF MovedTo
<1>3. v \div m_baseSize \in Nat
  BY <1>1, DivNat
<1>4. m_size' \in Nat
  BY <1>1, <1>2
<1>5. CursorAgrees'
  <2> SUFFICES ASSUME ~strayed' PROVE CursorAgrees'
    BY DEF CursorAgrees
  <2>1. ~ (strayed /\ m_size > m_capacity)
    BY <1>2, Zenon
  <2>2. ~strayed => m_size <= m_capacity
    BY DEF CursorAgrees
  <2>3. m_size <= Len(mem)
    BY <1>1, <2>1, <2>2 DEF m_capacity
  <2>4. m_position' <= m_size' /\ m_size' <= Len(mem)
    BY <1>1, <1>2, <2>3
  <2> QED
    BY <1>2, <2>4 DEF CursorAgrees, m_capacity
<1>6. strayed' \in BOOLEAN /\ (~strayed => ~strayed')
  <2>1. strayed' = (strayed /\ m_size > m_capacity)
    BY <1>2
  <2> QED
    BY <2>1, Zenon
<1> QED
  BY <1>2, <1>3, <1>4, <1>5, <1>6

LEMMA SetPositionKeeps ==
  ASSUME BaInv, ~crashed, ~ofs.open, left = 0, NEW v \in Nat, SetPosition(v)
  PROVE  /\ BaInv'
         /\ op'.name = "setPosition" /\ op'.n = v
         /\ \/ /\ op'.out = Thrown /\ UNCHANGED <<mem, m_position, m_size>>
               /\ ~strayed => v > m_size
            \/ /\ m_position' = v /\ m_size' = (IF v > m_size THEN v ELSE m_size)
               /\ UNCHANGED mem
<1>1. BaShape /\ BaWhole /\ CursorAgrees
  BY DEF BaInv
<1>2. Len(mem) \in Nat /\ m_position \in Nat
  BY <1>1, BaPlace DEF BaShape
<1>3. CASE v > m_capacity
  <2>1. /\ op' = [name |-> "setPosition", n |-> v, at |-> m_position, out |-> Thrown]
        /\ UNCHANGED <<m_baseSize, m_position, m_size, m_cur, mem, left, ofs, strayed, crashed>>
    BY <1>3 DEF SetPosition, BaThrow, BaOpAt
  <2>2. BaInv'
    BY <1>2, <2>1, BaAnswers
  <2>3. op'.name = "setPosition" /\ op'.n = v /\ op'.out = Thrown
    BY <2>1
  <2>4. ~strayed => v > m_size
    <3>1. ~strayed => m_size <= Len(mem)
      BY <1>1 DEF CursorAgrees, m_capacity
    <3>2. m_size \in Nat
      BY <1>1 DEF BaShape
    <3> QED
      BY <1>2, <1>3, <3>1, <3>2 DEF m_capacity
  <2> QED
    BY <2>1, <2>2, <2>3, <2>4
<1>4. CASE ~ (v > m_capacity)
  <2>1. MovedTo(v) /\ op' = [name |-> "setPosition", n |-> v, at |-> m_position, out |-> <<>>]
        /\ UNCHANGED <<m_baseSize, mem, left, ofs, crashed>>
    BY <1>4 DEF SetPosition, BaOp, BaOpAt
  <2>2. v <= Len(mem)
    BY <1>2, <1>4 DEF m_capacity
  <2>3. /\ m_position' \in Nat /\ m_size' \in Nat /\ m_cur' \in Nat /\ strayed' \in BOOLEAN
        /\ CursorAgrees'
    BY <1>1, <2>1, <2>2, MovedAgrees
  <2>4. /\ op'.name = "setPosition" /\ op'.n = v /\ op'.at = m_position
        /\ op' = [name |-> op'.name, n |-> op'.n, at |-> op'.at, out |-> op'.out]
    BY <2>1
  <2>5. BaShape'
    BY <1>1, <1>2, <2>1, <2>3, <2>4 DEF BaShape
  <2>6. BaWhole'
    BY <1>1, <2>1 DEF BaWhole, Blocks, m_capacity
  <2>7. BaMessage' /\ BaFile' /\ CrashesNamed'
    <3>1. op'.name # "writeFixSize"
      BY <2>4
    <3> QED
      BY <2>1, <3>1, BaQuiet
  <2> QED
    BY <2>1, <2>3, <2>4, <2>5, <2>6, <2>7 DEF BaInv, MovedTo
<1> QED
  BY <1>3, <1>4

LEMMA BaClearKeeps ==
  ASSUME BaInv, ~crashed, ~ofs.open, left = 0, BaClear
  PROVE  BaInv' /\ m_position' = 0 /\ m_size' = 0 /\ op'.name = "clear"
<1>1. BaShape /\ BaWhole
  BY DEF BaInv
<1>2. /\ m_baseSize \in Nat \ {0} /\ Len(mem) \in Nat /\ MaxBytes \in Nat
      /\ \A k \in Nat : k < Blocks => k * m_baseSize + m_baseSize <= Len(mem)
  BY <1>1, BaPlace
<1>3. m_baseSize <= Len(mem)
  <2>1. 0 < Blocks
    BY <1>1 DEF BaWhole
  <2>2. 0 * m_baseSize + m_baseSize <= Len(mem)
    BY <1>2, <2>1
  <2> QED
    BY <1>2, <2>2
<1>4. /\ m_position' = 0 /\ m_size' = 0 /\ m_cur' = 0 /\ mem' = SubSeq(mem, 1, m_baseSize)
      /\ strayed' = FALSE /\ op' = [name |-> "clear", n |-> 0, at |-> m_position, out |-> <<>>]
      /\ UNCHANGED <<m_baseSize, left, ofs, crashed>>
  BY DEF BaClear, BaOp, BaOpAt
<1>5. mem' \in Seq(Cells) /\ Len(mem') = m_baseSize
  <2>1. \A i \in 1 .. m_baseSize : mem[i] \in Cells
    BY <1>1, <1>2, <1>3, ElementOfSeq DEF BaShape
  <2>2. 1 \in Int /\ m_baseSize \in Int
    BY <1>2
  <2>3. /\ SubSeq(mem, 1, m_baseSize) \in Seq(Cells)
        /\ Len(SubSeq(mem, 1, m_baseSize)) = IF 1 <= m_baseSize THEN m_baseSize - 1 + 1 ELSE 0
    BY <2>1, <2>2, SubSeqProperties
  <2> QED
    BY <1>2, <1>4, <2>3
<1>6. /\ op'.name = "clear" /\ op'.n = 0 /\ op'.at = m_position /\ m_position \in Nat
      /\ op' = [name |-> op'.name, n |-> op'.n, at |-> op'.at, out |-> op'.out]
  BY <1>1, <1>4 DEF BaShape
<1>7. BaShape'
  BY <1>1, <1>4, <1>5, <1>6 DEF BaShape
<1>8. BaWhole'
  <2>1. 1 \in Nat \ {0} /\ Len(mem') = 1 * m_baseSize /\ Len(mem') <= MaxBytes + m_baseSize
    BY <1>2, <1>5
  <2> QED
    BY <1>1, <1>4, <2>1, BaWholeNext
<1>9. CursorAgrees'
  <2>1. 0 = 0 \div m_baseSize
    BY <1>2
  <2> QED
    BY <1>2, <1>4, <1>5, <2>1 DEF CursorAgrees, m_capacity
<1>10. BaMessage' /\ BaFile' /\ CrashesNamed'
  <2>1. op'.name # "writeFixSize"
    BY <1>6
  <2> QED
    BY <1>4, <2>1, BaQuiet
<1> QED
  BY <1>4, <1>6, <1>7, <1>8, <1>9, <1>10 DEF BaInv

LEMMA LastOfSome ==
  ASSUME NEW n \in Nat, NEW S \in SUBSET (1 .. n), S # {}
  PROVE  Max(S) \in S
<1> DEFINE T == {n - i : i \in S}
<1>1. T \subseteq Nat /\ T # {}
  <2>1. \A i \in S : i \in 1 .. n /\ n - i \in Nat
    OBVIOUS
  <2>2. PICK i \in S : TRUE
    OBVIOUS
  <2>3. n - i \in T
    BY <2>2
  <2>4. \A t \in T : t \in Nat
    BY <2>1
  <2> QED
    BY <2>3, <2>4
<1>2. PICK x \in T : \A y \in T : x <= y
  <2>1. T \in SUBSET Nat
    BY <1>1
  <2> HIDE DEF T
  <2> QED
    BY <1>1, <2>1, FirstOfSet
<1>3. PICK i \in S : x = n - i
  OBVIOUS
<1>4. \A j \in S : i >= j
  BY <1>2, <1>3
<1> QED
  BY <1>4 DEF Max

(* Where the bytes go that a caller puts into the write buffers. *)
Filled(s) ==
  LET n == Len(s)
      room == m_baseSize - Npos
      cur == CurAfterGrowth(n)
      Offset(i) == IF i <= room THEN Npos + i - 1 ELSE (i - room - 1) % m_baseSize
      Hits(o) == {i \in 1..n : Offset(i) = o}
  IN [c \in 1..Len(Grown(n)) |->
        LET o == c - 1 - cur * m_baseSize
        IN IF o \in 0..m_baseSize - 1 /\ Hits(o) # {} THEN s[Max(Hits(o))] ELSE Grown(n)[c]]

LEMMA FilledIs ==
  ASSUME BaShape, BaWhole, CursorAgrees, ~strayed, NEW s \in Chunks(MaxChunk),
         m_position + Len(s) <= MaxBytes
  PROVE  /\ Filled(s) \in [1 .. Len(Grown(Len(s))) -> Cells]
         /\ Len(s) <= m_baseSize - Npos =>
              Filled(s) = [i \in 1 .. Len(Grown(Len(s))) |->
                             IF i \in m_position + 1 .. m_position + Len(s)
                               THEN s[i - m_position] ELSE Grown(Len(s))[i]]
<1> DEFINE n == Len(s)
           room == m_baseSize - Npos
           base == CurAfterGrowth(n) * m_baseSize
           Offset(i) == IF i <= room THEN Npos + i - 1 ELSE (i - room - 1) % m_baseSize
           Hits(o) == {i \in 1..n : Offset(i) = o}
           Cell(c) == IF c - 1 - base \in 0..m_baseSize - 1 /\ Hits(c - 1 - base) # {}
                        THEN s[Max(Hits(c - 1 - base))] ELSE Grown(n)[c]
<1>1. /\ n \in Nat /\ n > 0 /\ \A i \in 1 .. n : s[i] \in Cells
  <2>1. s \in Seq(Cells) /\ Len(s) \in 1 .. MaxChunk /\ MaxChunk \in Nat
    BY ChunkBytes, ByteArrayAssumption
  <2> QED
    BY <2>1, ElementOfSeq
<1>2. Grown(n) \in Seq(Cells) /\ Len(Grown(n)) \in Nat
  BY <1>1, BaGrowth
<1>3. /\ m_baseSize \in Nat \ {0} /\ Npos \in 0 .. m_baseSize - 1 /\ m_position \in Nat
  BY BaPlace DEF BaShape
<1>4. base \in Nat /\ m_position = base + Npos
  <2>1. /\ m_position = m_cur * m_baseSize + Npos /\ m_cur * m_baseSize \in Nat
        /\ GetCapacity = 0 => m_cur = Blocks
    BY BaAgreed, BaPlace
  <2>2. CurAfterGrowth(n) = m_cur
    BY <2>1 DEF CurAfterGrowth
  <2> QED
    BY <2>1, <2>2
<1>5. Filled(s) = [c \in 1 .. Len(Grown(n)) |-> Cell(c)]
  BY DEF Filled
<1> HIDE DEF n, base
<1>6. ASSUME NEW c \in 1 .. Len(Grown(n))
      PROVE  Cell(c) \in Cells
  <2> DEFINE H == Hits(c - 1 - base)
  <2>1. Grown(n)[c] \in Cells
    BY <1>2, <1>6, ElementOfSeq
  <2>2. ASSUME H # {}
        PROVE  s[Max(H)] \in Cells
    <3>1. H \in SUBSET (1 .. n)
      OBVIOUS
    <3> HIDE DEF H
    <3>2. Max(H) \in H
      BY <1>1, <2>2, <3>1, LastOfSome
    <3> QED
      BY <1>1, <3>1, <3>2
  <2>3. Cell(c) = IF c - 1 - base \in 0..m_baseSize - 1 /\ H # {} THEN s[Max(H)] ELSE Grown(n)[c]
    OBVIOUS
  <2> HIDE DEF H, Cell
  <2> QED
    BY <2>1, <2>2, <2>3
<1>7. ASSUME n <= room, NEW c \in 1 .. Len(Grown(n))
      PROVE  Cell(c) = IF c \in m_position + 1 .. m_position + n THEN s[c - m_position] ELSE Grown(n)[c]
  <2> DEFINE o == c - 1 - base
             H == Hits(o)
  <2>1. o \in Int /\ c \in Int
    BY <1>4, <1>7
  <2>2. \A i \in 1 .. n : Offset(i) = Npos + i - 1
    BY <1>1, <1>3, <1>7
  <2>3. H = {i \in 1 .. n : Npos + i - 1 = o}
    BY <2>2
  <2>4. Cell(c) = IF o \in 0..m_baseSize - 1 /\ H # {} THEN s[Max(H)] ELSE Grown(n)[c]
    OBVIOUS
  <2> HIDE DEF H, Cell, Offset, Hits
  <2>5. CASE c \in m_position + 1 .. m_position + n
    <3>1. c - m_position \in 1 .. n /\ Npos + (c - m_position) - 1 = o
      BY <1>1, <1>3, <1>4, <2>5
    <3>2. H = {c - m_position}
      BY <1>1, <1>3, <2>1, <2>3, <3>1
    <3>3. H \in SUBSET (1 .. n)
      BY <2>3
    <3>4. Max(H) = c - m_position
      BY <1>1, <3>2, <3>3, LastOfSome
    <3>5. o \in 0 .. m_baseSize - 1
      BY <1>1, <1>3, <1>4, <1>7, <2>5
    <3> HIDE DEF o
    <3> QED
      BY <2>4, <2>5, <3>2, <3>4, <3>5
  <2>6. CASE c \notin m_position + 1 .. m_position + n
    <3>1. H = {}
      <4> SUFFICES ASSUME NEW i \in 1 .. n, Npos + i - 1 = o PROVE FALSE
        BY <2>3
      <4>1. c = m_position + i
        BY <1>1, <1>3, <1>4, <2>1
      <4> QED
        BY <1>1, <1>3, <2>6, <4>1
    <3> HIDE DEF o
    <3> QED
      BY <2>4, <2>6, <3>1
  <2> QED
    BY <2>5, <2>6
<1> HIDE DEF Cell, room
<1>8. Filled(s) \in [1 .. Len(Grown(n)) -> Cells]
  BY <1>5, <1>6
<1>9. n <= room => Filled(s) = [c \in 1 .. Len(Grown(n)) |->
                     IF c \in m_position + 1 .. m_position + n THEN s[c - m_position] ELSE Grown(n)[c]]
  BY <1>5, <1>7
<1> QED
  BY <1>8, <1>9 DEF n, room

LEMMA FillKeeps ==
  ASSUME BaInv, ~crashed, ~ofs.open, left = 0, NEW s \in Chunks(MaxChunk), FillWriteBuffers(s)
  PROVE  /\ BaInv'
         /\ ~strayed' => /\ mem' = [i \in 1 .. Len(Grown(Len(s))) |->
                                     IF i \in m_position + 1 .. m_position + Len(s)
                                       THEN s[i - m_position] ELSE Grown(Len(s))[i]]
                         /\ m_position' = m_position + Len(s)
                         /\ op'.name = "fill" /\ op'.n = Len(s) /\ op'.out = s
                         /\ m_size' = IF m_position' > m_size THEN m_position' ELSE m_size
<1> DEFINE n == Len(s)
           G == Grown(n)
<1>1. BaShape /\ BaWhole /\ CursorAgrees
  BY DEF BaInv
<1>2. n \in Nat /\ n > 0
  BY ChunkBytes, ByteArrayAssumption
<1>3. /\ ~strayed /\ m_position + n <= MaxBytes
      /\ mem' = Filled(s)
      /\ m_position' = m_position + n
      /\ m_size' = (IF m_position + n > m_size THEN m_position + n ELSE m_size)
      /\ m_cur' = (m_position + n) \div m_baseSize
      /\ strayed' = (n > m_baseSize - Npos)
      /\ op' = [name |-> "fill", n |-> n, at |-> m_position, out |-> s]
      /\ UNCHANGED <<m_baseSize, left, ofs, crashed>>
  BY DEF FillWriteBuffers, Filled, BaOp, BaOpAt
<1>4. /\ G \in Seq(Cells) /\ Len(G) \in Nat /\ Len(G) <= MaxBytes + m_baseSize /\ Len(G) >= Len(mem)
      /\ \E k \in Nat \ {0} : Len(G) = k * m_baseSize
      /\ m_position <= Len(mem) => Len(G) >= m_position + n
  BY <1>1, <1>2, <1>3, BaGrowth
<1>5. /\ m_baseSize \in Nat \ {0} /\ Npos \in 0 .. m_baseSize - 1 /\ Len(mem) \in Nat
      /\ m_position \in Nat /\ m_size \in Nat /\ m_position <= Len(mem)
  <2>1. m_position <= m_size /\ m_size <= Len(mem)
    BY <1>1, <1>3, BaAgreed
  <2> QED
    BY <1>1, <2>1, BaPlace DEF BaShape
<1>6. /\ mem' \in Seq(Cells) /\ Len(mem') = Len(G)
      /\ n <= m_baseSize - Npos =>
           mem' = [i \in 1 .. Len(G) |->
                     IF i \in m_position + 1 .. m_position + n THEN s[i - m_position] ELSE G[i]]
  <2>1. /\ Filled(s) \in [1 .. Len(G) -> Cells]
        /\ n <= m_baseSize - Npos =>
              Filled(s) = [i \in 1 .. Len(G) |->
                     IF i \in m_position + 1 .. m_position + n THEN s[i - m_position] ELSE G[i]]
    BY <1>1, <1>3, FilledIs
  <2> HIDE DEF n, G
  <2>2. mem' \in [1 .. Len(G) -> Cells]
    BY <1>3, <2>1
  <2> QED
    BY <1>3, <1>4, <2>1, <2>2
<1> HIDE DEF n, G
<1>7. m_cur' \in Nat /\ m_position' \in Nat /\ m_size' \in Nat
  <2>1. m_position + n \in Nat
    BY <1>2, <1>5
  <2>2. (m_position + n) \div m_baseSize \in Nat
    BY <1>5, <2>1, DivNat
  <2>3. m_position' \in Nat /\ m_size' \in Nat
    BY <1>3, <1>5, <2>1
  <2> QED
    BY <1>3, <2>2, <2>3
<1>8. /\ op'.name = "fill" /\ op'.n = n /\ op'.at = m_position /\ op'.out = s
      /\ op' = [name |-> op'.name, n |-> op'.n, at |-> op'.at, out |-> op'.out]
  BY <1>3
<1>9. strayed' \in BOOLEAN
  <2>1. strayed' = (n > m_baseSize - Npos)
    BY <1>3
  <2>2. (n > m_baseSize - Npos) \in BOOLEAN
    BY <1>2, <1>5
  <2> QED
    BY <2>1, <2>2, Zenon
<1>10. BaShape'
  BY <1>1, <1>2, <1>3, <1>5, <1>6, <1>7, <1>8, <1>9 DEF BaShape
<1>11. BaWhole'
  BY <1>1, <1>3, <1>4, <1>6, BaWholeNext
<1>12. CursorAgrees'
  <2>1. Len(mem') \in Nat /\ Len(mem') >= m_position + n /\ Len(mem') >= Len(mem)
    BY <1>4, <1>5, <1>6
  <2> QED
    BY <1>1, <1>2, <1>3, <2>1, BaMoved
<1>13. BaMessage' /\ BaFile' /\ CrashesNamed'
  <2>1. op'.name # "writeFixSize"
    BY <1>8
  <2> QED
    BY <1>3, <2>1, BaQuiet
<1>14. ASSUME ~strayed'
       PROVE  n <= m_baseSize - Npos
  <2>1. ~ (n > m_baseSize - Npos)
    BY <1>3, <1>14, Zenon
  <2> QED
    BY <1>2, <1>5, <2>1
<1>15. m_size' = IF m_position' > m_size THEN m_position' ELSE m_size
  BY <1>3
<1>16. BaInv'
  BY <1>10, <1>11, <1>12, <1>13 DEF BaInv
<1> QED
  BY <1>3, <1>6, <1>8, <1>14, <1>15, <1>16 DEF n, G

(* The next piece of memory follows the pieces before it. *)
LEMMA NextPiece ==
  ASSUME mem \in Seq(Cells), NEW from \in Nat, NEW mid \in Nat, NEW n \in Nat,
         from <= mid, mid + n <= Len(mem)
  PROVE  SubSeq(mem, from + 1, mid) \o SubSeq(mem, mid + 1, mid + n) = SubSeq(mem, from + 1, mid + n)
<1>1. Len(mem) \in Nat
  BY LenProperties
<1>2. /\ from + 1 \in 1 .. Len(mem) + 1
      /\ mid \in from + 1 - 1 .. Len(mem)
      /\ mid + n \in mid .. Len(mem)
  BY <1>1
<1> QED
  BY <1>2, ConcatAdjacentSubSeq

LEMMA WriteFixSizeKeeps ==
  ASSUME BaInv, ~crashed, ~ofs.open, left = 0, NEW n \in Nat, WriteFixSize(n)
  PROVE  /\ BaInv' /\ UNCHANGED <<mem, m_position, m_size>>
         /\ op'.out = <<>> /\ op'.at = m_position /\ (~strayed => op'.name = "writeFixSize")
<1>1. BaShape /\ BaWhole /\ CursorAgrees
  BY DEF BaInv
<1>2. /\ left' = n
      /\ op' = [name |-> IF strayed THEN "sendAstray" ELSE "writeFixSize", n |-> n,
                at |-> m_position, out |-> <<>>]
      /\ UNCHANGED <<m_baseSize, m_position, m_size, m_cur, mem, strayed, ofs, crashed>>
  BY DEF WriteFixSize, BaOp, BaOpAt
<1>3. m_position \in Nat
  BY <1>1 DEF BaShape
<1>4. BaShape'
  BY <1>1, <1>2, <1>3 DEF BaShape
<1>5. BaWhole' /\ CursorAgrees' /\ CrashesNamed' /\ BaFile'
  BY <1>1, <1>2 DEF BaWhole, Blocks, m_capacity, CursorAgrees, CrashesNamed, BaFile
<1>6. BaMessage'
  <2>1. <<>> \in Seq(Cells)
    BY EmptySeq
  <2>2. SubSeq(mem, m_position + 1, m_position) = <<>>
    BY <1>3, SubSeqEmpty
  <2>3. /\ op'.out = <<>> /\ op'.at = m_position /\ op'.n = n /\ (op'.name = "writeFixSize" => ~strayed)
        /\ op'.name \in {"writeFixSize", "sendAstray"}
    BY <1>2
  <2> QED
    BY <1>2, <1>3, <2>1, <2>2, <2>3 DEF BaMessage
<1> QED
  BY <1>2, <1>4, <1>5, <1>6 DEF BaInv

LEMMA StreamWriteKeeps ==
  ASSUME BaInv, ~crashed, NEW rt \in Nat, StreamWrite(rt)
  PROVE  /\ BaInv'
         /\ ~strayed => /\ m_position + rt <= m_size /\ m_position' = m_position + rt
                        /\ op'.out = op.out \o SubSeq(mem, m_position + 1, m_position + rt)
                        /\ op.name \in {"writeFixSize", "sendAstray"}
                        /\ op'.name \in {op.name, "failed"} /\ op'.n = op.n /\ op'.at = op.at
                        /\ UNCHANGED <<mem, m_size>>
<1>1. BaShape /\ BaWhole /\ CursorAgrees /\ BaMessage /\ BaFile
  BY DEF BaInv
<1>2. /\ m_baseSize \in Nat \ {0} /\ Npos \in 0 .. m_baseSize - 1 /\ Len(mem) \in Nat
      /\ GetReadSize \in Nat /\ m_cur * m_baseSize \in Nat /\ Here \in Nat
      /\ m_position \in Nat /\ m_size \in Nat /\ m_cur \in Nat /\ left \in Nat
      /\ strayed \in BOOLEAN
      /\ \A k \in Nat : k < Blocks => k * m_baseSize + m_baseSize <= Len(mem)
      /\ Blocks \in Nat
  BY <1>1, BaPlace DEF BaShape, BaWhole
<1>3. PICK len \in Nat : /\ len = BufferLen(left)
                         /\ len <= left /\ len <= GetReadSize /\ len <= m_baseSize - Npos
  <2>1. m_baseSize - Npos \in Nat
    BY <1>2
  <2> QED
    BY <1>2, <2>1, LeastOfThree DEF BufferLen
<1>4. left > 0 /\ rt \in 0 .. len
  BY <1>3 DEF StreamWrite
<1>5. ~ofs.open
  BY <1>1, <1>4 DEF BaFile
<1>6. op.out \in Seq(Cells) /\ op.name \in {"writeFixSize", "sendAstray"}
  BY <1>1, <1>4 DEF BaMessage
<1>7. ASSUME ~strayed
      PROVE  /\ ~ (len > 0 /\ m_cur >= Blocks) /\ ~ (m_position + rt > m_capacity)
             /\ Here = m_position /\ m_position + rt <= m_size /\ m_size <= Len(mem)
  <2>1. /\ Here = m_position /\ m_position <= m_size /\ m_size <= Len(mem)
        /\ GetReadSize = m_size - m_position /\ ((m_cur >= Blocks) <=> (m_position = Len(mem)))
    BY <1>1, <1>7, BaAgreed
  <2>2. m_position + len <= m_size
    BY <1>2, <1>3, <2>1
  <2>3. ~ (len > 0 /\ m_cur >= Blocks)
    BY <1>2, <1>3, <2>1, <2>2
  <2> QED
    BY <1>2, <1>4, <2>1, <2>2, <2>3 DEF m_capacity
<1>8. CASE len > 0 /\ m_cur >= Blocks
  <2>1. Crash("send", rt, m_position) /\ strayed
    BY <1>3, <1>7, <1>8 DEF StreamWrite
  <2> QED
    BY <1>2, <2>1, BaCrash
<1>9. CASE ~ (len > 0 /\ m_cur >= Blocks) /\ m_position + rt > m_capacity
  <2>1. /\ op' = [name |-> "send", n |-> rt, at |-> m_position, out |-> Thrown] /\ left' = 0
        /\ UNCHANGED <<m_baseSize, m_position, m_size, m_cur, mem, strayed, ofs, crashed>>
    BY <1>3, <1>9 DEF StreamWrite, BaOp, BaOpAt
  <2>2. strayed
    BY <1>7, <1>9
  <2>3. BaShape'
    BY <1>1, <1>2, <2>1 DEF BaShape
  <2>4. BaWhole' /\ CursorAgrees'
    BY <1>1, <2>1 DEF BaWhole, Blocks, m_capacity, CursorAgrees
  <2>5. BaMessage' /\ BaFile' /\ CrashesNamed'
    <3>1. op'.name # "writeFixSize"
      BY <2>1
    <3> QED
      BY <1>5, <2>1, <3>1, BaQuiet
  <2> QED
    BY <2>2, <2>3, <2>4, <2>5 DEF BaInv
<1>10. CASE ~ (len > 0 /\ m_cur >= Blocks) /\ ~ (m_position + rt > m_capacity)
  <2> DEFINE piece == SubSeq(mem, Here + 1, Here + rt)
  <2>1. /\ op' = [op EXCEPT !.out = @ \o piece, !.name = IF rt = 0 THEN "failed" ELSE @]
        /\ left' = (IF rt = 0 THEN 0 ELSE left - rt)
        /\ IF rt > 0 THEN MovedTo(m_position + rt)
             ELSE UNCHANGED <<m_position, m_size, m_cur, strayed>>
        /\ UNCHANGED <<m_baseSize, mem, ofs, crashed>>
    BY <1>3, <1>10 DEF StreamWrite
  <2>2. piece \in Seq(Cells)
    <3>1. Here + rt <= Len(mem) \/ rt = 0
      <4> SUFFICES ASSUME rt # 0 PROVE Here + rt <= Len(mem)
        OBVIOUS
      <4>1. m_cur < Blocks
        BY <1>2, <1>4, <1>10
      <4>2. m_cur * m_baseSize + m_baseSize <= Len(mem)
        BY <1>2, <4>1
      <4>3. Here = m_cur * m_baseSize + Npos
        BY DEF Here
      <4> QED
        BY <1>2, <1>3, <1>4, <4>2, <4>3
    <3>2. \A i \in Here + 1 .. Here + rt : i \in 1 .. Len(mem)
      BY <1>2, <3>1
    <3>3. \A i \in Here + 1 .. Here + rt : mem[i] \in Cells
      BY <1>1, <3>2, ElementOfSeq DEF BaShape
    <3>4. Here + 1 \in Int /\ Here + rt \in Int
      BY <1>2
    <3> QED
      BY <3>3, <3>4, SubSeqProperties
  <2> HIDE DEF piece
  <2>3. op' = [name |-> IF rt = 0 THEN "failed" ELSE op.name, n |-> op.n, at |-> op.at,
               out |-> op.out \o piece]
        /\ op.n \in Nat /\ op.at \in Nat
    BY <1>1, <2>1 DEF BaShape
  <2>4. op.out \o piece \in Seq(Cells)
    BY <1>6, <2>2, ConcatProperties
  <2>5. /\ m_position' \in Nat /\ m_size' \in Nat /\ m_cur' \in Nat /\ strayed' \in BOOLEAN
        /\ CursorAgrees' /\ (~strayed => ~strayed')
        /\ m_position' = m_position + rt
    <3>1. CASE rt > 0
      <4>1. MovedTo(m_position + rt) /\ m_position + rt \in Nat /\ m_position + rt <= Len(mem)
        BY <1>2, <1>10, <2>1, <3>1 DEF m_capacity
      <4>2. /\ m_position' \in Nat /\ m_size' \in Nat /\ m_cur' \in Nat /\ strayed' \in BOOLEAN
            /\ CursorAgrees' /\ (~strayed => ~strayed')
        BY <1>1, <2>1, <4>1, MovedAgrees
      <4>3. m_position' = m_position + rt
        BY <4>1 DEF MovedTo
      <4> QED
        BY <4>2, <4>3
    <3>2. CASE rt = 0
      <4>1. UNCHANGED <<m_position, m_size, m_cur, strayed, m_baseSize, mem>>
        BY <2>1, <3>2
      <4>2. CursorAgrees'
        BY <1>1, <4>1 DEF CursorAgrees, m_capacity
      <4>3. m_position' = m_position + rt
        BY <1>2, <3>2, <4>1
      <4> QED
        BY <1>2, <4>1, <4>2, <4>3
    <3> QED
      BY <3>1, <3>2
  <2>6. left' \in Nat /\ (left' > 0 => left' = left - rt)
    BY <1>2, <1>3, <1>4, <2>1, SMTT(30)
  <2>7. BaShape'
    BY <1>1, <2>1, <2>3, <2>5, <2>6 DEF BaShape
  <2>8. BaWhole'
    BY <1>1, <2>1 DEF BaWhole, Blocks, m_capacity
  <2>9. CrashesNamed' /\ BaFile'
    BY <1>5, <2>1 DEF CrashesNamed, BaFile
  <2>10. ~strayed => /\ m_position + rt <= m_size /\ m_position + rt <= Len(mem)
                     /\ piece = SubSeq(mem, m_position + 1, m_position + rt)
                     /\ m_size' = m_size
    <3> SUFFICES ASSUME ~strayed
                 PROVE  /\ m_position + rt <= m_size /\ m_position + rt <= Len(mem)
                        /\ piece = SubSeq(mem, m_position + 1, m_position + rt)
                        /\ m_size' = m_size
      OBVIOUS
    <3>1. Here = m_position /\ m_position + rt <= m_size /\ m_size <= Len(mem)
      BY <1>7
    <3>2. m_position + rt <= Len(mem)
      BY <1>2, <3>1
    <3>3. m_size' = m_size
      <4>1. CASE rt > 0
        <5>1. MovedTo(m_position + rt)
          BY <2>1, <4>1
        <5> QED
          BY <1>2, <3>1, <5>1 DEF MovedTo
      <4>2. CASE rt = 0
        BY <2>1, <4>2
      <4> QED
        BY <4>1, <4>2
    <3> QED
      BY <3>1, <3>2, <3>3 DEF piece
  <2>11. BaMessage'
    <3>1. op'.out \in Seq(Cells) /\ (left' > 0 => op'.name \in {"writeFixSize", "sendAstray"})
      BY <1>6, <2>1, <2>3, <2>4
    <3>2. ASSUME op'.name = "writeFixSize"
          PROVE  /\ ~strayed' /\ op'.at <= m_position'
                 /\ op'.out = SubSeq(mem', op'.at + 1, m_position')
                 /\ m_position' + left' = op'.at + op'.n
      <4>1. rt > 0 /\ op.name = "writeFixSize" /\ op'.at = op.at /\ op'.n = op.n
            /\ op'.out = op.out \o piece
        BY <1>4, <2>3, <3>2
      <4>2. /\ ~strayed /\ op.at <= m_position /\ op.out = SubSeq(mem, op.at + 1, m_position)
            /\ m_position + left = op.at + op.n
        BY <1>1, <4>1 DEF BaMessage
      <4>3. /\ m_position + rt <= Len(mem)
            /\ piece = SubSeq(mem, m_position + 1, m_position + rt)
        BY <2>10, <4>2
      <4>4. SubSeq(mem, op.at + 1, m_position) \o SubSeq(mem, m_position + 1, m_position + rt)
              = SubSeq(mem, op.at + 1, m_position + rt)
        <5>1. mem \in Seq(Cells) /\ op.at \in Nat /\ m_position \in Nat
          BY <1>1 DEF BaShape
        <5>2. op.at <= m_position /\ m_position + rt <= Len(mem)
          BY <4>2, <4>3
        <5> QED
          BY <5>1, <5>2, NextPiece
      <4>5. op'.out = SubSeq(mem', op'.at + 1, m_position')
        BY <2>1, <2>5, <4>1, <4>2, <4>3, <4>4
      <4>6. left' = left - rt
        BY <2>1, <4>1
      <4>7. op'.at <= m_position' /\ m_position' + left' = op'.at + op'.n
        BY <1>2, <2>3, <2>5, <4>1, <4>2, <4>6
      <4> QED
        BY <2>5, <4>2, <4>5, <4>7
    <3> QED
      BY <3>1, <3>2 DEF BaMessage
  <2>12. BaInv'
    BY <2>5, <2>7, <2>8, <2>9, <2>11 DEF BaInv
  <2>13. /\ op'.out = op.out \o piece /\ op'.name \in {op.name, "failed"}
         /\ op'.n = op.n /\ op'.at = op.at
    BY <2>3
  <2> QED
    BY <1>6, <2>1, <2>5, <2>10, <2>12, <2>13
<1> QED
  BY <1>8, <1>9, <1>10

(* writeToFile, whose rounds come one by one. *)
LEMMA WriteToFileKeeps ==
  ASSUME BaInv, ~crashed, ~ofs.open, left = 0, WriteToFile
  PROVE  BaInv' /\ UNCHANGED <<m_baseSize, m_position, m_size, m_cur, mem, op, strayed, crashed>>
<1>1. BaShape /\ BaWhole /\ CursorAgrees /\ BaMessage /\ CrashesNamed
  BY DEF BaInv
<1>2. /\ ~strayed
      /\ ofs' = [open |-> TRUE, pos |-> m_position, block |-> m_cur, rest |-> GetReadSize, out |-> <<>>]
      /\ UNCHANGED <<m_baseSize, m_position, m_size, m_cur, mem, op, left, strayed, crashed>>
  BY DEF WriteToFile
<1>3. /\ m_baseSize \in Nat \ {0} /\ Npos \in 0 .. m_baseSize - 1 /\ Len(mem) \in Nat
      /\ m_position \in Nat /\ m_size \in Nat /\ m_cur \in Nat /\ m_cur * m_baseSize \in Nat
      /\ GetReadSize \in Nat
  BY <1>1, BaPlace DEF BaShape
<1>4. /\ m_position = m_cur * m_baseSize + Npos /\ m_position <= m_size
      /\ GetReadSize = m_size - m_position
  BY <1>1, <1>2, BaAgreed
<1>5. BaShape'
  BY <1>1, <1>2, <1>3 DEF BaShape
<1>6. BaWhole' /\ CursorAgrees' /\ CrashesNamed' /\ BaMessage'
  BY <1>1, <1>2 DEF BaWhole, Blocks, m_capacity, CursorAgrees, CrashesNamed, BaMessage
<1>7. BaFile'
  <2>1. /\ ofs'.pos = m_position /\ ofs'.block = m_cur /\ ofs'.rest = GetReadSize /\ ofs'.out = <<>>
    BY <1>2
  <2>2. Npos' = Npos /\ GetReadSize' = GetReadSize
    BY <1>2 DEF Npos, GetReadSize, Sub
  <2>3. SubSeq(mem, m_position + 1, m_position) = <<>>
    BY <1>3, SubSeqEmpty
  <2>4. ofs'.pos + ofs'.rest = m_size
    BY <1>3, <1>4, <2>1
  <2>5. \/ ofs'.pos = ofs'.block * m_baseSize
        \/ ofs'.pos = m_position /\ ofs'.block = m_cur /\ Npos # 0
    BY <1>3, <1>4, <2>1
  <2> HIDE DEF Npos, GetReadSize
  <2> QED
    BY <1>2, <1>3, <2>1, <2>2, <2>3, <2>4, <2>5 DEF BaFile
<1> QED
  BY <1>2, <1>5, <1>6, <1>7 DEF BaInv

LEMMA FileRoundKeeps ==
  ASSUME BaInv, ~crashed, FileRound
  PROVE  /\ BaInv'
         /\ UNCHANGED <<mem, m_baseSize, m_position, m_size, m_cur, strayed>>
         /\ \/ ofs.rest > 0 /\ UNCHANGED <<op, crashed>>
            \/ crashed'
            \/ /\ op'.name = "writeToFile"
               /\ Npos = 0 \/ GetReadSize > m_baseSize => op'.out = SubSeq(mem, m_position + 1, m_size)
<1> DEFINE diff == ofs.pos % m_baseSize
           len == (IF ofs.rest > m_baseSize THEN m_baseSize ELSE ofs.rest) - diff
           from == ofs.block * m_baseSize + diff
<1>1. BaShape /\ BaWhole /\ CursorAgrees /\ BaMessage /\ CrashesNamed /\ BaFile
  BY DEF BaInv
<1>2. ofs.open /\ ~strayed /\ left = 0 /\ ofs.pos \in Int /\ ofs.block \in Nat /\ ofs.rest \in Int
  BY <1>1 DEF FileRound, BaFile
<1>3. /\ m_baseSize \in Nat \ {0} /\ Npos \in 0 .. m_baseSize - 1 /\ Len(mem) \in Nat
      /\ m_position \in Nat /\ m_size \in Nat /\ m_cur \in Nat /\ m_cur * m_baseSize \in Nat
      /\ GetReadSize \in Nat /\ mem \in Seq(Cells) /\ Blocks \in Nat
      /\ \A k \in Nat : Blocks <= k => k * m_baseSize >= Len(mem)
  BY <1>1, BaPlace DEF BaShape, BaWhole
<1>4. /\ m_position = m_cur * m_baseSize + Npos /\ m_position <= m_size /\ m_size <= Len(mem)
      /\ GetReadSize = m_size - m_position
  BY <1>1, <1>2, BaAgreed
<1> DEFINE whole == Npos = 0 \/ GetReadSize > m_baseSize
<1>5. ASSUME whole
      PROVE  /\ ofs.rest >= 0 /\ m_position <= ofs.pos /\ ofs.pos + ofs.rest = m_size
             /\ ofs.out = SubSeq(mem, m_position + 1, ofs.pos)
             /\ ofs.rest > 0 => \/ ofs.pos = ofs.block * m_baseSize
                                \/ /\ ofs.pos = m_position /\ ofs.block = m_cur
                                   /\ ofs.rest > m_baseSize
  BY <1>1, <1>2, <1>5 DEF BaFile
<1>6. ASSUME UNCHANGED <<m_baseSize, m_position, m_size>>
      PROVE  whole' <=> whole
  BY <1>6 DEF Npos, GetReadSize, Sub
<1>7. CASE ofs.rest <= 0
  <2>1. /\ op' = [name |-> "writeToFile", n |-> GetReadSize, at |-> m_position, out |-> ofs.out]
        /\ ofs' = NoOfs
        /\ UNCHANGED <<m_baseSize, m_position, m_size, m_cur, mem, left, strayed, crashed>>
    BY <1>7 DEF FileRound, BaOp, BaOpAt
  <2>2. op'.name = "writeToFile" /\ op'.out = ofs.out
    BY <2>1
  <2>3. whole => ofs.out = SubSeq(mem, m_position + 1, m_size)
    <3> HIDE DEF whole
    <3> QED
      BY <1>2, <1>3, <1>5, <1>7
  <2>4. BaShape'
    BY <1>1, <1>3, <2>1 DEF BaShape, NoOfs
  <2>5. BaWhole' /\ CursorAgrees' /\ CrashesNamed'
    BY <1>1, <2>1 DEF BaWhole, Blocks, m_capacity, CursorAgrees, CrashesNamed
  <2>6. BaMessage' /\ BaFile'
    BY <1>2, <2>1, <2>2 DEF BaMessage, BaFile, NoOfs
  <2> HIDE DEF whole
  <2>7. BaInv'
    BY <2>4, <2>5, <2>6 DEF BaInv
  <2> QED
    BY <2>1, <2>2, <2>3, <2>7 DEF whole
<1>8. CASE ofs.rest > 0 /\ ofs.block >= Blocks
  <2>1. Crash("writeToFile", GetReadSize, m_position)
    BY <1>2, <1>8 DEF FileRound
  <2>2. ~whole
    <3> HIDE DEF whole
    <3> SUFFICES ASSUME whole PROVE FALSE
      OBVIOUS
    <3>1. ofs.pos < m_size
      BY <1>2, <1>3, <1>5, <1>8, SMTT(30)
    <3>2. ofs.block * m_baseSize >= Len(mem)
      BY <1>2, <1>3, <1>8
    <3>3. ofs.pos # ofs.block * m_baseSize
      BY <1>2, <1>3, <1>4, <3>1, <3>2
    <3>4. ofs.pos = m_position /\ ofs.block = m_cur
      BY <1>5, <1>8, <3>3
    <3> QED
      BY <1>3, <1>4, <3>1, <3>2, <3>4
  <2>3. FilePart'
    <3>1. op'.name = "writeToFile" /\ UNCHANGED <<m_baseSize, m_position, m_size>>
      BY <2>1 DEF Crash, BaOpAt
    <3>2. Npos' = Npos /\ GetReadSize' = GetReadSize /\ m_baseSize' = m_baseSize
      BY <3>1 DEF Npos, GetReadSize, Sub
    <3>3. Npos > 0 /\ GetReadSize <= m_baseSize
      BY <1>3, <2>2
    <3> QED
      BY <3>1, <3>2, <3>3 DEF FilePart
  <2>4. BaInv'
    BY <1>3, <2>1, <2>3, BaCrash
  <2> QED
    BY <2>1, <2>4 DEF Crash
<1>9. CASE ofs.rest > 0 /\ ~ (ofs.block >= Blocks)
  <2>1. /\ ofs' = [open |-> TRUE, pos |-> ofs.pos + len, block |-> ofs.block + 1, rest |-> ofs.rest - len,
                   out |-> ofs.out \o SubSeq(mem, from + 1, from + len)]
        /\ UNCHANGED <<m_baseSize, m_position, m_size, m_cur, mem, op, left, strayed, crashed>>
    <3>1. ~ (ofs.rest <= 0) /\ ~ (ofs.block >= Blocks)
      BY <1>2, <1>9
    <3> QED
      BY <3>1, Zenon DEF FileRound
  <2>2. BaShape'
    BY <1>1, <2>1 DEF BaShape
  <2>3. BaWhole' /\ CursorAgrees' /\ CrashesNamed' /\ BaMessage'
    BY <1>1, <2>1 DEF BaWhole, Blocks, m_capacity, CursorAgrees, CrashesNamed, BaMessage
  <2>4. diff \in Int /\ len \in Int
    <3>1. diff \in Int
      BY <1>2, <1>3
    <3> HIDE DEF diff
    <3> QED
      BY <1>2, <1>3, <3>1
  <2> HIDE DEF diff
  <2>5. ASSUME whole
        PROVE  /\ from = ofs.pos /\ len \in Nat /\ len <= ofs.rest
               /\ ofs.rest - len > 0 => ofs.pos + len = (ofs.block + 1) * m_baseSize
    <3> HIDE DEF whole
    <3>1. ofs.block * m_baseSize \in Nat /\ (ofs.block + 1) * m_baseSize = ofs.block * m_baseSize + m_baseSize
      BY <1>2, <1>3
    <3>2. CASE ofs.pos = ofs.block * m_baseSize
      <4>1. ofs.pos = ofs.block * m_baseSize + 0 /\ 0 \in 0 .. m_baseSize - 1
        BY <1>3, <3>1, <3>2
      <4>2. diff = 0
        BY <1>2, <1>3, <4>1, DivUnique DEF diff
      <4> QED
        BY <1>2, <1>3, <1>9, <3>1, <3>2, <4>2
    <3>3. CASE /\ ofs.pos = m_position /\ ofs.block = m_cur
               /\ ofs.rest > m_baseSize
      <4>1. diff = Npos
        BY <3>3 DEF diff, Npos
      <4>2. from = m_position /\ len = m_baseSize - Npos
        BY <1>3, <1>4, <3>3, <4>1
      <4> HIDE DEF len, from
      <4> QED
        BY <1>2, <1>3, <1>4, <3>1, <3>3, <4>2
    <3> QED
      BY <1>5, <1>9, <2>5, <3>2, <3>3
  <2> HIDE DEF len, from
  <2>6. BaFile'
    <3>1. /\ ofs'.open /\ ofs'.pos = ofs.pos + len /\ ofs'.block = ofs.block + 1
          /\ ofs'.rest = ofs.rest - len
          /\ ofs'.out = ofs.out \o SubSeq(mem, from + 1, from + len)
      BY <2>1
    <3>2. ofs'.pos \in Int /\ ofs'.block \in Nat /\ ofs'.rest \in Int
      BY <1>2, <2>4, <3>1
    <3>3. ASSUME whole
          PROVE  /\ ofs'.rest >= 0 /\ m_position <= ofs'.pos /\ ofs'.pos + ofs'.rest = m_size
                 /\ ofs'.out = SubSeq(mem, m_position + 1, ofs'.pos)
                 /\ ofs'.rest > 0 => ofs'.pos = ofs'.block * m_baseSize
      <4> HIDE DEF whole
      <4>1. /\ from = ofs.pos /\ len \in Nat /\ len <= ofs.rest
            /\ ofs.rest - len > 0 => ofs.pos + len = (ofs.block + 1) * m_baseSize
        BY <2>5, <3>3
      <4>2. /\ ofs.rest >= 0 /\ m_position <= ofs.pos /\ ofs.pos + ofs.rest = m_size
            /\ ofs.out = SubSeq(mem, m_position + 1, ofs.pos)
        BY <1>5, <3>3
      <4>3. ofs.pos \in Nat /\ ofs.pos + len <= Len(mem)
        BY <1>2, <1>3, <1>4, <4>1, <4>2
      <4>4. SubSeq(mem, m_position + 1, ofs.pos) \o SubSeq(mem, ofs.pos + 1, ofs.pos + len)
              = SubSeq(mem, m_position + 1, ofs.pos + len)
        <5>1. PICK p \in Nat, k \in Nat : p = ofs.pos /\ k = len
          BY <4>1, <4>3
        <5>2. m_position <= p /\ p + k <= Len(mem)
          BY <4>2, <4>3, <5>1
        <5>3. SubSeq(mem, m_position + 1, p) \o SubSeq(mem, p + 1, p + k)
                = SubSeq(mem, m_position + 1, p + k)
          BY <1>3, <5>2, NextPiece
        <5> QED
          BY <5>1, <5>3
      <4>5. ofs'.out = SubSeq(mem, m_position + 1, ofs'.pos)
        BY <3>1, <4>1, <4>2, <4>4
      <4>6. ofs'.rest >= 0 /\ m_position <= ofs'.pos /\ ofs'.pos + ofs'.rest = m_size
        <5>1. PICK k \in Nat, p \in Int, r \in Int : k = len /\ p = ofs.pos /\ r = ofs.rest
          BY <1>2, <4>1
        <5>2. r - k >= 0 /\ m_position <= p + k /\ (p + k) + (r - k) = m_size
          <6>1. k <= r /\ m_position <= p /\ p + r = m_size
            BY <4>1, <4>2, <5>1
          <6>2. m_position \in Nat /\ m_size \in Nat
            BY <1>3
          <6> QED
            BY <6>1, <6>2
        <5> QED
          BY <3>1, <5>1, <5>2
      <4>7. ofs'.rest > 0 => ofs'.pos = ofs'.block * m_baseSize
        BY <3>1, <4>1
      <4> QED
        BY <4>5, <4>6, <4>7
    <3>4. whole' <=> whole
      BY <1>6, <2>1
    <3>5. whole' => /\ ofs'.rest >= 0 /\ m_position' <= ofs'.pos /\ ofs'.pos + ofs'.rest = m_size'
                    /\ ofs'.out = SubSeq(mem', m_position' + 1, ofs'.pos)
                    /\ ofs'.rest > 0 => ofs'.pos = ofs'.block * m_baseSize'
      <4> HIDE DEF whole
      <4>1. UNCHANGED <<m_baseSize, m_position, m_size, mem>>
        BY <2>1
      <4> QED
        BY <3>3, <3>4, <4>1
    <3>6. ~strayed' /\ left' = 0
      BY <1>2, <2>1
    <3> QED
      BY <3>2, <3>5, <3>6 DEF BaFile
  <2>7. BaInv'
    BY <2>2, <2>3, <2>6 DEF BaInv
  <2> QED
    BY <1>9, <2>1, <2>7
<1> QED
  BY <1>2, <1>7, <1>8, <1>9

-----------------------------------------------------------------------------
LEMMA BaInitInv == BaInit => BaInv
<1> SUFFICES ASSUME BaInit PROVE BaInv
  OBVIOUS
<1>1. /\ m_baseSize \in BaseSizes /\ m_position = 0 /\ m_size = 0 /\ m_cur = 0 /\ left = 0
      /\ mem = [i \in 1..m_baseSize |-> Raw]
      /\ op = [name |-> "new", n |-> 0, at |-> 0, out |-> <<>>]
      /\ ofs = NoOfs /\ strayed = FALSE /\ crashed = FALSE
  BY DEF BaInit
<1>2. m_baseSize \in Nat \ {0} /\ MaxBytes \in Nat
  BY <1>1, ByteArrayAssumption
<1>3. mem \in Seq(Cells) /\ Len(mem) = m_baseSize
  <2>1. mem \in [1 .. m_baseSize -> Cells]
    BY <1>1 DEF Cells
  <2> QED
    BY <1>2, <2>1
<1>4. BaShape
  BY <1>1, <1>3 DEF BaShape, NoOfs
<1>5. BaWhole
  <2>1. m_baseSize = 1 * m_baseSize + 0 /\ 0 \in 0 .. m_baseSize - 1 /\ 1 * m_baseSize = m_baseSize
    BY <1>2
  <2>2. (1 * m_baseSize + 0) \div m_baseSize = 1
    BY <1>2, DivUnique
  <2>3. Blocks = 1
    BY <1>3, <2>1, <2>2 DEF Blocks, m_capacity
  <2> QED
    BY <1>2, <1>3, <2>1, <2>3 DEF BaWhole
<1>6. CursorAgrees
  <2>1. 0 = 0 \div m_baseSize
    BY <1>2
  <2> QED
    BY <1>1, <1>2, <1>3, <2>1 DEF CursorAgrees, m_capacity
<1>7. CrashesNamed /\ BaMessage /\ BaFile
  BY <1>1 DEF CrashesNamed, BaMessage, BaFile, NoOfs
<1> QED
  BY <1>4, <1>5, <1>6, <1>7 DEF BaInv

(* The steps of BaNext, one for each call. *)
LEMMA BaSteps ==
  ASSUME BaNext
  PROVE  /\ ~crashed
         /\ \/ \E rt \in 0 .. MaxChunk : StreamWrite(rt)
            \/ FileRound
            \/ /\ left = 0 /\ ~ofs.open
               /\ \/ \E s \in Chunks(MaxChunk) : Write(s)
                  \/ \E s \in Chunks(MaxChunk) : FillWriteBuffers(s)
                  \/ \E n \in 0 .. MaxChunk : Read(n)
                  \/ \E n \in 1 .. MaxChunk, p \in 0 .. MaxBytes : ReadFrom("readAt", n, p)
                  \/ ToStr
                  \/ \E v \in 0 .. MaxBytes : SetPosition(v)
                  \/ BaClear
                  \/ \E n \in 1 .. MaxChunk : WriteFixSize(n)
                  \/ WriteToFile
BY DEF BaNext

LEMMA BaStepInv == BaInv /\ [BaNext]_baVars => BaInv'
<1> SUFFICES ASSUME BaInv, [BaNext]_baVars PROVE BaInv'
  OBVIOUS
<1>1. MaxChunk \in Nat /\ MaxBytes \in Nat
  BY ByteArrayAssumption
<1>2. CASE UNCHANGED baVars
  <2>1. UNCHANGED <<m_baseSize, m_position, m_size, m_cur, mem, op, left, ofs, strayed, crashed>>
    BY <1>2 DEF baVars
  <2>2. BaShape' /\ BaWhole' /\ CursorAgrees' /\ BaMessage'
    BY <2>1 DEF BaInv, BaShape, BaWhole, Blocks, m_capacity, CursorAgrees, BaMessage
  <2>3. CrashesNamed'
    BY <2>1 DEF BaInv, CrashesNamed, FarRead, FilePart, ReadNothing, Npos, GetReadSize, Sub, m_capacity
  <2>4. BaFile'
    BY <2>1 DEF BaInv, BaFile, Npos, GetReadSize, Sub
  <2> QED
    BY <2>2, <2>3, <2>4 DEF BaInv
<1>3. CASE BaNext
  <2>1. ~crashed
    BY <1>3, BaSteps
  <2>2. ASSUME NEW rt \in 0 .. MaxChunk, StreamWrite(rt) PROVE BaInv'
    BY <1>1, <2>1, <2>2, StreamWriteKeeps
  <2>3. CASE FileRound
    BY <2>1, <2>3, FileRoundKeeps
  <2>4. CASE left = 0 /\ ~ofs.open
    <3> USE <2>1, <2>4
    <3>1. ASSUME NEW s \in Chunks(MaxChunk), Write(s) PROVE BaInv'
      BY <3>1, WriteKeeps
    <3>2. ASSUME NEW s \in Chunks(MaxChunk), FillWriteBuffers(s) PROVE BaInv'
      BY <3>2, FillKeeps
    <3>3. ASSUME NEW n \in 0 .. MaxChunk, Read(n) PROVE BaInv'
      BY <1>1, <3>3, ReadKeeps
    <3>4. ASSUME NEW n \in 1 .. MaxChunk, NEW p \in 0 .. MaxBytes, ReadFrom("readAt", n, p) PROVE BaInv'
      BY <1>1, <3>4, ReadFromKeeps
    <3>5. CASE ToStr
      <4>1. GetReadSize \in Nat \ {0} /\ m_position \in Nat /\ ReadFrom("toString", GetReadSize, m_position)
        BY <1>1, <3>5 DEF ToStr, BaInv, BaShape
      <4> QED
        BY <4>1, ReadFromKeeps
    <3>6. ASSUME NEW v \in 0 .. MaxBytes, SetPosition(v) PROVE BaInv'
      BY <1>1, <3>6, SetPositionKeeps
    <3>7. CASE BaClear
      BY <3>7, BaClearKeeps
    <3>8. ASSUME NEW n \in 1 .. MaxChunk, WriteFixSize(n) PROVE BaInv'
      BY <1>1, <3>8, WriteFixSizeKeeps
    <3>9. CASE WriteToFile
      BY <3>9, WriteToFileKeeps
    <3>10. \/ \E s \in Chunks(MaxChunk) : Write(s)
           \/ \E s \in Chunks(MaxChunk) : FillWriteBuffers(s)
           \/ \E n \in 0 .. MaxChunk : Read(n)
           \/ \E n \in 1 .. MaxChunk, p \in 0 .. MaxBytes : ReadFrom("readAt", n, p)
           \/ ToStr
           \/ \E v \in 0 .. MaxBytes : SetPosition(v)
           \/ BaClear
           \/ \E n \in 1 .. MaxChunk : WriteFixSize(n)
           \/ WriteToFile
           \/ \E rt \in 0 .. MaxChunk : StreamWrite(rt)
           \/ FileRound
      BY <1>3, BaSteps
    <3> QED
      BY <2>2, <2>3, <3>1, <3>2, <3>3, <3>4, <3>5, <3>6, <3>7, <3>8, <3>9, <3>10
  <2> QED
    BY <1>3, <2>2, <2>3, <2>4, BaSteps
<1> QED
  BY <1>2, <1>3

LEMMA BaAlways == BaSpec => []BaInv
BY BaInitInv, BaStepInv, PTL DEF BaSpec

(* As long as no read crossed a block boundary from inside a block and no writer filled
   several buffers, m_cur is the block of m_position and both ends lie within the blocks;
   and the null pointer behind the last block is followed in three named cases only. *)
THEOREM CursorCorrect == BaSpec => []CursorSound
<1>1. BaInv => CursorSound
  BY DEF BaInv, CursorSound
<1> QED
  BY <1>1, BaAlways, PTL

(* writeFixSize, begun with a cursor that agrees, sends the bytes it was asked for, once
   each and in order, over every way the buffers and the socket cut them. *)
THEOREM MessageSentCorrect == BaSpec => []WholeMessageSent
<1>1. BaInv => WholeMessageSent
  <2> SUFFICES ASSUME BaInv, op.name = "writeFixSize", left = 0, ~strayed
               PROVE  /\ op.out = SubSeq(mem, op.at + 1, op.at + op.n)
                      /\ m_position = op.at + op.n
    BY DEF WholeMessageSent
  <2>1. m_position + left = op.at + op.n /\ op.out = SubSeq(mem, op.at + 1, m_position)
    BY DEF BaInv, BaMessage
  <2>2. m_position \in Nat /\ op.at \in Nat /\ op.n \in Nat
    BY DEF BaInv, BaShape
  <2>3. m_position = op.at + op.n
    BY <2>1, <2>2
  <2> QED
    BY <2>1, <2>3
<1> QED
  BY <1>1, BaAlways, PTL

-----------------------------------------------------------------------------
(* The plain sequence of bytes behind the blocks. *)
Data == SubSeq(mem, 1, Min({m_size, m_capacity}))
Trusted == ~strayed /\ ~crashed
Excused == FarRead \/ FilePart

LEMMA FrontOf ==
  ASSUME NEW m \in Seq(Cells), NEW k \in Nat, k <= Len(m)
  PROVE  /\ SubSeq(m, 1, Min({k, Len(m)})) = SubSeq(m, 1, k)
         /\ SubSeq(m, 1, k) \in Seq(Cells) /\ Len(SubSeq(m, 1, k)) = k
         /\ \A i \in 1 .. k : SubSeq(m, 1, k)[i] = m[i]
<1>1. Len(m) \in Nat
  BY LenProperties
<1>2. Min({k, Len(m)}) = k
  <2>1. \A y \in {k, Len(m)} : k <= y
    BY <1>1
  <2>2. /\ Min({k, Len(m)}) \in {k, Len(m)}
        /\ \A y \in {k, Len(m)} : Min({k, Len(m)}) <= y
    BY <2>1 DEF Min
  <2>3. Min({k, Len(m)}) <= k /\ k <= Min({k, Len(m)}) /\ Min({k, Len(m)}) \in Nat
    BY <1>1, <2>1, <2>2
  <2> QED
    BY <2>3
<1>3. \A i \in 1 .. k : m[i] \in Cells
  BY <1>1, ElementOfSeq
<1>4. /\ SubSeq(m, 1, k) \in Seq(Cells)
      /\ Len(SubSeq(m, 1, k)) = (IF 1 <= k THEN k - 1 + 1 ELSE 0)
      /\ \A i \in 1 .. k - 1 + 1 : SubSeq(m, 1, k)[i] = m[1 + i - 1]
  BY <1>3, SubSeqProperties
<1>5. \A i \in 1 .. k : SubSeq(m, 1, k)[i] = m[i]
  <2> SUFFICES ASSUME NEW i \in 1 .. k PROVE SubSeq(m, 1, k)[i] = m[i]
    OBVIOUS
  <2>1. i \in 1 .. k - 1 + 1 /\ 1 + i - 1 = i
    OBVIOUS
  <2> QED
    BY <1>4, <2>1
<1>6. Len(SubSeq(m, 1, k)) = k
  BY <1>4
<1> QED
  BY <1>2, <1>4, <1>5, <1>6

(* A slice of the bytes is a slice of the memory. *)
LEMMA SliceOfFront ==
  ASSUME NEW m \in Seq(Cells), NEW k \in Nat, k <= Len(m), NEW p \in Nat, NEW n \in Nat, p + n <= k
  PROVE  SubSeq(SubSeq(m, 1, k), p + 1, p + n) = SubSeq(m, p + 1, p + n)
<1> DEFINE f == SubSeq(m, 1, k)
<1>1. /\ f \in Seq(Cells) /\ Len(f) = k /\ \A i \in 1 .. k : f[i] = m[i]
      /\ \A i \in 1 .. k : f[i] \in Cells
  <2>1. f \in Seq(Cells) /\ Len(f) = k /\ \A i \in 1 .. k : f[i] = m[i]
    BY FrontOf
  <2> QED
    BY <2>1, ElementOfSeq
<1> HIDE DEF f
<1>2. \A i \in p + 1 .. p + n : i \in 1 .. k /\ f[i] \in Cells /\ m[i] \in Cells
  BY <1>1
<1>3. p + 1 \in Int /\ p + n \in Int
  OBVIOUS
<1>4. /\ SubSeq(f, p + 1, p + n) \in Seq(Cells)
      /\ Len(SubSeq(f, p + 1, p + n)) = (IF p + 1 <= p + n THEN p + n - (p + 1) + 1 ELSE 0)
      /\ \A i \in 1 .. p + n - (p + 1) + 1 : SubSeq(f, p + 1, p + n)[i] = f[p + 1 + i - 1]
  BY <1>2, <1>3, SubSeqProperties
<1>5. /\ SubSeq(m, p + 1, p + n) \in Seq(Cells)
      /\ Len(SubSeq(m, p + 1, p + n)) = (IF p + 1 <= p + n THEN p + n - (p + 1) + 1 ELSE 0)
      /\ \A i \in 1 .. p + n - (p + 1) + 1 : SubSeq(m, p + 1, p + n)[i] = m[p + 1 + i - 1]
  BY <1>2, <1>3, SubSeqProperties
<1>6. Len(SubSeq(f, p + 1, p + n)) = n /\ Len(SubSeq(m, p + 1, p + n)) = n
  BY <1>4, <1>5
<1>7. ASSUME NEW i \in 1 .. n
      PROVE  SubSeq(f, p + 1, p + n)[i] = SubSeq(m, p + 1, p + n)[i]
  <2>1. i \in 1 .. p + n - (p + 1) + 1 /\ p + 1 + i - 1 \in p + 1 .. p + n
    OBVIOUS
  <2>2. p + 1 + i - 1 \in 1 .. k
    BY <1>2, <2>1
  <2> QED
    BY <1>1, <1>4, <1>5, <2>1, <2>2
<1> QED
  BY <1>4, <1>5, <1>6, <1>7, SeqEqual DEF f

LEMMA DataIs ==
  ASSUME BaInv, ~strayed
  PROVE  /\ Data = SubSeq(mem, 1, m_size) /\ Data \in Seq(Cells) /\ Len(Data) = m_size
         /\ \A i \in 1 .. m_size : Data[i] = mem[i]
         /\ mem \in Seq(Cells) /\ m_size \in Nat /\ m_position \in Nat
         /\ m_position <= m_size /\ m_size <= Len(mem)
<1>1. /\ mem \in Seq(Cells) /\ m_size \in Nat /\ m_position \in Nat
      /\ m_position <= m_size /\ m_size <= Len(mem)
  BY DEF BaInv, BaShape, CursorAgrees, m_capacity
<1>2. Data = SubSeq(mem, 1, Min({m_size, Len(mem)}))
  BY DEF Data, m_capacity
<1>3. /\ SubSeq(mem, 1, Min({m_size, Len(mem)})) = SubSeq(mem, 1, m_size)
      /\ SubSeq(mem, 1, m_size) \in Seq(Cells) /\ Len(SubSeq(mem, 1, m_size)) = m_size
      /\ \A i \in 1 .. m_size : SubSeq(mem, 1, m_size)[i] = mem[i]
  BY <1>1, FrontOf
<1>4. Data = SubSeq(mem, 1, m_size)
  BY <1>2, <1>3
<1> QED
  BY <1>1, <1>3, <1>4

LEMMA DataNext ==
  ASSUME BaInv', ~strayed'
  PROVE  /\ Data' = SubSeq(mem', 1, m_size') /\ Data' \in Seq(Cells) /\ Len(Data') = m_size'
         /\ \A i \in 1 .. m_size' : Data'[i] = mem'[i]
         /\ mem' \in Seq(Cells) /\ m_size' \in Nat /\ m_position' \in Nat
         /\ m_size' <= Len(mem')
<1>1. /\ mem' \in Seq(Cells) /\ m_size' \in Nat /\ m_position' \in Nat
      /\ m_size' <= Len(mem')
  BY DEF BaInv, BaShape, CursorAgrees, m_capacity
<1>2. Data' = SubSeq(mem', 1, Min({m_size', Len(mem')}))
  BY DEF Data, m_capacity
<1>3. /\ SubSeq(mem', 1, Min({m_size', Len(mem')})) = SubSeq(mem', 1, m_size')
      /\ SubSeq(mem', 1, m_size') \in Seq(Cells) /\ Len(SubSeq(mem', 1, m_size')) = m_size'
      /\ \A i \in 1 .. m_size' : SubSeq(mem', 1, m_size')[i] = mem'[i]
  BY <1>1, FrontOf
<1>4. Data' = SubSeq(mem', 1, m_size')
  BY <1>2, <1>3
<1> QED
  BY <1>1, <1>3, <1>4

(* What each kind of call is to the sequence of bytes. *)
LEMMA KeptRefuses ==
  ASSUME BaInv, ~strayed, op'.out = Thrown, UNCHANGED <<mem, m_position, m_size>>,
         \/ op'.name = "read" /\ m_position + op'.n > m_size
         \/ op'.name = "readAt" /\ op'.at + op'.n > m_size
         \/ op'.name = "setPosition" /\ op'.n > m_size
  PROVE  Contract!Refuses
<1>1. Data' = Data
  BY DEF Data, m_capacity
<1>2. Len(Data) = m_size
  BY DataIs
<1> QED
  BY <1>1, <1>2 DEF Contract!Refuses, Contract!Same, Data

LEMMA KeptExcused ==
  ASSUME UNCHANGED <<mem, m_position, m_size>>, Excused'
  PROVE  /\ op'.name = "readAt" => Contract!Peeks
         /\ op'.name = "writeToFile" => Contract!Shows
<1>1. Data' = Data
  BY DEF Data, m_capacity
<1>2. Contract!Same
  BY <1>1 DEF Contract!Same, Data
<1> QED
  BY <1>2 DEF Contract!Peeks, Contract!Shows, Excused

LEMMA KeptPeeks ==
  ASSUME BaInv, ~strayed, UNCHANGED <<mem, m_position, m_size>>,
         NEW p \in Nat, NEW n \in Nat, p + n <= m_size, op'.name = "readAt", op'.at = p, op'.n = n,
         op'.out = SubSeq(mem, p + 1, p + n)
  PROVE  Contract!Peeks
<1>1. Data' = Data
  BY DEF Data, m_capacity
<1>2. /\ Data = SubSeq(mem, 1, m_size) /\ Len(Data) = m_size /\ mem \in Seq(Cells)
      /\ m_size \in Nat /\ m_size <= Len(mem)
  BY DataIs
<1>3. op'.out = SubSeq(Data, p + 1, p + n)
  BY <1>2, SliceOfFront
<1> QED
  BY <1>1, <1>2, <1>3 DEF Contract!Peeks, Contract!Same, Contract!Slice, Data

LEMMA KeptShows ==
  ASSUME BaInv, ~strayed, UNCHANGED <<mem, m_position, m_size>>,
         op'.name \in {"toString", "writeToFile"}, op'.out = SubSeq(mem, m_position + 1, m_size)
  PROVE  Contract!Shows
<1>1. Data' = Data
  BY DEF Data, m_capacity
<1>2. /\ Data = SubSeq(mem, 1, m_size) /\ Len(Data) = m_size /\ mem \in Seq(Cells)
      /\ m_size \in Nat /\ m_size <= Len(mem) /\ m_position \in Nat /\ m_position <= m_size
  BY DataIs
<1>3. PICK k \in Nat : k = m_size - m_position /\ m_position + k = m_size
  <2>1. m_size - m_position \in Nat /\ m_position + (m_size - m_position) = m_size
    BY <1>2
  <2> QED
    BY <2>1
<1>4. SubSeq(mem, m_position + 1, m_position + k) = SubSeq(Data, m_position + 1, m_position + k)
  BY <1>2, <1>3, SliceOfFront
<1>5. op'.out = SubSeq(Data, m_position + 1, m_position + (Len(Data) - m_position))
  BY <1>2, <1>3, <1>4
<1> QED
  BY <1>1, <1>5 DEF Contract!Shows, Contract!Same, Contract!Slice, Data

LEMMA KeptReads ==
  ASSUME BaInv, ~strayed, UNCHANGED <<mem, m_size>>,
         NEW n \in Nat, m_position + n <= m_size, m_position' = m_position + n,
         op'.name = "read", op'.n = n, op'.out = SubSeq(mem, m_position + 1, m_position + n)
  PROVE  Contract!Reads
<1>1. Data' = Data
  BY DEF Data, m_capacity
<1>2. /\ Data = SubSeq(mem, 1, m_size) /\ Len(Data) = m_size /\ mem \in Seq(Cells)
      /\ m_size \in Nat /\ m_size <= Len(mem) /\ m_position \in Nat
  BY DataIs
<1>3. SubSeq(mem, m_position + 1, m_position + n) = SubSeq(Data, m_position + 1, m_position + n)
  BY <1>2, SliceOfFront
<1> QED
  BY <1>1, <1>2, <1>3 DEF Contract!Reads, Contract!Slice, Data

LEMMA KeptStarts ==
  ASSUME UNCHANGED <<mem, m_position, m_size>>,
         op'.name = "writeFixSize", op'.at = m_position, op'.out = <<>>
  PROVE  Contract!Starts
<1>1. Data' = Data
  BY DEF Data, m_capacity
<1> QED
  BY <1>1 DEF Contract!Starts, Contract!Same, Data

LEMMA KeptPiece ==
  ASSUME BaInv, ~strayed, UNCHANGED <<mem, m_size>>,
         NEW n \in Nat, m_position + n <= m_size, m_position' = m_position + n,
         op.name \in {"writeFixSize", "sendAstray"},
         op'.name \in {op.name, "failed"}, op'.n = op.n, op'.at = op.at,
         op'.out = op.out \o SubSeq(mem, m_position + 1, m_position + n)
  PROVE  \E k \in 0 .. Len(Data) : Contract!Piece(k)
<1>1. Data' = Data
  BY DEF Data, m_capacity
<1>2. /\ Data = SubSeq(mem, 1, m_size) /\ Len(Data) = m_size /\ mem \in Seq(Cells)
      /\ m_size \in Nat /\ m_size <= Len(mem) /\ m_position \in Nat
  BY DataIs
<1>3. SubSeq(mem, m_position + 1, m_position + n) = SubSeq(Data, m_position + 1, m_position + n)
  BY <1>2, SliceOfFront
<1>4. Contract!Piece(n)
  BY <1>1, <1>2, <1>3 DEF Contract!Piece, Contract!Slice, Data
<1>5. n \in 0 .. Len(Data)
  BY <1>2
<1> QED
  BY <1>4, <1>5

LEMMA KeptSeeks ==
  ASSUME BaInv, ~strayed, BaInv', ~strayed', NEW v \in Nat, m_position' = v,
         m_size' = (IF v > m_size THEN v ELSE m_size), mem' = mem,
         op'.name = "setPosition", op'.n = v
  PROVE  Contract!Seeks
<1>1. /\ Data = SubSeq(mem, 1, m_size) /\ Len(Data) = m_size /\ mem \in Seq(Cells)
      /\ m_size \in Nat /\ m_size <= Len(mem)
  BY DataIs
<1>2. /\ Data' = SubSeq(mem, 1, m_size') /\ Len(Data') = m_size' /\ m_size' \in Nat
      /\ m_size' <= Len(mem)
  BY DataNext
<1>3. SubSeq(Data', 1, m_size) = Data
  <2>1. 0 + m_size <= m_size' /\ 0 + 1 = 1 /\ 0 + m_size = m_size /\ 0 \in Nat
    BY <1>1, <1>2
  <2>2. SubSeq(SubSeq(mem, 1, m_size'), 0 + 1, 0 + m_size) = SubSeq(mem, 0 + 1, 0 + m_size)
    BY <1>1, <1>2, <2>1, SliceOfFront
  <2> QED
    BY <1>1, <1>2, <2>1, <2>2
<1>4. Len(Data') = (IF Len(Data) > v THEN Len(Data) ELSE v)
  BY <1>1, <1>2
<1>5. SubSeq(Data', 1, Len(Data)) = Data
  BY <1>1, <1>3
<1> QED
  BY <1>4, <1>5 DEF Contract!Seeks, Contract!Longer, Data

LEMMA KeptClears ==
  ASSUME BaInv', ~strayed', m_position' = 0, m_size' = 0, op'.name = "clear"
  PROVE  Contract!Clears
<1>1. Data' = <<>>
  <2>1. Data' \in Seq(Cells) /\ Len(Data') = 0
    BY DataNext
  <2> QED
    BY <2>1, EmptySeq
<1> QED
  BY <1>1 DEF Contract!Clears, Data

LEMMA KeptWrites ==
  ASSUME BaInv, ~strayed, BaInv', ~strayed', NEW s \in Chunks(MaxChunk),
         m_position + Len(s) <= MaxBytes,
         mem' = [i \in 1 .. Len(Grown(Len(s))) |->
                   IF i \in m_position + 1 .. m_position + Len(s)
                     THEN s[i - m_position] ELSE Grown(Len(s))[i]],
         m_position' = m_position + Len(s),
         op'.name \in {"write", "fill"}, op'.n = Len(s), op'.out = s,
         m_size' = IF m_position' > m_size THEN m_position' ELSE m_size
  PROVE  Contract!Writes
<1> DEFINE n == Len(s)
           G == Grown(n)
<1>1. /\ n \in 1 .. MaxChunk /\ s \in [1 .. n -> ByteValues] /\ n \in Nat
  BY ChunkBytes, ByteArrayAssumption
<1>2. /\ Data \in Seq(Cells) /\ Len(Data) = m_size /\ \A i \in 1 .. m_size : Data[i] = mem[i]
      /\ m_size \in Nat /\ m_position \in Nat /\ m_size <= Len(mem) /\ m_position <= m_size
      /\ mem \in Seq(Cells) /\ Len(mem) \in Nat
  BY DataIs, LenProperties
<1>3. /\ Data' \in Seq(Cells) /\ Len(Data') = m_size' /\ \A i \in 1 .. m_size' : Data'[i] = mem'[i]
      /\ m_size' \in Nat
  BY DataNext
<1>4. /\ Len(G) \in Nat /\ Len(G) >= Len(mem) /\ \A i \in 1 .. Len(mem) : G[i] = mem[i]
      /\ Len(G) >= m_position + n
  <2>1. m_position <= Len(mem)
    BY <1>2
  <2> QED
    BY <1>1, <2>1, BaGrowth DEF BaInv
<1> HIDE DEF n, G
<1>5. m_size' = IF Len(Data) > m_position + n THEN Len(Data) ELSE m_position + n
  BY <1>1, <1>2 DEF n
<1>6. ASSUME NEW i \in 1 .. m_size'
      PROVE  Data'[i] = IF i \in m_position + 1 .. m_position + n THEN s[i - m_position] ELSE Data[i]
  <2>1. i \in 1 .. Len(G)
    BY <1>1, <1>2, <1>4, <1>5
  <2>2. mem'[i] = IF i \in m_position + 1 .. m_position + n THEN s[i - m_position] ELSE G[i]
    BY <2>1 DEF n, G
  <2>3. CASE i \in m_position + 1 .. m_position + n
    BY <1>3, <2>2, <2>3
  <2>4. CASE i \notin m_position + 1 .. m_position + n
    <3>1. i \in 1 .. m_size /\ i \in 1 .. Len(mem)
      BY <1>1, <1>2, <1>5, <2>4
    <3> QED
      BY <1>2, <1>3, <1>4, <2>2, <2>4, <3>1
  <2> QED
    BY <2>3, <2>4
<1> DEFINE D == [i \in 1 .. (IF Len(Data) > m_position + n THEN Len(Data) ELSE m_position + n) |->
                   IF i \in m_position + 1 .. m_position + n THEN s[i - m_position] ELSE Data[i]]
<1>7. Data' = D
  <2>1. Data' = [i \in 1 .. m_size' |-> Data'[i]]
    BY <1>3
  <2> QED
    BY <1>5, <1>6, <2>1
<1>8. Contract!Put(s)
  BY <1>7 DEF Contract!Put, Contract!Longer, Data, n
<1>9. op'.n \in 1 .. MaxChunk /\ op'.out \in [1 .. op'.n -> ByteValues] /\ op'.out = s
  BY <1>1 DEF n
<1>10. Contract!Put(op'.out)
  BY <1>8, <1>9
<1> QED
  BY <1>9, <1>10 DEF Contract!Writes

(* Every call, while the promise is kept, is one of the calls of the sequence. *)
LEMMA CallsImplement ==
  ASSUME BaInv, BaNext, Trusted, Trusted', BaInv'
  PROVE  \/ UNCHANGED <<Data, m_position, op, Trusted, Excused>>
         \/ Contract!Writes \/ Contract!Seeks \/ Contract!Clears
         \/ Contract!Reads \/ Contract!Peeks \/ Contract!Shows
         \/ Contract!Starts
         \/ \E k \in 0 .. Len(Data) : Contract!Piece(k)
         \/ Contract!Refuses
<1> DEFINE Goal == \/ UNCHANGED <<Data, m_position, op, Trusted, Excused>>
                   \/ Contract!Writes \/ Contract!Seeks \/ Contract!Clears
                   \/ Contract!Reads \/ Contract!Peeks \/ Contract!Shows
                   \/ Contract!Starts
                   \/ \E k \in 0 .. Len(Data) : Contract!Piece(k)
                   \/ Contract!Refuses
<1>1. MaxChunk \in Nat /\ MaxBytes \in Nat
  BY ByteArrayAssumption
<1>2. ~strayed /\ ~crashed /\ ~strayed' /\ ~crashed'
  BY DEF Trusted
<1>3. m_position \in Nat /\ m_size \in Nat /\ m_position <= m_size /\ mem \in Seq(Cells)
  BY <1>2, DataIs
<1> SUFFICES Goal
  OBVIOUS
<1>4. ASSUME UNCHANGED <<mem, m_baseSize, m_position, m_size, m_cur, strayed, op, crashed>>
      PROVE  UNCHANGED <<Data, m_position, op, Trusted, Excused>>
  <2>1. Data' = Data
    BY <1>4 DEF Data, m_capacity
  <2>2. Excused' = Excused
    BY <1>4 DEF Excused, FarRead, FilePart, Npos, GetReadSize, Sub
  <2>3. Trusted' = Trusted
    BY <1>4 DEF Trusted
  <2> QED
    BY <1>4, <2>1, <2>2, <2>3
<1>5. ASSUME NEW rt \in 0 .. MaxChunk, StreamWrite(rt) PROVE Goal
  <2>1. rt \in Nat
    BY <1>1
  <2>2. /\ m_position + rt <= m_size /\ m_position' = m_position + rt
        /\ op'.out = op.out \o SubSeq(mem, m_position + 1, m_position + rt)
        /\ op.name \in {"writeFixSize", "sendAstray"}
        /\ op'.name \in {op.name, "failed"} /\ op'.n = op.n /\ op'.at = op.at
        /\ UNCHANGED <<mem, m_size>>
    BY <1>2, <1>5, <2>1, StreamWriteKeeps
  <2>3. \E k \in 0 .. Len(Data) : Contract!Piece(k)
    BY <1>2, <2>1, <2>2, KeptPiece
  <2> QED
    BY <2>3
<1>6. CASE FileRound
  <2>1. /\ UNCHANGED <<mem, m_baseSize, m_position, m_size, m_cur, strayed>>
        /\ \/ UNCHANGED <<op, crashed>>
           \/ /\ op'.name = "writeToFile"
              /\ Npos = 0 \/ GetReadSize > m_baseSize => op'.out = SubSeq(mem, m_position + 1, m_size)
    BY <1>2, <1>6, FileRoundKeeps
  <2>2. CASE UNCHANGED <<op, crashed>>
    BY <1>4, <2>1, <2>2
  <2>3. CASE /\ op'.name = "writeToFile"
             /\ Npos = 0 \/ GetReadSize > m_baseSize => op'.out = SubSeq(mem, m_position + 1, m_size)
    <3>1. Npos' = Npos /\ GetReadSize' = GetReadSize /\ m_baseSize' = m_baseSize
      BY <2>1 DEF Npos, GetReadSize, Sub
    <3>2. CASE Excused'
      <4>1. Contract!Shows
        BY <2>1, <2>3, <3>2, KeptExcused
      <4> QED
        BY <4>1
    <3>3. CASE ~Excused'
      <4>1. ~ (Npos > 0 /\ GetReadSize <= m_baseSize)
        BY <2>3, <3>1, <3>3 DEF FilePart, Excused
      <4>2. Npos \in Nat /\ GetReadSize \in Nat /\ m_baseSize \in Nat
        BY BaPlace DEF BaInv
      <4>3. op'.out = SubSeq(mem, m_position + 1, m_size)
        BY <2>3, <4>1, <4>2
      <4>4. Contract!Shows
        BY <1>2, <2>1, <2>3, <4>3, KeptShows
      <4> QED
        BY <4>4
    <3> QED
      BY <3>2, <3>3
  <2> QED
    BY <2>1, <2>2, <2>3
<1>7. CASE left = 0 /\ ~ofs.open
  <2> USE <1>2, <1>7
  <2>1. ASSUME NEW s \in Chunks(MaxChunk), Write(s) PROVE Goal
    <3>1. m_position + Len(s) <= MaxBytes
      BY <2>1 DEF Write
    <3>2. Contract!Writes
      BY <2>1, <3>1, WriteKeeps, KeptWrites
    <3> QED
      BY <3>2
  <2>2. ASSUME NEW s \in Chunks(MaxChunk), FillWriteBuffers(s) PROVE Goal
    <3>1. m_position + Len(s) <= MaxBytes
      BY <2>2 DEF FillWriteBuffers
    <3>2. Contract!Writes
      BY <2>2, <3>1, FillKeeps, KeptWrites
    <3> QED
      BY <3>2
  <2>3. ASSUME NEW n \in 0 .. MaxChunk, Read(n) PROVE Goal
    <3>1. n \in Nat
      BY <1>1
    <3>2. /\ op'.name = "read" /\ op'.n = n
          /\ \/ /\ op'.out = Thrown /\ m_position + n > m_size
                /\ UNCHANGED <<mem, m_position, m_size>>
             \/ /\ m_position + n <= m_size /\ m_position' = m_position + n
                /\ op'.out = SubSeq(mem, m_position + 1, m_position + n)
                /\ UNCHANGED <<mem, m_size>>
      BY <2>3, <3>1, ReadKeeps
    <3>3. Contract!Refuses \/ Contract!Reads
      BY <3>1, <3>2, KeptRefuses, KeptReads
    <3> QED
      BY <3>3
  <2>4. ASSUME NEW n \in 1 .. MaxChunk, NEW p \in 0 .. MaxBytes, ReadFrom("readAt", n, p) PROVE Goal
    <3>1. n \in Nat \ {0} /\ p \in Nat
      BY <1>1
    <3>2. /\ UNCHANGED <<mem, m_position, m_size>>
          /\ op'.name = "readAt" /\ op'.n = n /\ op'.at = p
          /\ ~FarRead' => \/ op'.out = Thrown /\ p + n > m_size
                          \/ p + n <= m_size /\ op'.out = SubSeq(mem, p + 1, p + n)
      BY <2>4, <3>1, ReadFromKeeps
    <3>3. CASE Excused'
      <4>1. Contract!Peeks
        BY <3>2, <3>3, KeptExcused
      <4> QED
        BY <4>1
    <3>4. CASE ~Excused'
      <4>1. \/ op'.out = Thrown /\ p + n > m_size
            \/ p + n <= m_size /\ op'.out = SubSeq(mem, p + 1, p + n)
        BY <3>2, <3>4 DEF Excused
      <4>2. Contract!Refuses \/ Contract!Peeks
        BY <3>1, <3>2, <4>1, KeptRefuses, KeptPeeks
      <4> QED
        BY <4>2
    <3> QED
      BY <3>3, <3>4
  <2>5. CASE ToStr
    <3>1. PICK n \in Nat \ {0} : n = GetReadSize /\ ReadFrom("toString", n, m_position)
      BY <1>1, <2>5 DEF ToStr
    <3>2. /\ UNCHANGED <<mem, m_position, m_size>> /\ op'.name = "toString"
          /\ ~FarRead' => /\ m_position + n <= m_size
                          /\ op'.out = SubSeq(mem, m_position + 1, m_position + n)
      <4>1. \A name, p : /\ name = "toString" /\ p = m_position /\ p \in Nat /\ ReadFrom(name, n, p)
                         => /\ UNCHANGED <<mem, m_position, m_size>> /\ op'.name = name
                            /\ ~FarRead' => \/ name = "readAt" /\ op'.out = Thrown /\ p + n > m_size
                                            \/ p + n <= m_size /\ op'.out = SubSeq(mem, p + 1, p + n)
        <5> SUFFICES ASSUME NEW name, NEW p, name = "toString", p = m_position, p \in Nat,
                            ReadFrom(name, n, p)
                     PROVE  /\ UNCHANGED <<mem, m_position, m_size>> /\ op'.name = name
                            /\ ~FarRead' => \/ name = "readAt" /\ op'.out = Thrown /\ p + n > m_size
                                            \/ p + n <= m_size /\ op'.out = SubSeq(mem, p + 1, p + n)
          OBVIOUS
        <5>1. n = GetReadSize
          BY <3>1
        <5> QED
          BY <5>1, ReadFromKeeps, Zenon
      <4>2. "toString" # "readAt"
        OBVIOUS
      <4> QED
        BY <1>3, <3>1, <4>1, <4>2
    <3>3. ~FarRead'
      BY <3>2 DEF FarRead
    <3>4. n = m_size - m_position
      BY <3>1, BaAgreed DEF BaInv
    <3>5. op'.out = SubSeq(mem, m_position + 1, m_size)
      <4>1. m_position + n = m_size
        BY <1>3, <3>4
      <4> QED
        BY <3>2, <3>3, <4>1
    <3>6. Contract!Shows
      BY <3>2, <3>5, KeptShows
    <3> QED
      BY <3>6
  <2>6. ASSUME NEW v \in 0 .. MaxBytes, SetPosition(v) PROVE Goal
    <3>1. v \in Nat
      BY <1>1
    <3>2. /\ op'.name = "setPosition" /\ op'.n = v
          /\ \/ op'.out = Thrown /\ UNCHANGED <<mem, m_position, m_size>> /\ v > m_size
             \/ /\ m_position' = v /\ m_size' = (IF v > m_size THEN v ELSE m_size)
                /\ UNCHANGED mem
      BY <2>6, <3>1, SetPositionKeeps
    <3>3. Contract!Refuses \/ Contract!Seeks
      BY <3>1, <3>2, KeptRefuses, KeptSeeks
    <3> QED
      BY <3>3
  <2>7. CASE BaClear
    <3>1. m_position' = 0 /\ m_size' = 0 /\ op'.name = "clear"
      BY <2>7, BaClearKeeps
    <3>2. Contract!Clears
      BY <3>1, KeptClears
    <3> QED
      BY <3>2
  <2>8. ASSUME NEW n \in 1 .. MaxChunk, WriteFixSize(n) PROVE Goal
    <3>1. n \in Nat
      BY <1>1
    <3>2. /\ UNCHANGED <<mem, m_position, m_size>> /\ op'.out = <<>>
          /\ op'.at = m_position /\ op'.name = "writeFixSize"
      BY <2>8, <3>1, WriteFixSizeKeeps
    <3>3. Contract!Starts
      BY <3>2, KeptStarts
    <3> QED
      BY <3>3
  <2>9. CASE WriteToFile
    <3>1. UNCHANGED <<m_baseSize, m_position, m_size, m_cur, mem, op, strayed, crashed>>
      BY <2>9, WriteToFileKeeps
    <3> QED
      BY <1>4, <3>1
  <2> HIDE DEF Goal
  <2> QED
    BY <1>5, <1>6, <2>1, <2>2, <2>3, <2>4, <2>5, <2>6, <2>7, <2>8, <2>9, BaSteps
<1> HIDE DEF Goal
<1> QED
  BY <1>5, <1>6, <1>7, BaSteps

(* The chain of blocks is the plain sequence of bytes that bytearray.h promises: after
   every call the sequence, the position and the answer are the ones that the call, by its
   name and its bytes, gives the plain sequence, until a read or a writer lost the cursor's
   block; two answers are not spoken for, those of a read at a position of its own outside
   the cursor's block and of a file that starts inside the last block. *)
THEOREM BlocksImplemented == BaSpec => BlocksHidden
<1>1. ASSUME BaInv, BaInv', [BaNext]_baVars
      PROVE  [~Trusted \/ ~Trusted' \/ Contract!Kept]_(Contract!seqVars)
  <2>1. CASE UNCHANGED baVars
    <3>1. UNCHANGED <<m_baseSize, m_position, m_size, m_cur, mem, op, strayed, crashed>>
      BY <2>1 DEF baVars
    <3>2. Data' = Data
      BY <3>1 DEF Data, m_capacity
    <3>3. Excused' = Excused
      BY <3>1 DEF Excused, FarRead, FilePart, Npos, GetReadSize, Sub
    <3>4. Trusted' = Trusted
      BY <3>1 DEF Trusted
    <3>5. UNCHANGED Contract!seqVars
      BY <3>1, <3>2, <3>3, <3>4 DEF Contract!seqVars, Data, Trusted, Excused
    <3> QED
      BY <3>5
  <2>2. CASE BaNext /\ ~ (Trusted /\ Trusted')
    BY <2>2
  <2>3. CASE BaNext /\ Trusted /\ Trusted'
    <3>1. \/ UNCHANGED <<Data, m_position, op, Trusted, Excused>>
          \/ Contract!Writes \/ Contract!Seeks \/ Contract!Clears
          \/ Contract!Reads \/ Contract!Peeks \/ Contract!Shows
          \/ Contract!Starts
          \/ \E k \in 0 .. Len(Data) : Contract!Piece(k)
          \/ Contract!Refuses
      BY <1>1, <2>3, CallsImplement
    <3>2. CASE UNCHANGED <<Data, m_position, op, Trusted, Excused>>
      BY <3>2 DEF Contract!seqVars, Data, Trusted, Excused
    <3>3. CASE ~ UNCHANGED <<Data, m_position, op, Trusted, Excused>>
      BY <2>3, <3>1, <3>3, Zenon DEF Contract!Kept, Data, Trusted
    <3> QED
      BY <3>2, <3>3
  <2> QED
    BY <1>1, <2>1, <2>2, <2>3
<1>2. BaInv /\ BaInv' /\ [BaNext]_baVars => [~Trusted \/ ~Trusted' \/ Contract!Kept]_(Contract!seqVars)
  BY <1>1
<1>3. BlocksHidden <=> [][~Trusted \/ ~Trusted' \/ Contract!Kept]_(Contract!seqVars)
  BY DEF BlocksHidden, Contract!Spec, Trusted
<1> QED
  BY <1>2, <1>3, BaAlways, PTL DEF BaSpec

-----------------------------------------------------------------------------
(* The loggers while the listener of "logs" rebuilds them. *)

AnyFormat == Formats \cup {"none", "default"}
AnyAppender == [file : LogFiles \cup {"stdout"}, own : AnyFormat, format : AnyFormat]
AnyLogger == [level : Nat, format : AnyFormat, appenders : Seq(AnyAppender)]
AnyDefine == LogDefines \cup {NoDef}

LogShape ==
  /\ logger \in [LoggerNames -> AnyLogger]
  /\ defs \in [LoggerNames -> AnyDefine]
  /\ \A u \in Updaters :
       /\ update[u] = [pc |-> update[u].pc, new |-> update[u].new, todo |-> update[u].todo,
                       name |-> update[u].name, left |-> update[u].left]
       /\ update[u].pc \in {"out", "next", "level", "format", "clear", "add"}
       /\ update[u].todo \subseteq LoggerNames /\ update[u].name \in LoggerNames
       /\ update[u].pc # "out" => update[u].new \in LogSettings
       /\ update[u].pc = "out" => update[u].todo = {}
       /\ update[u].pc \notin {"out", "next"} =>
            /\ update[u].name \notin update[u].todo
            /\ update[u].left \in Seq([file : LogFiles, format : Formats])
  /\ DOMAIN update = Updaters

(* Loggers that an update has still to change, or to go on changing. *)
Pending(u) == update[u].todo \cup IF update[u].pc \in {"out", "next"} THEN {} ELSE {update[u].name}

(* A logger is what a definition says; one that was never defined has the level it began with. *)
SaysLevel(log, d) == log.level \in {1, d.level}
SaysFormat(log, d) == d.format \notin BadFormats \cup {"none"} => log.format = d.format
SaysAppenders(log, d, k) ==
  /\ Len(log.appenders) = k
  /\ \A i \in 1..k : log.appenders[i] = AppenderOf(log, d.appenders[i])
Says(log, d) ==
  /\ SaysLevel(log, d)
  /\ d.defined => /\ log.level = d.level /\ SaysFormat(log, d)
                  /\ SaysAppenders(log, d, Len(d.appenders))

(* Updates that overlap, and what they have in common: the loggers that none of them changes. *)
OverlapMixes ==
  \A u, w \in Working : u # w => \A n \in LoggerNames \ mixed : update[u].new[n] = defs[n]
PendingDiffers == \A u \in Working : \A n \in Pending(u) \ mixed : update[u].new[n] # defs[n]
(* A logger that is not mixed is what its definition says, or what the update says that is done
   with it, or on its way from the one to the other. *)
SaidBefore ==
  \A n \in LoggerNames \ mixed : Working = {} => Says(logger[n], defs[n])
SaidAfter ==
  \A u \in Working, n \in LoggerNames \ mixed : n \notin Pending(u) => Says(logger[n], update[u].new[n])
StillBefore ==
  \A u \in Working : \A n \in update[u].todo \ mixed : SaysLevel(logger[n], defs[n])
OnTheWay ==
  \A u \in Working : update[u].pc # "next" /\ update[u].name \notin mixed =>
    LET log == logger[update[u].name]
        d == DefOf(u)
        ahead == update[u].left
        pc == update[u].pc
    IN /\ pc = "level" => SaysLevel(log, defs[update[u].name])
       /\ pc # "level" => log.level = d.level
       /\ pc \in {"clear", "add"} => SaysFormat(log, d)
       /\ pc = "add" => SaysAppenders(log, d, Len(d.appenders) - Len(ahead))
(* The appenders an update has still to add are the last ones of its definition. *)
LeftOver ==
  \A u \in Working : update[u].pc # "next" =>
    LET all == DefOf(u).appenders
        ahead == update[u].left
    IN /\ update[u].pc # "add" => ahead = all
       /\ Len(ahead) <= Len(all)
       /\ \A i \in 1..Len(ahead) : ahead[i] = all[Len(all) - Len(ahead) + i]

LogInv ==
  /\ LogShape /\ FormatsFollow
  /\ OverlapMixes /\ PendingDiffers /\ SaidBefore /\ SaidAfter /\ StillBefore /\ OnTheWay /\ LeftOver

(* A logger that an update is changing, and that is not mixed, is changed by no other update. *)
LEMMA Lone ==
  ASSUME LogInv, NEW u \in Working, NEW n \in Pending(u) \ mixed, NEW w \in Working
  PROVE  w = u
<1>1. n \in LoggerNames
  BY DEF Pending, LogInv, LogShape, Working
<1>2. update[u].new[n] # defs[n]
  BY DEF LogInv, PendingDiffers
<1> QED
  BY <1>1, <1>2 DEF LogInv, OverlapMixes

AppendersFollow(log) ==
  \A i \in DOMAIN log.appenders :
    LET a == log.appenders[i] IN a.format = IF a.own = "none" THEN log.format ELSE a.own
(* What OnTheWay says of an update and its logger. *)
OnWay(log, earlier, d, pc, ahead) ==
  /\ pc = "level" => SaysLevel(log, earlier)
  /\ pc # "level" => log.level = d.level
  /\ pc \in {"clear", "add"} => SaysFormat(log, d)
  /\ pc = "add" => SaysAppenders(log, d, Len(d.appenders) - Len(ahead))
LastOnes(pc, all, ahead) ==
  /\ pc # "add" => ahead = all
  /\ Len(ahead) <= Len(all)
  /\ \A i \in 1..Len(ahead) : ahead[i] = all[Len(all) - Len(ahead) + i]

(* A step that an update takes on its logger. *)
LEMMA OnLogger ==
  ASSUME LogInv, NEW u \in Updaters, NEW n \in LoggerNames, n = update[u].name,
         update[u].pc \in {"level", "format", "clear", "add"},
         NEW log \in AnyLogger, NEW pc \in {"next", "format", "clear", "add"},
         NEW ahead \in Seq([file : LogFiles, format : Formats]),
         logger' = [logger EXCEPT ![n] = log], UNCHANGED <<defs, mixed>>,
         update' = [update EXCEPT ![u] = [pc |-> pc, new |-> update[u].new, todo |-> update[u].todo,
                                          name |-> n, left |-> ahead]],
         AppendersFollow(log),
         n \notin mixed /\ pc # "next" => OnWay(log, defs[n], DefOf(u), pc, ahead),
         n \notin mixed /\ pc = "next" => Says(log, DefOf(u)),
         pc # "next" => LastOnes(pc, DefOf(u).appenders, ahead)
  PROVE  LogInv'
<1>1. /\ logger'[n] = log
      /\ \A k \in LoggerNames \ {n} : logger'[k] = logger[k]
  BY DEF LogInv, LogShape
<1>2. /\ update'[u] = [pc |-> pc, new |-> update[u].new, todo |-> update[u].todo, name |-> n, left |-> ahead]
      /\ \A w \in Updaters \ {u} : update'[w] = update[w]
      /\ DOMAIN update' = Updaters
  BY DEF LogInv, LogShape
<1>3. /\ update'[u].pc = pc /\ update'[u].new = update[u].new /\ update'[u].todo = update[u].todo
      /\ update'[u].name = n /\ update'[u].left = ahead
  BY <1>2
<1>4. Working' = Working /\ u \in Working
  BY <1>2, <1>3 DEF Working
<1>5. /\ n \in Pending(u) /\ n \notin update[u].todo
      /\ Pending(u)' = update[u].todo \cup IF pc = "next" THEN {} ELSE {n}
      /\ Pending(u) = update[u].todo \cup {n}
      /\ \A w \in Updaters \ {u} : Pending(w)' = Pending(w)
  BY <1>2, <1>3 DEF Pending, LogInv, LogShape
<1>6. ASSUME n \notin mixed, NEW w \in Working PROVE w = u
  BY <1>4, <1>5, <1>6, Lone
<1>7. LogShape'
  <2>1. logger' \in [LoggerNames -> AnyLogger] /\ defs' \in [LoggerNames -> AnyDefine]
    BY DEF LogInv, LogShape
  <2>2. (update[u].new \in LogSettings) /\ update[u].todo \subseteq LoggerNames
    BY DEF LogInv, LogShape
  <2> QED
    BY <1>2, <1>3, <1>5, <2>1, <2>2 DEF LogInv, LogShape
<1>8. FormatsFollow'
  BY <1>1 DEF LogInv, FormatsFollow, AppendersFollow
<1>9. OverlapMixes' /\ PendingDiffers'
  BY <1>2, <1>3, <1>4, <1>5 DEF LogInv, OverlapMixes, PendingDiffers, Working
<1>10. SaidBefore'
  BY <1>4 DEF SaidBefore
<1>11. SaidAfter'
  <2> SUFFICES ASSUME NEW w \in Working, NEW k \in LoggerNames \ mixed, k \notin Pending(w)'
               PROVE  Says(logger'[k], update'[w].new[k])
    BY <1>4 DEF SaidAfter, Says, SaysLevel, SaysFormat, SaysAppenders, AppenderOf, Own
  <2>1. CASE k = n
    <3>1. w = u /\ pc = "next"
      BY <1>5, <1>6, <2>1
    <3> QED
      BY <1>1, <1>3, <2>1, <3>1 DEF DefOf
  <2>2. CASE k # n
    <3>1. k \notin Pending(w) /\ update'[w].new = update[w].new
      BY <1>2, <1>3, <1>5, <2>2 DEF Working
    <3> QED
      BY <1>1, <2>2, <3>1 DEF LogInv, SaidAfter
  <2> QED
    BY <2>1, <2>2
<1>12. StillBefore'
  <2> SUFFICES ASSUME NEW w \in Working, NEW k \in update'[w].todo \ mixed
               PROVE  SaysLevel(logger'[k], defs[k])
    BY <1>4 DEF StillBefore, SaysLevel
  <2>1. k \in update[w].todo /\ k \in LoggerNames
    BY <1>2, <1>3 DEF LogInv, LogShape, Working
  <2>2. k # n
    BY <1>5, <1>6, <2>1
  <2> QED
    BY <1>1, <2>1, <2>2 DEF LogInv, StillBefore
<1>13. OnTheWay'
  <2> SUFFICES ASSUME NEW w \in Working, update'[w].pc # "next", update'[w].name \notin mixed
               PROVE  OnWay(logger'[update'[w].name], defs[update'[w].name],
                            update'[w].new[update'[w].name], update'[w].pc, update'[w].left)
    BY <1>4, ZenonT(30) DEF OnTheWay, OnWay, DefOf, SaysLevel, SaysFormat, SaysAppenders, AppenderOf, Own
  <2>1. CASE w = u
    BY <1>1, <1>3, <2>1 DEF DefOf
  <2>2. CASE w # u
    <3>1. update'[w] = update[w] /\ update[w].name \in LoggerNames
      BY <1>2, <2>2 DEF Working, LogInv, LogShape
    <3>2. update[w].name # n
      BY <1>6, <2>2, <3>1
    <3>3. logger'[update[w].name] = logger[update[w].name]
      BY <1>1, <3>1, <3>2
    <3> QED
      BY <3>1, <3>3 DEF LogInv, OnTheWay, OnWay, DefOf
  <2> QED
    BY <2>1, <2>2
<1>14. LeftOver'
  <2> SUFFICES ASSUME NEW w \in Working, update'[w].pc # "next"
               PROVE  LastOnes(update'[w].pc, update'[w].new[update'[w].name].appenders, update'[w].left)
    BY <1>4 DEF LeftOver, LastOnes, DefOf
  <2>1. CASE w = u
    BY <1>3, <2>1 DEF DefOf
  <2>2. CASE w # u
    BY <1>2, <2>2, ZenonT(30) DEF LogInv, LeftOver, LastOnes, DefOf, Working
  <2> QED
    BY <2>1, <2>2
<1> QED
  BY <1>7, <1>8, <1>9, <1>10, <1>11, <1>12, <1>13, <1>14 DEF LogInv

(* What a working update has of its logger. *)
LEMMA AtLogger ==
  ASSUME LogAssumption, LogInv, NEW u \in Updaters, update[u].pc \notin {"out", "next"}
  PROVE  /\ u \in Working /\ update[u].name \in LoggerNames
         /\ logger[update[u].name] \in AnyLogger
         /\ DefOf(u) \in LogDefines
         /\ update[u].left \in Seq([file : LogFiles, format : Formats])
         /\ AppendersFollow(logger[update[u].name])
         /\ LastOnes(update[u].pc, DefOf(u).appenders, update[u].left)
         /\ update[u].name \notin mixed =>
              OnWay(logger[update[u].name], defs[update[u].name], DefOf(u), update[u].pc, update[u].left)
<1>1. u \in Working /\ update[u].name \in LoggerNames
  BY DEF Working, LogInv, LogShape
<1>2. logger[update[u].name] \in AnyLogger /\ DefOf(u) \in LogDefines
  BY <1>1 DEF LogInv, LogShape, LogAssumption, DefOf
<1>3. update[u].left \in Seq([file : LogFiles, format : Formats])
  BY DEF LogInv, LogShape
<1>4. AppendersFollow(logger[update[u].name])
  BY <1>1 DEF LogInv, FormatsFollow, AppendersFollow
<1>5. LastOnes(update[u].pc, DefOf(u).appenders, update[u].left)
  BY <1>1 DEF LogInv, LeftOver, LastOnes
<1>6. update[u].name \notin mixed =>
        OnWay(logger[update[u].name], defs[update[u].name], DefOf(u), update[u].pc, update[u].left)
  BY <1>1 DEF LogInv, OnTheWay, OnWay
<1> QED
  BY <1>1, <1>2, <1>3, <1>4, <1>5, <1>6

LEMMA LoggerWith ==
  ASSUME NEW log \in AnyLogger, NEW x
  PROVE  /\ [log EXCEPT !.level = x] = [level |-> x, format |-> log.format, appenders |-> log.appenders]
         /\ [log EXCEPT !.appenders = x] = [level |-> log.level, format |-> log.format, appenders |-> x]
<1>1. log = [level |-> log.level, format |-> log.format, appenders |-> log.appenders]
  BY DEF AnyLogger
<1>2. PICK l, f, a : log = [level |-> l, format |-> f, appenders |-> a]
  BY <1>1
<1> QED
  BY <1>2

(* The place of an update moves. *)
LEMMA Moved ==
  ASSUME LogInv, NEW u \in Updaters, NEW pc, Moves(u, pc)
  PROVE  update' = [update EXCEPT ![u] = [pc |-> pc, new |-> update[u].new, todo |-> update[u].todo,
                                          name |-> update[u].name, left |-> update[u].left]]
<1>1. PICK p, v, t, n, l : update[u] = [pc |-> p, new |-> v, todo |-> t, name |-> n, left |-> l]
  BY DEF LogInv, LogShape
<1>2. [update[u] EXCEPT !.pc = pc] = [pc |-> pc, new |-> v, todo |-> t, name |-> n, left |-> l]
  BY <1>1
<1>3. v = update[u].new /\ t = update[u].todo /\ n = update[u].name /\ l = update[u].left
  BY <1>1
<1>4. update' = [update EXCEPT ![u] = [update[u] EXCEPT !.pc = pc]]
  BY DEF Moves
<1> QED
  BY <1>2, <1>3, <1>4

LEMMA SetLevelKeeps ==
  ASSUME LogAssumption, LogInv, NEW u \in Updaters, SetLevel(u)
  PROVE  LogInv'
<1> DEFINE n == update[u].name
           d == DefOf(u)
           pc == IF d.format = "none" THEN "clear" ELSE "format"
           log == [level |-> d.level, format |-> logger[n].format, appenders |-> logger[n].appenders]
<1>1. update[u].pc = "level" /\ UNCHANGED <<defs, mixed>>
  BY DEF SetLevel, At
<1>2. /\ n \in LoggerNames /\ logger[n] \in AnyLogger /\ d \in LogDefines
      /\ update[u].left \in Seq([file : LogFiles, format : Formats])
      /\ AppendersFollow(logger[n]) /\ LastOnes("level", d.appenders, update[u].left)
  BY <1>1, AtLogger
<1>3. logger' = [logger EXCEPT ![n] = log]
  <2>1. logger' = [logger EXCEPT ![n] = [logger[n] EXCEPT !.level = d.level]]
    BY DEF SetLevel
  <2>2. [logger[n] EXCEPT !.level = d.level] = log
    BY <1>2, LoggerWith
  <2> QED
    BY <2>1, <2>2
<1>4. update' = [update EXCEPT ![u] = [pc |-> pc, new |-> update[u].new, todo |-> update[u].todo,
                                       name |-> n, left |-> update[u].left]]
  BY Moved DEF SetLevel
<1>5. log \in AnyLogger
  BY <1>2 DEF AnyLogger, LogDefines
<1>6. AppendersFollow(log)
  BY <1>2 DEF AppendersFollow
<1>7. pc \in {"format", "clear"}
  OBVIOUS
<1>8. OnWay(log, defs[n], d, pc, update[u].left)
  BY DEF OnWay, SaysFormat
<1>9. LastOnes(pc, d.appenders, update[u].left)
  BY <1>2, <1>7 DEF LastOnes
<1> HIDE DEF n, d, pc, log
<1> QED
  BY <1>1, <1>2, <1>3, <1>4, <1>5, <1>6, <1>7, <1>8, <1>9, OnLogger DEF n, d

LEMMA SetFormatterKeeps ==
  ASSUME LogAssumption, LogInv, NEW u \in Updaters, SetFormatter(u)
  PROVE  LogInv'
<1> DEFINE n == update[u].name
           d == DefOf(u)
           log == IF d.format \in BadFormats THEN logger[n] ELSE Followed(logger[n], d.format)
<1>1. update[u].pc = "format" /\ UNCHANGED <<defs, mixed>>
  BY DEF SetFormatter, At
<1>2. /\ n \in LoggerNames /\ logger[n] \in AnyLogger /\ d \in LogDefines
      /\ update[u].left \in Seq([file : LogFiles, format : Formats])
      /\ AppendersFollow(logger[n]) /\ LastOnes("format", d.appenders, update[u].left)
      /\ n \notin mixed => OnWay(logger[n], defs[n], d, "format", update[u].left)
  BY <1>1, AtLogger
<1>3. logger' = [logger EXCEPT ![n] = log]
  <2>1. logger = [logger EXCEPT ![n] = logger[n]]
    BY <1>2 DEF LogInv, LogShape
  <2> QED
    BY <2>1 DEF SetFormatter
<1>4. update' = [update EXCEPT ![u] = [pc |-> "clear", new |-> update[u].new, todo |-> update[u].todo,
                                       name |-> n, left |-> update[u].left]]
  BY Moved DEF SetFormatter
<1>5. PICK apps \in Seq(AnyAppender) : apps = logger[n].appenders
  BY <1>2 DEF AnyLogger
<1>6. DOMAIN apps = 1..Len(apps) /\ Len(apps) \in Nat /\ \A i \in DOMAIN apps : apps[i] \in AnyAppender
  BY <1>5
<1>7. PICK new \in [1..Len(apps) -> AnyAppender] :
        new = [i \in DOMAIN apps |->
                 IF apps[i].own = "none" THEN [apps[i] EXCEPT !.format = d.format] ELSE apps[i]]
  <2>1. d.format \in AnyFormat
    BY <1>2 DEF LogDefines, AnyFormat
  <2>2. ASSUME NEW i \in DOMAIN apps PROVE [apps[i] EXCEPT !.format = d.format] \in AnyAppender
    BY <1>6, <2>1, <2>2 DEF AnyAppender
  <2> QED
    BY <1>6, <2>2
<1>8. new \in Seq(AnyAppender) /\ DOMAIN new = 1..Len(apps)
  BY <1>6, <1>7
<1>9. Followed(logger[n], d.format) = [level |-> logger[n].level, format |-> d.format, appenders |-> new]
  <2>1. PICK l, f : logger[n] = [level |-> l, format |-> f, appenders |-> apps]
    <3>1. logger[n] = [level |-> logger[n].level, format |-> logger[n].format, appenders |-> apps]
      BY <1>2, <1>5 DEF AnyLogger
    <3> QED
      BY <3>1
  <2>2. Followed(logger[n], d.format) = [level |-> l, format |-> d.format, appenders |-> new]
    <3>1. Followed(logger[n], d.format) = [logger[n] EXCEPT !.format = d.format, !.appenders = new]
      BY <1>5, <1>7 DEF Followed
    <3>2. [logger[n] EXCEPT !.format = d.format, !.appenders = new]
            = [level |-> l, format |-> d.format, appenders |-> new]
      <4>1. PICK x, g : x = logger[n] /\ g = d.format
        OBVIOUS
      <4>2. [x EXCEPT !.format = g, !.appenders = new] = [level |-> l, format |-> g, appenders |-> new]
        <5>1. PICK y : y = [x EXCEPT !.format = g]
          OBVIOUS
        <5>2. x = [level |-> l, format |-> f, appenders |-> apps]
          BY <2>1, <4>1
        <5>3. y = [level |-> l, format |-> g, appenders |-> apps]
          BY <5>1, <5>2
        <5>4. [y EXCEPT !.appenders = new] = [level |-> l, format |-> g, appenders |-> new]
          BY <5>3
        <5>5. [x EXCEPT !.format = g, !.appenders = new] = [[x EXCEPT !.format = g] EXCEPT !.appenders = new]
          OBVIOUS
        <5> QED
          BY <5>1, <5>4, <5>5
      <4> QED
        BY <4>1, <4>2
    <3> QED
      BY <3>1, <3>2
  <2> QED
    BY <2>1, <2>2
<1>10. log \in AnyLogger
  BY <1>2, <1>8, <1>9 DEF AnyLogger, LogDefines, AnyFormat
<1>11. AppendersFollow(log)
  <2>1. ASSUME d.format \notin BadFormats, NEW i \in 1..Len(apps)
        PROVE  new[i].format = IF new[i].own = "none" THEN d.format ELSE new[i].own
    <3>1. apps[i] \in AnyAppender /\ i \in DOMAIN apps
      BY <1>6, <2>1
    <3>2. apps[i].format = IF apps[i].own = "none" THEN logger[n].format ELSE apps[i].own
      BY <1>2, <1>5, <3>1 DEF AppendersFollow
    <3>3. new[i] = IF apps[i].own = "none" THEN [apps[i] EXCEPT !.format = d.format] ELSE apps[i]
      BY <1>7, <3>1
    <3> QED
      BY <3>1, <3>2, <3>3 DEF AnyAppender
  <2> QED
    BY <1>2, <1>8, <1>9, <2>1 DEF AppendersFollow
<1>12. n \notin mixed => OnWay(log, defs[n], d, "clear", update[u].left)
  BY <1>2, <1>9 DEF OnWay, SaysFormat
<1>13. LastOnes("clear", d.appenders, update[u].left)
  BY <1>2 DEF LastOnes
<1> HIDE DEF n, d, log
<1> QED
  BY <1>1, <1>2, <1>3, <1>4, <1>10, <1>11, <1>12, <1>13, OnLogger DEF n, d

LEMMA ClearAppenderKeeps ==
  ASSUME LogAssumption, LogInv, NEW u \in Updaters, ClearAppender(u)
  PROVE  LogInv'
<1> DEFINE n == update[u].name
           d == DefOf(u)
           log == [level |-> logger[n].level, format |-> logger[n].format, appenders |-> <<>>]
<1>1. update[u].pc = "clear" /\ UNCHANGED <<defs, mixed>>
  BY DEF ClearAppender, At
<1>2. /\ n \in LoggerNames /\ logger[n] \in AnyLogger /\ d \in LogDefines
      /\ update[u].left \in Seq([file : LogFiles, format : Formats])
      /\ LastOnes("clear", d.appenders, update[u].left)
      /\ n \notin mixed => OnWay(logger[n], defs[n], d, "clear", update[u].left)
  BY <1>1, AtLogger
<1>3. logger' = [logger EXCEPT ![n] = log]
  <2>1. logger' = [logger EXCEPT ![n] = [logger[n] EXCEPT !.appenders = <<>>]]
    BY DEF ClearAppender
  <2>2. [logger[n] EXCEPT !.appenders = <<>>] = log
    BY <1>2, LoggerWith
  <2> QED
    BY <2>1, <2>2
<1>4. update' = [update EXCEPT ![u] = [pc |-> "add", new |-> update[u].new, todo |-> update[u].todo,
                                       name |-> n, left |-> update[u].left]]
  BY Moved DEF ClearAppender
<1>5. log \in AnyLogger /\ AppendersFollow(log)
  BY <1>2 DEF AnyLogger, AppendersFollow
<1>6. Len(d.appenders) \in Nat /\ update[u].left = d.appenders
  BY <1>2 DEF LogDefines, LastOnes
<1>7. SaysAppenders(log, d, Len(d.appenders) - Len(update[u].left))
  BY <1>6 DEF SaysAppenders
<1>8. n \notin mixed => OnWay(log, defs[n], d, "add", update[u].left)
  BY <1>2, <1>7 DEF OnWay, SaysFormat
<1>9. LastOnes("add", d.appenders, update[u].left)
  BY <1>2 DEF LastOnes
<1> HIDE DEF n, d, log
<1> QED
  BY <1>1, <1>2, <1>3, <1>4, <1>5, <1>8, <1>9, OnLogger DEF n, d

LEMMA AppenderOfIs ==
  ASSUME NEW log \in AnyLogger, NEW a \in [file : LogFiles, format : Formats]
  PROVE  /\ AppenderOf(log, a) \in AnyAppender
         /\ AppenderOf(log, a).format =
              IF AppenderOf(log, a).own = "none" THEN log.format ELSE AppenderOf(log, a).own
BY DEF AppenderOf, Own, AnyLogger, AnyAppender, AnyFormat

LEMMA AddAppenderKeeps ==
  ASSUME LogAssumption, LogInv, NEW u \in Updaters, AddAppender(u)
  PROVE  LogInv'
<1> DEFINE n == update[u].name
           d == DefOf(u)
           ahead == update[u].left
           old == logger[n]
<1>1. update[u].pc = "add" /\ UNCHANGED <<defs, mixed>>
  BY DEF AddAppender, At
<1>2. /\ n \in LoggerNames /\ old \in AnyLogger /\ d \in LogDefines
      /\ ahead \in Seq([file : LogFiles, format : Formats])
      /\ AppendersFollow(old) /\ LastOnes("add", d.appenders, ahead)
      /\ n \notin mixed => OnWay(old, defs[n], d, "add", ahead)
  BY <1>1, AtLogger
<1>3. CASE ahead = <<>>
  <2>1. logger' = [logger EXCEPT ![n] = old]
    BY <1>2, <1>3 DEF AddAppender, LogInv, LogShape
  <2>2. update' = [update EXCEPT ![u] = [pc |-> "next", new |-> update[u].new, todo |-> update[u].todo,
                                         name |-> n, left |-> ahead]]
    <3>1. Moves(u, "next")
      BY <1>3 DEF AddAppender
    <3> QED
      BY <3>1, Moved
  <2>3. n \notin mixed => Says(old, d)
    <3>1. Len(d.appenders) \in Nat /\ Len(d.appenders) - Len(ahead) = Len(d.appenders)
      BY <1>2, <1>3 DEF LogDefines
    <3> QED
      BY <1>2, <3>1 DEF OnWay, Says, SaysLevel
  <2> HIDE DEF n, d, ahead, old
  <2> QED
    BY <1>1, <1>2, <2>1, <2>2, <2>3, OnLogger DEF n, d
<1>4. CASE ahead # <<>>
  <2> DEFINE a == AppenderOf(old, Head(ahead))
             log == [level |-> old.level, format |-> old.format, appenders |-> Append(old.appenders, a)]
  <2>1. logger' = [logger EXCEPT ![n].appenders = Append(@, a)] /\ update' = [update EXCEPT ![u].left = Tail(@)]
    BY <1>4 DEF AddAppender
  <2>2. logger' = [logger EXCEPT ![n] = log]
    <3>1. logger' = [logger EXCEPT ![n] = [old EXCEPT !.appenders = Append(old.appenders, a)]]
      BY <2>1
    <3>2. [old EXCEPT !.appenders = Append(old.appenders, a)] = log
      BY <1>2, LoggerWith
    <3> QED
      BY <3>1, <3>2
  <2>3. update' = [update EXCEPT ![u] = [pc |-> "add", new |-> update[u].new, todo |-> update[u].todo,
                                         name |-> n, left |-> Tail(ahead)]]
    <3>1. PICK p, v, t, m, l : update[u] = [pc |-> p, new |-> v, todo |-> t, name |-> m, left |-> l]
      BY DEF LogInv, LogShape
    <3>2. p = "add" /\ v = update[u].new /\ t = update[u].todo /\ m = n /\ l = ahead
      BY <1>1, <3>1
    <3>3. [update[u] EXCEPT !.left = Tail(ahead)] = [pc |-> p, new |-> v, todo |-> t, name |-> m, left |-> Tail(ahead)]
      <4>1. PICK x, b : x = update[u] /\ b = Tail(ahead)
        OBVIOUS
      <4>2. x = [pc |-> p, new |-> v, todo |-> t, name |-> m, left |-> l]
        BY <3>1, <4>1
      <4>3. [x EXCEPT !.left = b] = [pc |-> p, new |-> v, todo |-> t, name |-> m, left |-> b]
        BY <4>2
      <4> QED
        BY <4>1, <4>3
    <3>4. update' = [update EXCEPT ![u] = [update[u] EXCEPT !.left = Tail(ahead)]]
      BY <2>1
    <3> QED
      BY <3>2, <3>3, <3>4
  <2>4. /\ Head(ahead) \in [file : LogFiles, format : Formats] /\ Head(ahead) = ahead[1]
        /\ Tail(ahead) \in Seq([file : LogFiles, format : Formats])
        /\ Len(Tail(ahead)) = Len(ahead) - 1 /\ Len(ahead) \in Nat \ {0}
        /\ \A i \in 1..(Len(ahead) - 1) : Tail(ahead)[i] = ahead[i + 1]
    <3>1. PICK S, s : S = [file : LogFiles, format : Formats] /\ s = ahead
      OBVIOUS
    <3>2. s \in Seq(S) /\ s # <<>>
      BY <1>2, <1>4, <3>1
    <3>3. /\ Head(s) \in S /\ Head(s) = s[1] /\ Tail(s) \in Seq(S)
          /\ Len(s) \in Nat \ {0} /\ Len(Tail(s)) = Len(s) - 1
          /\ \A i \in 1..(Len(s) - 1) : Tail(s)[i] = s[i + 1]
      <4>1. Len(s) \in Nat \ {0} /\ Head(s) = s[1]
        BY <3>2
      <4>2. Head(s) \in S
        BY <3>2, <4>1
      <4> QED
        BY <3>2, <4>1, <4>2, HeadTailProperties
    <3> QED
      BY <3>1, <3>3
  <2>5. a \in AnyAppender /\ a.format = IF a.own = "none" THEN old.format ELSE a.own
    BY <1>2, <2>4, AppenderOfIs
  <2>6. PICK apps \in Seq(AnyAppender), k \in Nat : apps = old.appenders /\ k = Len(apps)
    BY <1>2 DEF AnyLogger
  <2> HIDE DEF a
  <2>7. PICK new \in Seq(AnyAppender) :
          /\ new = Append(apps, a) /\ Len(new) = k + 1 /\ new[k + 1] = a
          /\ \A i \in 1..k : new[i] = apps[i]
    <3>1. PICK new : new = Append(apps, a)
      OBVIOUS
    <3>2. a \in AnyAppender
      BY <2>5
    <3>3. /\ new \in Seq(AnyAppender) /\ Len(new) = Len(apps) + 1
          /\ new[Len(apps) + 1] = a /\ \A i \in 1..Len(apps) : new[i] = apps[i]
      BY <3>1, <3>2, AppendProperties
    <3> QED
      BY <2>6, <3>1, <3>3
  <2>8. DOMAIN apps = 1..k /\ DOMAIN new = 1..(k + 1)
    BY <2>6, <2>7
  <2>9. log = [level |-> old.level, format |-> old.format, appenders |-> new]
    BY <2>6, <2>7
  <2>10. log \in AnyLogger
    BY <1>2, <2>9 DEF AnyLogger
  <2>11. AppendersFollow(log)
    <3> SUFFICES ASSUME NEW i \in 1..(k + 1)
                 PROVE  new[i].format = IF new[i].own = "none" THEN old.format ELSE new[i].own
      BY <2>8, <2>9 DEF AppendersFollow
    <3>1. CASE i = k + 1
      BY <2>5, <2>7, <3>1
    <3>2. CASE i # k + 1
      <4>1. i \in 1..k
        BY <3>2
      <4> QED
        <5>1. apps[i].format = IF apps[i].own = "none" THEN old.format ELSE apps[i].own
          BY <1>2, <2>6, <2>8, <4>1, Zenon DEF AppendersFollow
        <5> QED
          BY <2>7, <4>1, <5>1
    <3> QED
      BY <3>1, <3>2
  <2>12. PICK size \in Nat, rest \in Nat :
           /\ size = Len(d.appenders) /\ rest = Len(ahead) - 1 /\ rest + 1 <= size
           /\ \A i \in 1..(rest + 1) : ahead[i] = d.appenders[size - (rest + 1) + i]
    <3>1. Len(d.appenders) \in Nat /\ Len(ahead) <= Len(d.appenders)
      BY <1>2 DEF LogDefines, LastOnes
    <3>2. PICK size \in Nat : size = Len(d.appenders)
      BY <3>1
    <3>3. PICK rest \in Nat : rest = Len(ahead) - 1 /\ rest + 1 = Len(ahead)
      <4>1. PICK m \in Nat \ {0} : m = Len(ahead)
        BY <2>4
      <4>2. m - 1 \in Nat /\ (m - 1) + 1 = m
        OBVIOUS
      <4> QED
        BY <4>1, <4>2
    <3>4. \A i \in 1..(rest + 1) : ahead[i] = d.appenders[size - (rest + 1) + i]
      BY <1>2, <3>2, <3>3 DEF LastOnes
    <3>5. rest + 1 <= size
      BY <3>1, <3>2, <3>3
    <3> QED
      BY <3>2, <3>3, <3>4, <3>5
  <2>13. LastOnes("add", d.appenders, Tail(ahead))
    <3>1. Len(Tail(ahead)) = rest /\ rest <= size
      BY <2>4, <2>12
    <3>2. ASSUME NEW i \in 1..rest PROVE Tail(ahead)[i] = d.appenders[size - rest + i]
      <4>1. i + 1 \in 1..(rest + 1) /\ size - (rest + 1) + (i + 1) = size - rest + i
        OBVIOUS
      <4>2. i \in 1..(Len(ahead) - 1)
        BY <2>12
      <4> QED
        BY <2>4, <2>12, <4>1, <4>2
    <3> QED
      BY <2>12, <3>1, <3>2 DEF LastOnes
  <2>14. n \notin mixed => OnWay(log, defs[n], d, "add", Tail(ahead))
    <3> SUFFICES ASSUME n \notin mixed PROVE OnWay(log, defs[n], d, "add", Tail(ahead))
      OBVIOUS
    <3>1. k = size - (rest + 1) /\ \A i \in 1..k : apps[i] = AppenderOf(old, d.appenders[i])
      <4>1. Len(d.appenders) - Len(ahead) = size - (rest + 1)
        BY <2>4, <2>12
      <4>2. SaysAppenders(old, d, size - (rest + 1))
        BY <1>2, <4>1 DEF OnWay
      <4> QED
        BY <2>6, <4>2 DEF SaysAppenders
    <3>2. ASSUME NEW x PROVE AppenderOf(log, x) = AppenderOf(old, x)
      BY <2>9 DEF AppenderOf
    <3>3. a = AppenderOf(old, d.appenders[k + 1])
      <4>1. 1 \in 1..(rest + 1) /\ size - (rest + 1) + 1 = k + 1
        BY <3>1, <2>12
      <4>2. ahead[1] = d.appenders[k + 1]
        BY <2>12, <4>1
      <4> QED
        BY <2>4, <4>2 DEF a
    <3>4. \A i \in 1..(k + 1) : new[i] = AppenderOf(log, d.appenders[i])
      <4> TAKE i \in 1..(k + 1)
      <4>1. CASE i = k + 1
        BY <2>7, <3>2, <3>3, <4>1
      <4>2. CASE i # k + 1
        <5>1. i \in 1..k
          BY <4>2
        <5> QED
          BY <2>7, <3>1, <3>2, <5>1
      <4> QED
        BY <4>1, <4>2
    <3>5. Len(d.appenders) - Len(Tail(ahead)) = k + 1
      <4>1. Len(Tail(ahead)) = rest /\ Len(d.appenders) = size /\ k = size - (rest + 1)
        BY <2>4, <2>12, <3>1
      <4>2. k = size - (rest + 1) => size - rest = k + 1
        OBVIOUS
      <4> QED
        BY <4>1, <4>2, Zenon
    <3>6. SaysAppenders(log, d, Len(d.appenders) - Len(Tail(ahead)))
      BY <2>7, <2>9, <3>4, <3>5 DEF SaysAppenders
    <3>7. log.level = d.level /\ SaysFormat(log, d)
      BY <1>2, <2>9 DEF OnWay, SaysFormat
    <3> QED
      BY <3>6, <3>7 DEF OnWay
  <2> HIDE DEF n, d, ahead, old, log
  <2> QED
    BY <1>1, <1>2, <2>2, <2>3, <2>4, <2>10, <2>11, <2>13, <2>14, OnLogger DEF n, d
<1> QED
  BY <1>3, <1>4

LEMMA NextDefKeeps ==
  ASSUME LogAssumption, LogInv, NEW u \in Updaters, NextDef(u)
  PROVE  LogInv'
<1>1. PICK n \in update[u].todo :
        /\ update[u].pc = "next" /\ UNCHANGED <<logger, defs, mixed>>
        /\ update' = [update EXCEPT ![u] =
             [pc |-> "level", new |-> update[u].new, todo |-> update[u].todo \ {n}, name |-> n,
              left |-> update[u].new[n].appenders]]
  BY DEF NextDef, At
<1>2. PICK v, t, ahead : v = update[u].new /\ t = update[u].todo /\ ahead = v[n].appenders
  OBVIOUS
<1>3. /\ update'[u] = [pc |-> "level", new |-> v, todo |-> t \ {n}, name |-> n, left |-> ahead]
      /\ \A w \in Updaters \ {u} : update'[w] = update[w]
      /\ DOMAIN update' = Updaters
  BY <1>1, <1>2 DEF LogInv, LogShape
<1>4. /\ update'[u].pc = "level" /\ update'[u].new = v /\ update'[u].todo = t \ {n}
      /\ update'[u].name = n /\ update'[u].left = ahead
  BY <1>3
<1>5. /\ n \in LoggerNames /\ t \subseteq LoggerNames /\ v \in LogSettings /\ u \in Working
      /\ n \in t
  BY <1>1, <1>2 DEF LogInv, LogShape, Working
<1>6. Working' = Working
  BY <1>3, <1>4, <1>5 DEF Working
<1>7. Pending(u)' = t /\ Pending(u) = t /\ \A w \in Updaters \ {u} : Pending(w)' = Pending(w)
  BY <1>1, <1>2, <1>3, <1>4, <1>5 DEF Pending
<1>8. \A w \in Updaters : Pending(w)' = Pending(w) /\ update'[w].new = update[w].new
  BY <1>2, <1>3, <1>4, <1>7
<1>9. v[n] \in LogDefines /\ ahead \in Seq([file : LogFiles, format : Formats])
  BY <1>2, <1>5 DEF LogAssumption, LogDefines
<1>10. LogShape'
  BY <1>1, <1>3, <1>4, <1>5, <1>9 DEF LogInv, LogShape
<1>11. FormatsFollow' /\ OverlapMixes' /\ PendingDiffers' /\ SaidBefore'
  BY <1>1, <1>6, <1>8
     DEF LogInv, FormatsFollow, OverlapMixes, PendingDiffers, SaidBefore, Says, SaysLevel, SaysFormat,
         SaysAppenders, AppenderOf, Own, Working
<1>12. SaidAfter'
  <2> SUFFICES ASSUME NEW w \in Working', NEW k \in LoggerNames \ mixed', k \notin Pending(w)'
               PROVE  Says(logger'[k], update'[w].new[k])
    BY DEF SaidAfter, Says, SaysLevel, SaysFormat, SaysAppenders, AppenderOf, Own
  <2>1. w \in Working /\ k \in LoggerNames \ mixed /\ k \notin Pending(w) /\ logger' = logger
        /\ update'[w].new = update[w].new
    BY <1>1, <1>6, <1>8 DEF Working
  <2>2. Says(logger[k], update[w].new[k])
    BY <2>1 DEF LogInv, SaidAfter
  <2> QED
    BY <2>1, <2>2
<1>13. StillBefore'
  <2>1. \A w \in Working : update'[w].todo \subseteq update[w].todo
    BY <1>2, <1>3, <1>4 DEF Working
  <2> QED
    BY <1>1, <1>6, <2>1 DEF LogInv, StillBefore, SaysLevel
<1>14. OnTheWay'
  <2> SUFFICES ASSUME NEW w \in Working', update'[w].pc # "next", update'[w].name \notin mixed'
               PROVE  OnWay(logger'[update'[w].name], defs'[update'[w].name],
                            update'[w].new[update'[w].name], update'[w].pc, update'[w].left)
    BY DEF OnTheWay, OnWay, DefOf, SaysLevel, SaysFormat, SaysAppenders, AppenderOf, Own
  <2>1. w \in Working /\ w \in Updaters /\ logger' = logger /\ defs' = defs /\ mixed' = mixed
    BY <1>1, <1>6 DEF Working
  <2>2. CASE w = u
    <3>1. SaysLevel(logger[n], defs[n])
      BY <1>2, <1>4, <1>5, <2>1, <2>2 DEF LogInv, StillBefore
    <3> QED
      BY <1>4, <2>1, <2>2, <3>1 DEF OnWay
  <2>3. CASE w # u
    <3>1. update'[w] = update[w]
      BY <1>3, <2>1, <2>3
    <3>2. OnWay(logger[update[w].name], defs[update[w].name], DefOf(w), update[w].pc, update[w].left)
      BY <2>1, <3>1 DEF LogInv, OnTheWay, OnWay
    <3> QED
      BY <2>1, <3>1, <3>2 DEF DefOf
  <2> QED
    BY <2>2, <2>3
<1>15. LeftOver'
  <2> SUFFICES ASSUME NEW w \in Working', update'[w].pc # "next"
               PROVE  LastOnes(update'[w].pc, update'[w].new[update'[w].name].appenders, update'[w].left)
    BY DEF LeftOver, LastOnes, DefOf
  <2>1. w \in Working /\ w \in Updaters
    BY <1>6 DEF Working
  <2>2. CASE w = u
    <3>1. PICK k \in Nat : k = Len(ahead)
      BY <1>9
    <3>2. \A i \in 1..k : ahead[i] = ahead[k - k + i]
      OBVIOUS
    <3>3. LastOnes("level", ahead, ahead)
      BY <3>1, <3>2 DEF LastOnes
    <3> QED
      BY <1>2, <1>4, <2>2, <3>3
  <2>3. CASE w # u
    <3>1. update'[w] = update[w]
      BY <1>3, <2>1, <2>3
    <3>2. LastOnes(update[w].pc, DefOf(w).appenders, update[w].left)
      BY <2>1, <3>1 DEF LogInv, LeftOver, LastOnes
    <3> QED
      BY <3>1, <3>2 DEF DefOf
  <2> QED
    BY <2>2, <2>3
<1> QED
  BY <1>10, <1>11, <1>12, <1>13, <1>14, <1>15 DEF LogInv

LEMMA AssignLogsKeeps ==
  ASSUME LogAssumption, LogInv, NEW u \in Updaters, AssignLogs(u)
  PROVE  LogInv'
<1>1. /\ update[u].pc = "next" /\ update[u].todo = {} /\ UNCHANGED <<logger, mixed>>
      /\ defs' = update[u].new /\ update' = [update EXCEPT ![u] = Still]
  BY DEF AssignLogs
<1>2. /\ update'[u] = Still /\ update'[u].pc = "out" /\ update'[u].todo = {}
      /\ update'[u].name = "root"
      /\ \A w \in Updaters \ {u} : update'[w] = update[w]
      /\ DOMAIN update' = Updaters
  BY <1>1 DEF LogInv, LogShape, Still
<1>3. Working' = Working \ {u} /\ u \in Working
  BY <1>1, <1>2 DEF Working
<1>4. Pending(u) = {} /\ \A w \in Updaters \ {u} : Pending(w)' = Pending(w)
  BY <1>1, <1>2 DEF Pending
<1>5. defs' \in LogSettings /\ defs' \in [LoggerNames -> AnyDefine]
  BY <1>1 DEF LogInv, LogShape, LogAssumption, AnyDefine
<1>6. ASSUME NEW w \in Working', NEW n \in LoggerNames \ mixed
      PROVE  defs'[n] = defs[n]
  BY <1>1, <1>3, <1>6 DEF LogInv, OverlapMixes
<1>7. ASSUME NEW w \in Working' PROVE w \in Working /\ w \in Updaters \ {u} /\ update'[w] = update[w]
  BY <1>2, <1>3, <1>7 DEF Working
<1>8. ASSUME NEW w \in Working' PROVE Pending(w)' = Pending(w) /\ Pending(w) \subseteq LoggerNames
  BY <1>4, <1>7, <1>8 DEF Pending, LogInv, LogShape
<1>9. LogShape'
  BY <1>1, <1>2, <1>5 DEF LogInv, LogShape, LogAssumption, Still
<1>10. FormatsFollow'
  BY <1>1 DEF LogInv, FormatsFollow
<1>11. OverlapMixes'
  BY <1>1, <1>6, <1>7 DEF LogInv, OverlapMixes
<1>12. PendingDiffers'
  <2> SUFFICES ASSUME NEW w \in Working', NEW n \in Pending(w) \ mixed
               PROVE  update[w].new[n] # defs'[n]
    BY <1>1, <1>7, <1>8 DEF PendingDiffers
  <2> QED
    BY <1>6, <1>7, <1>8 DEF LogInv, PendingDiffers
<1>13. SaidBefore'
  <2>1. \A n \in LoggerNames \ mixed : Says(logger[n], update[u].new[n])
    BY <1>3, <1>4 DEF LogInv, SaidAfter
  <2>2. SUFFICES ASSUME NEW n \in LoggerNames \ mixed PROVE Says(logger'[n], defs'[n])
    BY <1>1 DEF SaidBefore
  <2> QED
    BY <1>1, <2>1, Zenon
<1>14. SaidAfter'
  <2> SUFFICES ASSUME NEW w \in Working', NEW n \in LoggerNames \ mixed, n \notin Pending(w)
               PROVE  Says(logger'[n], update'[w].new[n])
    BY <1>1, <1>8, Zenon DEF SaidAfter
  <2>1. logger' = logger /\ update'[w] = update[w]
    BY <1>1, <1>7
  <2>2. Says(logger[n], update[w].new[n])
    BY <1>7 DEF LogInv, SaidAfter
  <2> QED
    BY <2>1, <2>2
<1>15. StillBefore'
  <2> SUFFICES ASSUME NEW w \in Working', NEW n \in update[w].todo \ mixed
               PROVE  SaysLevel(logger[n], defs'[n])
    BY <1>1, <1>7 DEF StillBefore, SaysLevel
  <2>1. n \in LoggerNames
    BY <1>7 DEF LogInv, LogShape
  <2> QED
    BY <1>6, <1>7, <2>1 DEF LogInv, StillBefore
<1>16. OnTheWay'
  <2> SUFFICES ASSUME NEW w \in Working', update'[w].pc # "next", update'[w].name \notin mixed'
               PROVE  OnWay(logger'[update'[w].name], defs'[update'[w].name],
                            update'[w].new[update'[w].name], update'[w].pc, update'[w].left)
    BY DEF OnTheWay, OnWay, DefOf, SaysLevel, SaysFormat, SaysAppenders, AppenderOf, Own
  <2>1. w \in Working /\ update'[w] = update[w] /\ logger' = logger /\ mixed' = mixed
    BY <1>1, <1>7
  <2>2. update[w].name \in LoggerNames
    BY <2>1 DEF LogInv, LogShape, Working
  <2>3. defs'[update[w].name] = defs[update[w].name]
    BY <1>6, <2>1, <2>2
  <2>4. OnWay(logger[update[w].name], defs[update[w].name], DefOf(w), update[w].pc, update[w].left)
    BY <2>1 DEF LogInv, OnTheWay, OnWay
  <2> QED
    BY <2>1, <2>3, <2>4 DEF DefOf
<1>17. LeftOver'
  <2> SUFFICES ASSUME NEW w \in Working', update'[w].pc # "next"
               PROVE  LastOnes(update'[w].pc, update'[w].new[update'[w].name].appenders, update'[w].left)
    BY DEF LeftOver, LastOnes, DefOf
  <2>1. w \in Working /\ update'[w] = update[w]
    BY <1>7
  <2>2. LastOnes(update[w].pc, DefOf(w).appenders, update[w].left)
    BY <2>1 DEF LogInv, LeftOver, LastOnes
  <2> QED
    BY <2>1, <2>2 DEF DefOf
<1> QED
  BY <1>9, <1>10, <1>11, <1>12, <1>13, <1>14, <1>15, <1>16, <1>17 DEF LogInv

LEMMA ChangeLogsKeeps ==
  ASSUME LogAssumption, LogInv, NEW u \in Updaters, NEW new \in LogSettings, ChangeLogs(u, new)
  PROVE  LogInv'
<1>1. /\ update[u].pc = "out" /\ UNCHANGED <<logger, defs>>
      /\ update' = [update EXCEPT ![u] = [pc |-> "next", new |-> new, todo |-> Changed(new), name |-> "root",
                                          left |-> <<>>]]
      /\ mixed' = IF Working = {} THEN mixed
                  ELSE mixed \cup Changed(new) \cup UNION {Changed(update[w].new) : w \in Working}
  BY DEF ChangeLogs
<1>3. /\ update'[u] = [pc |-> "next", new |-> new, todo |-> Changed(new), name |-> "root", left |-> <<>>]
      /\ \A w \in Updaters \ {u} : update'[w] = update[w]
      /\ DOMAIN update' = Updaters
  BY <1>1 DEF LogInv, LogShape
<1>4. /\ update'[u].pc = "next" /\ update'[u].new = new /\ update'[u].todo = Changed(new)
      /\ update'[u].name = "root" /\ update'[u].left = <<>>
  BY <1>3
<1>5. Working' = Working \cup {u} /\ u \notin Working
  BY <1>1, <1>3, <1>4 DEF Working
<1>6. /\ Changed(new) \subseteq LoggerNames /\ Pending(u)' = Changed(new)
      /\ \A w \in Updaters \ {u} : Pending(w)' = Pending(w)
  BY <1>3, <1>4 DEF Pending, Changed
<1>7. ASSUME NEW w \in Working, NEW n \in LoggerNames \ mixed'
      PROVE  n \notin mixed /\ new[n] = defs[n] /\ update[w].new[n] = defs[n]
  <2>1. n \notin mixed /\ n \notin Changed(new) /\ n \notin Changed(update[w].new)
    BY <1>1, <1>7
  <2> QED
    BY <2>1 DEF Changed
<1>8. mixed \subseteq mixed'
  BY <1>1
<1>9. ASSUME NEW w \in Working'
      PROVE  w = u \/ (w \in Working /\ w \in Updaters /\ w # u /\ update'[w] = update[w]
                       /\ Pending(w)' = Pending(w))
  BY <1>3, <1>5, <1>6, <1>9 DEF Working
<1>10. ASSUME NEW w \in Working PROVE Pending(w) \subseteq LoggerNames
  BY <1>10 DEF Pending, Working, LogInv, LogShape
<1>11. LogShape'
  <2>1. logger' \in [LoggerNames -> AnyLogger] /\ defs' \in [LoggerNames -> AnyDefine]
    BY <1>1 DEF LogInv, LogShape
  <2> QED
    BY <1>3, <1>4, <1>6, <2>1, ZenonT(30) DEF LogInv, LogShape, LogAssumption
<1>12. FormatsFollow'
  BY <1>1 DEF LogInv, FormatsFollow
<1>13. OverlapMixes'
  <2> SUFFICES ASSUME NEW v \in Working', NEW w \in Working', v # w, NEW n \in LoggerNames \ mixed'
               PROVE  update'[v].new[n] = defs[n]
    BY <1>1 DEF OverlapMixes
  <2>1. CASE v = u
    BY <1>4, <1>7, <1>9, <2>1
  <2>2. CASE v # u
    BY <1>7, <1>9, <2>2
  <2> QED
    BY <2>1, <2>2
<1>14. PendingDiffers'
  <2> SUFFICES ASSUME NEW w \in Working', NEW n \in Pending(w)' \ mixed'
               PROVE  update'[w].new[n] # defs[n]
    BY <1>1 DEF PendingDiffers
  <2>1. CASE w = u
    BY <1>4, <1>6, <2>1 DEF Changed
  <2>2. CASE w # u
    BY <1>7, <1>8, <1>9, <1>10, <2>2 DEF LogInv, PendingDiffers
  <2> QED
    BY <2>1, <2>2
<1>15. SaidBefore'
  BY <1>5 DEF SaidBefore
<1>16. SaidAfter'
  <2> SUFFICES ASSUME NEW w \in Working', NEW n \in LoggerNames \ mixed', n \notin Pending(w)'
               PROVE  Says(logger'[n], update'[w].new[n])
    BY DEF SaidAfter, Says, SaysLevel, SaysFormat, SaysAppenders, AppenderOf, Own
  <2>1. n \notin mixed /\ logger' = logger
    BY <1>1, <1>8
  <2>2. CASE w # u
    BY <1>9, <2>1, <2>2 DEF LogInv, SaidAfter
  <2>3. CASE w = u
    <3>1. update'[w].new[n] = defs[n]
      BY <1>4, <1>6, <2>3 DEF Changed
    <3>2. CASE Working = {}
      BY <2>1, <3>1, <3>2 DEF LogInv, SaidBefore
    <3>3. CASE Working # {}
      <4>1. PICK v \in Working : v \in Working
        BY <3>3
      <4>2. update[v].new[n] = defs[n]
        BY <1>7
      <4>3. n \notin Pending(v)
        BY <2>1, <4>2 DEF LogInv, PendingDiffers
      <4>4. Says(logger[n], update[v].new[n])
        BY <2>1, <4>3 DEF LogInv, SaidAfter
      <4> QED
        BY <2>1, <3>1, <4>2, <4>4
    <3> QED
      BY <3>2, <3>3
  <2> QED
    BY <2>2, <2>3
<1>17. StillBefore'
  <2> SUFFICES ASSUME NEW w \in Working', NEW n \in update'[w].todo \ mixed'
               PROVE  SaysLevel(logger[n], defs[n])
    BY <1>1 DEF StillBefore, SaysLevel
  <2>1. CASE w # u
    BY <1>8, <1>9, <2>1 DEF LogInv, StillBefore
  <2>2. CASE w = u
    <3>1. n \in Changed(new) /\ n \in LoggerNames /\ n \notin mixed
      BY <1>4, <1>6, <1>8, <2>2
    <3>2. Working = {}
      BY <1>7, <3>1 DEF Changed
    <3> QED
      BY <3>1, <3>2 DEF LogInv, SaidBefore, Says
  <2> QED
    BY <2>1, <2>2
<1>18. OnTheWay'
  <2> SUFFICES ASSUME NEW w \in Working', update'[w].pc # "next", update'[w].name \notin mixed'
               PROVE  OnWay(logger'[update'[w].name], defs'[update'[w].name],
                            update'[w].new[update'[w].name], update'[w].pc, update'[w].left)
    BY DEF OnTheWay, OnWay, DefOf, SaysLevel, SaysFormat, SaysAppenders, AppenderOf, Own
  <2>1. w \in Working /\ update'[w] = update[w] /\ logger' = logger /\ defs' = defs /\ update[w].name \notin mixed
    BY <1>1, <1>4, <1>8, <1>9
  <2>2. OnWay(logger[update[w].name], defs[update[w].name], DefOf(w), update[w].pc, update[w].left)
    BY <2>1 DEF LogInv, OnTheWay, OnWay
  <2> QED
    BY <2>1, <2>2 DEF DefOf
<1>19. LeftOver'
  <2> SUFFICES ASSUME NEW w \in Working', update'[w].pc # "next"
               PROVE  LastOnes(update'[w].pc, update'[w].new[update'[w].name].appenders, update'[w].left)
    BY DEF LeftOver, LastOnes, DefOf
  <2>1. w \in Working /\ update'[w] = update[w]
    BY <1>4, <1>9
  <2>2. LastOnes(update[w].pc, DefOf(w).appenders, update[w].left)
    BY <2>1 DEF LogInv, LeftOver, LastOnes
  <2> QED
    BY <2>1, <2>2 DEF DefOf
<1> QED
  BY <1>11, <1>12, <1>13, <1>14, <1>15, <1>16, <1>17, <1>18, <1>19 DEF LogInv

LEMMA LogInitInv == LogAssumption /\ LogInit => LogInv
<1> SUFFICES ASSUME LogAssumption, LogInit PROVE LogInv
  OBVIOUS
<1> DEFINE stdout == [file |-> "stdout", own |-> "none", format |-> "default"]
<1>1. stdout \in AnyAppender
  BY DEF AnyAppender, AnyFormat
<1>2. <<stdout>> \in Seq(AnyAppender) /\ <<>> \in Seq(AnyAppender)
  BY <1>1
<1> HIDE DEF stdout
<1>3. logger = [n \in LoggerNames |->
                  [level |-> 1, format |-> "default", appenders |-> IF n = "root" THEN <<stdout>> ELSE <<>>]]
  BY DEF LogInit, stdout
<1>4. logger \in [LoggerNames -> AnyLogger]
  BY <1>2, <1>3 DEF AnyLogger, AnyFormat
<1>5. /\ defs \in [LoggerNames -> AnyDefine] /\ \A n \in LoggerNames : defs[n] = NoDef
  BY DEF LogInit, AnyDefine
<1>6. /\ DOMAIN update = Updaters
      /\ \A u \in Updaters : update[u] = Still /\ update[u].pc = "out" /\ update[u].todo = {}
                             /\ update[u].name = "root"
  BY DEF LogInit, Still
<1>7. LogShape
  BY <1>4, <1>5, <1>6 DEF LogShape, Still, LogAssumption
<1>8. Working = {}
  BY <1>6 DEF Working
<1>9. FormatsFollow
  <2> SUFFICES ASSUME NEW n \in LoggerNames, NEW i \in DOMAIN logger[n].appenders
               PROVE  logger[n].appenders[i].format =
                        IF logger[n].appenders[i].own = "none" THEN logger[n].format
                        ELSE logger[n].appenders[i].own
    BY DEF FormatsFollow
  <2>1. logger[n].format = "default" /\ logger[n].appenders = IF n = "root" THEN <<stdout>> ELSE <<>>
    BY <1>3
  <2>2. DOMAIN <<>> = {} /\ DOMAIN <<stdout>> = {1} /\ <<stdout>>[1] = stdout
    OBVIOUS
  <2>3. logger[n].appenders[i] = stdout
    BY <2>1, <2>2
  <2> QED
    BY <2>1, <2>3 DEF stdout
<1>10. SaidBefore
  BY <1>3, <1>5 DEF SaidBefore, Says, SaysLevel, NoDef
<1> QED
  BY <1>7, <1>8, <1>9, <1>10
     DEF LogInv, OverlapMixes, PendingDiffers, SaidAfter, StillBefore, OnTheWay, LeftOver

LEMMA LogStepInv == LogAssumption /\ LogInv /\ [LogNext]_logVars => LogInv'
<1> SUFFICES ASSUME LogAssumption, LogInv, [LogNext]_logVars PROVE LogInv'
  OBVIOUS
<1>1. CASE UNCHANGED logVars
  <2>1. logger' = logger /\ defs' = defs /\ update' = update /\ mixed' = mixed
    BY <1>1 DEF logVars
  <2>2. Working' = Working /\ \A u \in Updaters : Pending(u)' = Pending(u)
    BY <2>1 DEF Working, Pending
  <2>3. LogShape' /\ FormatsFollow' /\ OverlapMixes' /\ PendingDiffers'
    <3>1. LogShape'
      BY <2>1 DEF LogInv, LogShape
    <3>2. FormatsFollow'
      BY <2>1 DEF LogInv, FormatsFollow
    <3>3. OverlapMixes'
      BY <2>1, <2>2 DEF LogInv, OverlapMixes
    <3>4. PendingDiffers'
      BY <2>1, <2>2 DEF LogInv, PendingDiffers, Working
    <3> QED
      BY <3>1, <3>2, <3>3, <3>4
  <2>4. SaidBefore' /\ SaidAfter'
    <3>1. SaidBefore'
      BY <2>1, <2>2 DEF LogInv, SaidBefore
    <3>2. SaidAfter'
      <4> SUFFICES ASSUME NEW u \in Working, NEW n \in LoggerNames \ mixed, n \notin Pending(u)
                   PROVE  Says(logger[n], update[u].new[n])
        <5>1. \A u \in Working : Pending(u)' = Pending(u)
          BY <2>2 DEF Working
        <5> QED
          BY <2>1, <2>2, <5>1, Zenon DEF SaidAfter
      <4> QED
        BY Zenon DEF LogInv, SaidAfter
    <3> QED
      BY <3>1, <3>2
  <2>5. StillBefore' /\ LeftOver'
    BY <2>1, <2>2 DEF LogInv, StillBefore, LeftOver, SaysLevel, DefOf
  <2>6. OnTheWay'
    <3> SUFFICES ASSUME NEW w \in Working', update'[w].pc # "next", update'[w].name \notin mixed'
                 PROVE  OnWay(logger'[update'[w].name], defs'[update'[w].name],
                              update'[w].new[update'[w].name], update'[w].pc, update'[w].left)
      BY DEF OnTheWay, OnWay, DefOf, SaysLevel, SaysFormat, SaysAppenders, AppenderOf, Own
    <3>1. OnWay(logger[update[w].name], defs[update[w].name], DefOf(w), update[w].pc, update[w].left)
      BY <2>1, <2>2 DEF LogInv, OnTheWay, OnWay
    <3> QED
      BY <2>1, <3>1 DEF DefOf
  <2> QED
    BY <2>3, <2>4, <2>5, <2>6 DEF LogInv
<1>2. CASE LogNext
  BY <1>2, ChangeLogsKeeps, NextDefKeeps, AssignLogsKeeps, SetLevelKeeps, SetFormatterKeeps,
     ClearAppenderKeeps, AddAppenderKeeps DEF LogNext
<1> QED
  BY <1>1, <1>2

LEMMA LogsAsConfigured == LogAssumption /\ LogInv => AsConfigured
<1> SUFFICES ASSUME LogAssumption, LogInv, Working = {}, NEW n \in LoggerNames \ mixed, defs[n].defined
             PROVE  /\ logger[n].level = defs[n].level
                    /\ defs[n].format \notin BadFormats \cup {"none"} => logger[n].format = defs[n].format
                    /\ Len(logger[n].appenders) = Len(defs[n].appenders)
                    /\ \A i \in DOMAIN defs[n].appenders :
                         logger[n].appenders[i] = AppenderOf(logger[n], defs[n].appenders[i])
  BY DEF AsConfigured
<1>1. Says(logger[n], defs[n])
  BY DEF LogInv, SaidBefore
<1>2. defs[n] \in LogDefines
  BY DEF LogInv, LogShape, AnyDefine, NoDef
<1>3. DOMAIN defs[n].appenders = 1..Len(defs[n].appenders)
  BY <1>2 DEF LogDefines
<1> QED
  BY <1>1, <1>3 DEF Says, SaysFormat, SaysAppenders

LEMMA LogsHeard == LogAssumption /\ LogInv => NotSilenced
<1> SUFFICES ASSUME LogAssumption, LogInv, NEW n \in LoggerNames \ mixed, NEW v \in LogLevels,
                    \A d \in {defs[n]} \cup {update[u].new[n] : u \in Working} : v >= d.level,
                    v >= logger["root"].level, logger["root"].appenders # <<>>
             PROVE  Reached(n, v) # {}
  BY DEF NotSilenced
<1>1. v \in Nat /\ v >= 1 /\ "root" \in LoggerNames
  <2>1. v \in Nat \ {0} /\ "root" \in LoggerNames
    BY DEF LogAssumption
  <2>2. v \in Nat \ {0} => v \in Nat /\ v >= 1
    OBVIOUS
  <2> QED
    BY <2>1, <2>2
<1>2. logger[n] \in AnyLogger /\ logger["root"] \in AnyLogger
  BY <1>1 DEF LogInv, LogShape
<1>3. logger[n].level <= v
  <2>1. CASE Working = {}
    BY <1>1, <2>1 DEF LogInv, SaidBefore, Says, SaysLevel
  <2>2. CASE Working # {}
    <3>1. PICK u \in Working : u \in Updaters /\ update[u].pc # "out"
      BY <2>2 DEF Working
    <3>2. v >= defs[n].level /\ v >= update[u].new[n].level
      BY <3>1
    <3>3. CASE n \notin Pending(u)
      BY <1>1, <3>1, <3>2, <3>3 DEF LogInv, SaidAfter, Says, SaysLevel
    <3>4. CASE n \in update[u].todo
      BY <1>1, <3>1, <3>2, <3>4 DEF LogInv, StillBefore, SaysLevel
    <3>5. CASE n \in Pending(u) /\ n \notin update[u].todo
      <4>1. update[u].pc # "next" /\ n = update[u].name
        BY <3>5 DEF Pending
      <4>2. logger[n].level \in {1, defs[n].level, update[u].new[n].level}
        BY <4>1, <3>1 DEF LogInv, OnTheWay, SaysLevel, DefOf
      <4> QED
        BY <1>1, <3>2, <4>2
    <3> QED
      BY <3>3, <3>4, <3>5
  <2> QED
    BY <2>1, <2>2
<1>4. ASSUME NEW s \in Seq(AnyAppender), s # <<>> PROVE ToSet(s) # {}
  <2>1. 1 \in DOMAIN s
    BY <1>4
  <2> QED
    BY <2>1 DEF ToSet
<1>5. ToSet(logger["root"].appenders) # {} /\ (logger[n].appenders # <<>> => ToSet(logger[n].appenders) # {})
  BY <1>2, <1>4 DEF AnyLogger
<1>6. ~(v < logger[n].level)
  BY <1>1, <1>2, <1>3 DEF AnyLogger
<1> QED
  BY <1>2, <1>3, <1>5, <1>6 DEF Reached

(* Loggers follow their configuration: an appender without a formatter of its own writes with its
   logger's; when no update runs, a logger has the level, the format and the appenders of its
   definition; and no message that the old and the new definition let through is lost on the way,
   but for loggers that two updates changed at once.  It is so for every set of loggers, settings
   and updating threads (the listener of "logs", log.cc:845-896, Logger::setFormatter). *)
THEOREM LogsCorrect == LogSpec => []LogsFollow
<1> USE LogAssumption
<1>1. LogInit => LogInv
  BY LogInitInv
<1>2. LogInv /\ [LogNext]_logVars => LogInv'
  BY LogStepInv
<1>3. LogInv => LogsFollow
  BY LogsAsConfigured, LogsHeard DEF LogInv, LogsFollow
<1> QED
  BY <1>1, <1>2, <1>3, PTL DEF LogSpec

-----------------------------------------------------------------------------
(* The digits of a number: what a word is cut into and put together from. *)

(* One digit more: what is left of v below p * b is what is left below p and the next digit. *)
LEMMA DigitStep ==
  ASSUME NEW v \in Nat, NEW p \in Nat \ {0}, NEW b \in Nat \ {0}
  PROVE  (v % p) + (((v \div p) % b) * p) = v % (p * b)
<1>1. PICK q \in Nat, r \in 0 .. p - 1 : q = v \div p /\ r = v % p /\ v = q * p + r
  BY DivMod
<1>2. PICK e \in Nat, d \in 0 .. b - 1 : e = q \div b /\ d = q % b /\ q = e * b + d
  BY DivMod
<1>3. PICK m \in Nat \ {0} : m = p * b
  <2>1. p * b \in Nat /\ p * b # 0
    OBVIOUS
  <2> QED
    BY <2>1
<1>4. d * p + r \in 0 .. m - 1
  <2>1. d * p \in Nat /\ (b - 1 - d) * p \in Nat
    OBVIOUS
  <2>2. (b - 1 - d) * p = b * p - p - d * p
    OBVIOUS
  <2>3. d * p + r >= 0 /\ d * p + r < b * p /\ d * p + r \in Int
    BY <2>1, <2>2
  <2> QED
    BY <2>3, <1>3
<1>5. v = e * m + (d * p + r)
  <2>1. (e * b + d) * p = e * (p * b) + d * p
    OBVIOUS
  <2>2. q * p = e * m + d * p
    BY <2>1, <1>2, <1>3, Zenon
  <2>3. q * p \in Nat /\ e * m \in Nat /\ d * p \in Nat
    OBVIOUS
  <2> QED
    BY <1>1, <2>2, <2>3
<1>6. PICK x \in 0 .. m - 1 : x = d * p + r
  BY <1>4
<1>7. v % m = x
  BY <1>5, <1>6, DivUnique
<1>8. v % p = r /\ (v \div p) % b = d /\ v % (p * b) = x
  BY <1>1, <1>2, <1>3, <1>7, Zenon
<1>9. r + d * p = x
  <2>1. d * p \in Nat
    OBVIOUS
  <2> QED
    BY <1>6, <2>1
<1> QED
  BY <1>8, <1>9, Zenon

LEMMA Powers ==
  ASSUME NEW b \in {Group, TbByte}
  PROVE  /\ b \in Nat \ {0} /\ b^0 = 1
         /\ \A i \in 1 .. 8 : b^(i - 1) \in Nat \ {0} /\ b^i \in Nat \ {0} /\ b^i = b^(i - 1) * b
<1>1. CASE b = 4
  <2>1. 4^0 = 1 /\ 4^1 = 4 /\ 4^2 = 16 /\ 4^3 = 64 /\ 4^4 = 256 /\ 4^5 = 1024 /\ 4^6 = 4096 /\ 4^7 = 16384
        /\ 4^8 = 65536
    BY SMT
  <2>2. ASSUME NEW i \in 1 .. 8 PROVE b^(i - 1) \in Nat \ {0} /\ b^i \in Nat \ {0} /\ b^i = b^(i - 1) * b
    <3>1. i = 1 \/ i = 2 \/ i = 3 \/ i = 4 \/ i = 5 \/ i = 6 \/ i = 7 \/ i = 8
      OBVIOUS
    <3>2. CASE i = 1
      BY <1>1, <2>1, <3>2
    <3>3. CASE i = 2
      BY <1>1, <2>1, <3>3
    <3>4. CASE i = 3
      BY <1>1, <2>1, <3>4
    <3>5. CASE i = 4
      BY <1>1, <2>1, <3>5
    <3>6. CASE i = 5
      BY <1>1, <2>1, <3>6
    <3>7. CASE i = 6
      BY <1>1, <2>1, <3>7
    <3>8. CASE i = 7
      BY <1>1, <2>1, <3>8
    <3>9. CASE i = 8
      BY <1>1, <2>1, <3>9
    <3> QED
      BY <3>1, <3>2, <3>3, <3>4, <3>5, <3>6, <3>7, <3>8, <3>9
  <2> QED
    BY <1>1, <2>1, <2>2
<1>2. CASE b = 8
  <2>1. 8^0 = 1 /\ 8^1 = 8 /\ 8^2 = 64 /\ 8^3 = 512 /\ 8^4 = 4096 /\ 8^5 = 32768 /\ 8^6 = 262144
        /\ 8^7 = 2097152 /\ 8^8 = 16777216
    BY SMT
  <2>2. ASSUME NEW i \in 1 .. 8 PROVE b^(i - 1) \in Nat \ {0} /\ b^i \in Nat \ {0} /\ b^i = b^(i - 1) * b
    <3>1. i = 1 \/ i = 2 \/ i = 3 \/ i = 4 \/ i = 5 \/ i = 6 \/ i = 7 \/ i = 8
      OBVIOUS
    <3>2. CASE i = 1
      BY <1>2, <2>1, <3>2
    <3>3. CASE i = 2
      BY <1>2, <2>1, <3>3
    <3>4. CASE i = 3
      BY <1>2, <2>1, <3>4
    <3>5. CASE i = 4
      BY <1>2, <2>1, <3>5
    <3>6. CASE i = 5
      BY <1>2, <2>1, <3>6
    <3>7. CASE i = 6
      BY <1>2, <2>1, <3>7
    <3>8. CASE i = 7
      BY <1>2, <2>1, <3>8
    <3>9. CASE i = 8
      BY <1>2, <2>1, <3>9
    <3> QED
      BY <3>1, <3>2, <3>3, <3>4, <3>5, <3>6, <3>7, <3>8, <3>9
  <2> QED
    BY <1>2, <2>1, <2>2
<1> QED
  BY <1>1, <1>2 DEF Group, TbByte

(* A sum that grows by one addend at a time exists. *)
LEMMA Sums ==
  ASSUME NEW n \in Nat, NEW d \in [1 .. n -> Nat]
  PROVE  \E f \in [0 .. n -> Nat] : f[0] = 0 /\ \A i \in 1 .. n : f[i] = f[i - 1] + d[i]
<1> DEFINE Sum(m) == \E f \in [0 .. m -> Nat] : f[0] = 0 /\ \A i \in 1 .. m : f[i] = f[i - 1] + d[i]
           bad == {m \in 0 .. n : ~Sum(m)}
<1>0. SUFFICES ASSUME ~Sum(n) PROVE FALSE
  OBVIOUS
<1>1. bad # {}
  <2>1. n \in bad
    <3>1. n \in 0 .. n
      OBVIOUS
    <3> QED
      BY <1>0, <3>1
  <2> QED
    BY <2>1
<1>2. PICK m \in bad : \A k \in bad : m <= k
  <2>1. bad \in SUBSET Nat
    OBVIOUS
  <2> HIDE DEF bad
  <2> QED
    BY <1>1, <2>1, FirstOfSet
<1>3. Sum(0)
  <2>1. PICK f \in [0 .. 0 -> Nat] : f = [i \in 0 .. 0 |-> 0]
    <3>1. [i \in 0 .. 0 |-> 0] \in [0 .. 0 -> Nat]
      OBVIOUS
    <3> HIDE DEF Sum, bad
    <3> QED
      BY <3>1, Zenon
  <2>2. f[0] = 0 /\ \A i \in 1 .. 0 : f[i] = f[i - 1] + d[i]
    BY <2>1
  <2> QED
    BY <2>2
<1>4. m \in 1 .. n /\ m - 1 \in 0 .. n /\ m - 1 \notin bad /\ ~Sum(m)
  <2>1. m \in 0 .. n /\ ~Sum(m)
    OBVIOUS
  <2>2. m # 0
    BY <2>1, <1>3
  <2>3. m - 1 \notin bad
    <3> HIDE DEF bad
    <3> QED
      BY <1>2, <2>1
  <2> HIDE DEF bad, Sum
  <2> QED
    BY <2>1, <2>2, <2>3
<1>5. Sum(m - 1)
  BY <1>4
<1>6. PICK f \in [0 .. m - 1 -> Nat] : f[0] = 0 /\ \A i \in 1 .. m - 1 : f[i] = f[i - 1] + d[i]
  BY <1>5
<1> HIDE DEF bad
<1>7. d[m] \in Nat /\ f[m - 1] \in Nat
  BY <1>4
<1>8. [i \in 0 .. m |-> IF i = m THEN f[m - 1] + d[m] ELSE f[i]] \in [0 .. m -> Nat]
  BY <1>4, <1>7
<1>9. PICK g \in [0 .. m -> Nat] : g = [i \in 0 .. m |-> IF i = m THEN f[m - 1] + d[m] ELSE f[i]]
  BY <1>8
<1>10. g[0] = 0 /\ g[m] = g[m - 1] + d[m] /\ \A i \in 1 .. m - 1 : g[i] = g[i - 1] + d[i]
  BY <1>4, <1>6, <1>9
<1>11. ASSUME NEW i \in 1 .. m PROVE g[i] = g[i - 1] + d[i]
  <2>1. i = m \/ i \in 1 .. m - 1
    BY <1>4
  <2> QED
    BY <2>1, <1>10
<1>12. Sum(m)
  BY <1>9, <1>10, <1>11
<1> QED
  BY <1>4, <1>12

(* Number is the sum it looks like. *)
LEMMA NumberIs ==
  ASSUME NEW s \in Seq(Nat), NEW b \in {Group, TbByte}, Len(s) <= 8
  PROVE  \E f \in [0 .. Len(s) -> Nat] :
           /\ f[0] = 0 /\ Number(s, b) = f[Len(s)]
           /\ \A i \in 1 .. Len(s) : f[i] = f[i - 1] + (s[i] % b) * b^(i - 1)
<1>1. PICK n \in Nat : n = Len(s) /\ n <= 8
  <2>1. Len(s) \in Nat
    OBVIOUS
  <2> QED
    BY <2>1
<1>2. b \in Nat \ {0} /\ \A i \in 1 .. n : b^(i - 1) \in Nat /\ s[i] % b \in Nat
  <2>1. b \in Nat \ {0} /\ \A i \in 1 .. 8 : b^(i - 1) \in Nat
    BY Powers
  <2>2. \A i \in 1 .. n : i \in 1 .. 8 /\ s[i] \in Nat
    BY <1>1
  <2>3. \A x \in Nat : x % b \in Nat
    BY <2>1
  <2> QED
    BY <2>1, <2>2, <2>3
<1>3. \A i \in 1 .. n : (s[i] % b) * b^(i - 1) \in Nat
  <2> TAKE i \in 1 .. n
  <2>1. PICK x \in Nat, y \in Nat : x = s[i] % b /\ y = b^(i - 1)
    BY <1>2
  <2>2. x * y \in Nat
    OBVIOUS
  <2> QED
    BY <2>1, <2>2
<1>4. PICK d \in [1 .. n -> Nat] : d = [i \in 1 .. n |-> (s[i] % b) * b^(i - 1)]
  BY <1>3
<1>5. PICK f \in [0 .. n -> Nat] : f[0] = 0 /\ \A i \in 1 .. n : f[i] = f[i - 1] + d[i]
  BY <1>1, Sums
<1>6. \A i \in 1 .. n : d[i] = (s[i] % b) * b^(i - 1)
  BY <1>4
<1>7. f = [i \in 0 .. Len(s) |-> IF i = 0 THEN 0 ELSE f[i - 1] + (s[i] % b) * b^(i - 1)]
  BY <1>1, <1>5, <1>6
<1> DEFINE Value == CHOOSE g : g = [i \in 0 .. Len(s) |-> IF i = 0 THEN 0 ELSE g[i - 1] + (s[i] % b) * b^(i - 1)]
<1>8. Value = [i \in 0 .. Len(s) |-> IF i = 0 THEN 0 ELSE Value[i - 1] + (s[i] % b) * b^(i - 1)]
  BY <1>7, Zenon
<1>9. Number(s, b) = Value[Len(s)]
  BY Zenon DEF Number
<1> HIDE DEF Value
<1>10. PICK g : g = Value
  OBVIOUS
<1>11. g = [i \in 0 .. n |-> IF i = 0 THEN 0 ELSE g[i - 1] + (s[i] % b) * b^(i - 1)]
  BY <1>1, <1>8, <1>10
<1>12. g[0] = 0 /\ \A i \in 1 .. n : g[i] = g[i - 1] + d[i]
  <2>1. ASSUME NEW i \in 1 .. n PROVE g[i] = g[i - 1] + (s[i] % b) * b^(i - 1)
    <3>1. i \in 0 .. n /\ i # 0
      OBVIOUS
    <3> QED
      BY <3>1, <1>11, Zenon
  <2>2. g[0] = 0
    <3>1. 0 \in 0 .. n
      OBVIOUS
    <3> QED
      BY <3>1, <1>11, Zenon
  <2> QED
    BY <2>1, <2>2, <1>6
<1> DEFINE odd == {i \in 0 .. n : g[i] # f[i]}
<1>13. odd = {}
  <2> SUFFICES ASSUME odd # {} PROVE FALSE
    OBVIOUS
  <2>1. PICK m \in odd : \A k \in odd : m <= k
    <3>1. odd \in SUBSET Nat
      BY <1>1
    <3> HIDE DEF odd
    <3> QED
      BY <3>1, FirstOfSet
  <2>2. m \in 0 .. n /\ g[m] # f[m] /\ m # 0
    BY <1>5, <1>12
  <2>3. m - 1 \in 0 .. n /\ m \in 1 .. n
    BY <1>1, <2>2
  <2>4. m - 1 \notin odd
    <3> HIDE DEF odd
    <3> QED
      BY <1>1, <2>1, <2>2
  <2>5. g[m - 1] = f[m - 1]
    BY <2>3, <2>4
  <2> QED
    BY <2>2, <2>3, <2>5, <1>5, <1>12
<1>14. \A i \in 0 .. n : g[i] = f[i]
  BY <1>13
<1>15. Number(s, b) = f[n]
  BY <1>1, <1>9, <1>10, <1>14
<1> QED
  BY <1>1, <1>5, <1>6, <1>15

LEMMA NumberNat ==
  ASSUME NEW s \in Seq(Nat), NEW b \in {Group, TbByte}, Len(s) <= 8
  PROVE  Number(s, b) \in Nat
<1>1. PICK f \in [0 .. Len(s) -> Nat] : Number(s, b) = f[Len(s)]
  BY NumberIs, Zenon
<1>2. Len(s) \in 0 .. Len(s)
  OBVIOUS
<1> QED
  BY <1>1, <1>2

(* A number comes back from its digits. *)
LEMMA DigitsBack ==
  ASSUME NEW b \in {Group, TbByte}, NEW n \in 1 .. 8, NEW v \in Nat, v < b^n,
         NEW s \in Seq(Nat), Len(s) = n, \A i \in 1 .. n : s[i] % b = (v \div b^(i - 1)) % b
  PROVE  Number(s, b) = v
<1>1. PICK f \in [0 .. n -> Nat] :
        /\ f[0] = 0 /\ Number(s, b) = f[n]
        /\ \A i \in 1 .. n : f[i] = f[i - 1] + (s[i] % b) * b^(i - 1)
  <2>1. Len(s) <= 8
    <3> USE n \in 1 .. 8, Len(s) = n
    <3> QED
      OBVIOUS
  <2> QED
    BY <2>1, NumberIs, Zenon
<1>2. b \in Nat \ {0} /\ b^0 = 1
      /\ \A i \in 1 .. 8 : b^(i - 1) \in Nat \ {0} /\ b^i \in Nat \ {0} /\ b^i = b^(i - 1) * b
  BY Powers
<1>3. ASSUME NEW i \in 1 .. n, f[i - 1] = v % b^(i - 1) PROVE f[i] = v % b^i
  <2>1. i \in 1 .. 8
    <3>1. \A m \in 1 .. 8 : \A k \in 1 .. m : k \in 1 .. 8
      OBVIOUS
    <3> QED
      BY <3>1, Zenon
  <2>2. PICK p \in Nat \ {0} : p = b^(i - 1) /\ b^i = p * b
    BY <1>2, <2>1
  <2>3. (v % p) + (((v \div p) % b) * p) = v % (p * b)
    BY <1>2, DigitStep
  <2>4. f[i] = f[i - 1] + ((v \div p) % b) * p
    BY <1>1, <2>2
  <2> QED
    BY <1>3, <2>2, <2>3, <2>4, Zenon
<1> DEFINE odd == {i \in 0 .. n : f[i] # v % b^i}
<1>4. odd = {}
  <2> SUFFICES ASSUME odd # {} PROVE FALSE
    OBVIOUS
  <2>1. PICK m \in odd : \A k \in odd : m <= k
    <3>1. odd \in SUBSET Nat
      OBVIOUS
    <3> HIDE DEF odd
    <3> QED
      BY <3>1, FirstOfSet
  <2>2. m \in 0 .. n /\ f[m] # v % b^m
    OBVIOUS
  <2>3. v % 1 = 0
    OBVIOUS
  <2>4. m # 0
    BY <1>1, <1>2, <2>2, <2>3
  <2>5. m - 1 \in 0 .. n /\ m \in 1 .. n
    BY <2>2, <2>4
  <2>6. m - 1 \notin odd
    <3> HIDE DEF odd
    <3> QED
      BY <2>1, <2>2
  <2>7. f[m - 1] = v % b^(m - 1)
    BY <2>5, <2>6
  <2> QED
    BY <2>2, <2>5, <2>7, <1>3, Zenon
<1>5. f[n] = v % b^n
  <2>1. n \in 0 .. n
    OBVIOUS
  <2> QED
    BY <1>4, <2>1
<1>6. PICK p \in Nat \ {0} : p = b^n
  BY <1>2
<1>7. v % p = v
  <2>1. v \in 0 .. p - 1 /\ v \in Int
    BY <1>6
  <2> QED
    BY <2>1, Wraps
<1> QED
  BY <1>1, <1>5, <1>6, <1>7, Zenon

LEMMA DigitIs ==
  ASSUME NEW b \in {Group, TbByte}, NEW v \in Nat, NEW i \in 1 .. 8
  PROVE  (v \div b^(i - 1)) % b \in 0 .. b - 1
<1>1. PICK p \in Nat \ {0} : p = b^(i - 1)
  BY Powers
<1>2. v \div p \in Nat
  BY DivNat
<1>3. PICK q \in Nat : q = v \div p
  BY <1>2
<1>4. q % b \in 0 .. b - 1
  BY DEF Group, TbByte
<1> QED
  BY <1>1, <1>3, <1>4

LEMMA ReverseIs ==
  ASSUME NEW S, NEW s \in Seq(S)
  PROVE  Reverse(s) \in Seq(S) /\ Len(Reverse(s)) = Len(s) /\ Reverse(Reverse(s)) = s
<1>1. PICK n \in Nat : n = Len(s)
  OBVIOUS
<1>2. PICK r : r = [i \in 1 .. n |-> s[(n - i) + 1]]
  OBVIOUS
<1>3. \A i \in 1 .. n : (n - i) + 1 \in 1 .. n /\ (n - ((n - i) + 1)) + 1 = i /\ s[i] \in S
  BY <1>1
<1>4. r \in Seq(S) /\ Len(r) = n
  BY <1>2, <1>3
<1>5. Reverse(s) = r
  BY <1>1, <1>2 DEF Reverse
<1>6. Reverse(r) = [i \in 1 .. n |-> r[(n - i) + 1]]
  BY <1>4 DEF Reverse
<1>7. \A i \in 1 .. n : r[(n - i) + 1] = s[i]
  BY <1>2, <1>3
<1>8. s = [i \in 1 .. n |-> s[i]]
  BY <1>1
<1>9. Reverse(r) = s
  BY <1>6, <1>7, <1>8
<1> QED
  BY <1>1, <1>4, <1>5, <1>9

(* A fixed-size word is read back in the byte order it was written in. *)
LEMMA FixedBack ==
  ASSUME NEW n \in {1, 2, 3, 5}, NEW v \in Nat, NEW e
  PROVE  /\ EncodeFixed(v, n, e) \in Seq(0 .. TbByte - 1) /\ Len(EncodeFixed(v, n, e)) = n
         /\ v < TbByte^n => DecodeFixed(EncodeFixed(v, n, e), e) = v
<1>1. PICK w : w = [i \in 1 .. n |-> (v \div TbByte^(i - 1)) % TbByte]
  OBVIOUS
<1>2. n \in 1 .. 8 /\ n \in Nat
  OBVIOUS
<1>3. \A i \in 1 .. n : (v \div TbByte^(i - 1)) % TbByte \in 0 .. TbByte - 1
  <2> TAKE i \in 1 .. n
  <2>1. i \in 1 .. 8
    BY <1>2
  <2> QED
    BY <2>1, DigitIs
<1>4. w \in Seq(0 .. TbByte - 1) /\ Len(w) = n
  BY <1>1, <1>2, <1>3
<1>5. EncodeFixed(v, n, e) = IF e = "little" THEN w ELSE Reverse(w)
  BY <1>1 DEF EncodeFixed, Ordered
<1>6. Reverse(w) \in Seq(0 .. TbByte - 1) /\ Len(Reverse(w)) = n /\ Reverse(Reverse(w)) = w
  BY <1>4, ReverseIs
<1>7. EncodeFixed(v, n, e) \in Seq(0 .. TbByte - 1) /\ Len(EncodeFixed(v, n, e)) = n
  BY <1>4, <1>5, <1>6
<1>8. DecodeFixed(EncodeFixed(v, n, e), e) = Number(w, TbByte)
  BY <1>5, <1>6, Zenon DEF DecodeFixed, Ordered
<1>9. ASSUME v < TbByte^n PROVE Number(w, TbByte) = v
  <2>1. w \in Seq(Nat)
    BY <1>4 DEF TbByte
  <2>2. \A i \in 1 .. n : w[i] % TbByte = (v \div TbByte^(i - 1)) % TbByte
    <3> TAKE i \in 1 .. n
    <3>1. PICK d \in 0 .. TbByte - 1 : d = w[i] /\ d = (v \div TbByte^(i - 1)) % TbByte
      BY <1>1, <1>3
    <3>2. d % TbByte = d
      BY DEF TbByte
    <3> QED
      BY <3>1, <3>2, Zenon
  <2> QED
    BY <1>2, <1>4, <1>9, <2>1, <2>2, DigitsBack
<1> QED
  BY <1>7, <1>8, <1>9

(* A varint has at most as many bytes as the reader asks for, all but the last one say that
   more follow, and their digits are the value. *)
LEMMA GroupsOfIs ==
  ASSUME NEW v \in Nat, v < TbByte^5
  PROVE  GroupsOf(v) \in 1 .. 8 /\ v < Group^GroupsOf(v) /\ (v < 2^9 => GroupsOf(v) <= 5)
<1> DEFINE Fits(k) == v < Group^k /\ (k = 1 \/ v >= Group^(k - 1))
<1>1. 4^0 = 1 /\ 4^1 = 4 /\ 4^2 = 16 /\ 4^3 = 64 /\ 4^4 = 256 /\ 4^5 = 1024 /\ 4^6 = 4096 /\ 4^7 = 16384
      /\ 4^8 = 65536 /\ 8^5 = 32768 /\ 2^9 = 512
  BY SMT
<1>2. v < 65536
  BY <1>1 DEF TbByte
<1>3. Fits(1) \/ Fits(2) \/ Fits(3) \/ Fits(4) \/ Fits(5) \/ Fits(6) \/ Fits(7) \/ Fits(8)
  BY <1>1, <1>2 DEF Group
<1>4. \E k \in 1 .. 8 : Fits(k)
  <2> HIDE DEF Fits
  <2> QED
    BY <1>3
<1>5. GroupsOf(v) = CHOOSE k \in 1 .. 8 : Fits(k)
  BY DEF GroupsOf
<1>6. GroupsOf(v) \in 1 .. 8 /\ Fits(GroupsOf(v))
  <2> HIDE DEF Fits
  <2> QED
    BY <1>4, <1>5, Zenon
<1>7. ASSUME v < 2^9 PROVE GroupsOf(v) <= 5
  <2>1. PICK k \in 1 .. 8 : k = GroupsOf(v) /\ (k = 1 \/ v >= Group^(k - 1))
    BY <1>6
  <2>2. k = 6 => v >= 1024
    BY <1>1, <2>1 DEF Group
  <2>3. k = 7 => v >= 4096
    BY <1>1, <2>1 DEF Group
  <2>4. k = 8 => v >= 16384
    BY <1>1, <2>1 DEF Group
  <2> QED
    BY <1>1, <1>7, <2>1, <2>2, <2>3, <2>4
<1> QED
  BY <1>6, <1>7

LEMMA VarintBack ==
  ASSUME NEW v \in Nat, v < TbByte^5
  PROVE  /\ EncodeVarint(v) \in Seq(0 .. TbByte - 1) /\ Len(EncodeVarint(v)) = GroupsOf(v)
         /\ \A i \in 1 .. GroupsOf(v) : EncodeVarint(v)[i] < Group <=> i = GroupsOf(v)
         /\ Number(EncodeVarint(v), Group) = v
<1>1. PICK n \in 1 .. 8 : n = GroupsOf(v) /\ v < Group^n
  BY GroupsOfIs
<1>2. PICK s : s = [i \in 1 .. n |-> ((v \div Group^(i - 1)) % Group) + (IF i < n THEN Group ELSE 0)]
  OBVIOUS
<1>3. EncodeVarint(v) = s
  BY <1>1, <1>2 DEF EncodeVarint
<1>4. ASSUME NEW i \in 1 .. n
      PROVE  /\ s[i] \in 0 .. TbByte - 1 /\ s[i] % Group = (v \div Group^(i - 1)) % Group
             /\ s[i] < Group <=> i = n
  <2>1. i \in 1 .. 8
    <3>1. \A m \in 1 .. 8 : \A k \in 1 .. m : k \in 1 .. 8
      OBVIOUS
    <3> QED
      BY <3>1, Zenon
  <2>2. PICK d \in 0 .. Group - 1 : d = (v \div Group^(i - 1)) % Group
    BY <2>1, DigitIs
  <2>3. s[i] = d + (IF i < n THEN Group ELSE 0)
    BY <1>2, <2>2
  <2>4. s[i] \in 0 .. TbByte - 1 /\ s[i] % Group = d /\ (s[i] < Group <=> i = n)
    BY <2>3 DEF Group, TbByte
  <2> QED
    BY <2>2, <2>4, Zenon
<1>5. n \in Nat /\ s \in Seq(0 .. TbByte - 1) /\ Len(s) = n
  BY <1>2, <1>4
<1>6. s \in Seq(Nat)
  BY <1>5 DEF TbByte
<1>7. Number(s, Group) = v
  BY <1>1, <1>4, <1>5, <1>6, DigitsBack
<1> QED
  BY <1>1, <1>3, <1>4, <1>5, <1>7

(* readUint32, readUint64 find the end of what writeUint32, writeUint64 wrote. *)
LEMMA ReadsVarint ==
  ASSUME NEW bits \in {9, 15}, NEW v \in Nat, v < 2^bits, NEW s \in Seq(0 .. TbByte - 1),
         Len(s) >= Len(EncodeVarint(v)), \A i \in 1 .. Len(EncodeVarint(v)) : s[i] = EncodeVarint(v)[i]
  PROVE  ReadVarint(s, bits) = Found(Len(EncodeVarint(v)), v)
<1>1. 8^5 = 32768 /\ 2^9 = 512 /\ 2^15 = 32768
  BY SMT
<1>2. v < TbByte^5 /\ (bits = 9 => v < 2^9)
  <2>1. CASE bits = 9
    BY <1>1, <2>1 DEF TbByte
  <2>2. CASE bits = 15
    BY <1>1, <2>2 DEF TbByte
  <2> QED
    BY <2>1, <2>2
<1>3. PICK n \in 1 .. 8 : n = GroupsOf(v) /\ (bits = 9 => n <= 5)
  BY <1>2, GroupsOfIs
<1>4. PICK e \in Seq(0 .. TbByte - 1) :
        /\ e = EncodeVarint(v) /\ Len(e) = n /\ Number(e, Group) = v
        /\ \A i \in 1 .. n : e[i] < Group <=> i = n
  BY <1>2, <1>3, VarintBack
<1> DEFINE most == (bits + 1) \div 2
           Ends == {i \in 1 .. Len(s) : s[i] < Group \/ i = most}
<1>5. most \in 5 .. 8 /\ n <= most
  BY <1>3
<1>6. n \in Ends /\ \A i \in Ends : n <= i
  <2>1. Len(s) \in Nat /\ n <= Len(s) /\ \A i \in 1 .. n : s[i] = e[i]
    BY <1>4
  <2>2. n \in Ends
    BY <1>4, <2>1
  <2>3. ASSUME NEW i \in Ends, i < n PROVE FALSE
    <3>1. i \in 1 .. n /\ i # n /\ i # most /\ s[i] < Group
      BY <1>5, <2>1, <2>3
    <3> QED
      BY <3>1, <2>1, <1>4
  <2>4. \A i \in Ends : n <= i
    BY <2>3
  <2> QED
    BY <2>2, <2>4
<1>7. SubSeq(s, 1, n) = e
  <2>1. Len(s) \in Nat /\ n <= Len(s) /\ \A i \in 1 .. n : s[i] = e[i]
    BY <1>4
  <2>2. SubSeq(s, 1, n) = [i \in 1 .. n |-> s[i]]
    BY <2>1
  <2>3. e = [i \in 1 .. n |-> e[i]]
    BY <1>4
  <2> QED
    BY <2>1, <2>2, <2>3
<1>8. v % 2^bits = v
  <2>1. PICK p \in Nat \ {0} : p = 2^bits
    BY <1>1
  <2>2. v \in 0 .. p - 1 /\ v \in Int
    BY <2>1
  <2> QED
    BY <2>1, <2>2, Wraps
<1>9. (CHOOSE i \in Ends : \A j \in Ends : i <= j) = n
  <2>1. Ends \subseteq Int
    OBVIOUS
  <2> HIDE DEF Ends
  <2>2. PICK k \in Ends : k = (CHOOSE i \in Ends : \A j \in Ends : i <= j) /\ \A j \in Ends : k <= j
    BY <1>6, Zenon
  <2>3. k <= n /\ n <= k /\ k \in Int
    BY <2>1, <2>2, <1>6
  <2> QED
    BY <2>2, <2>3
<1>10. ReadVarint(s, bits) = Found(n, Number(SubSeq(s, 1, n), Group) % 2^bits)
  <2>1. Ends # {}
    BY <1>6
  <2> HIDE DEF Ends
  <2>2. ReadVarint(s, bits) = LET k == CHOOSE i \in Ends : \A j \in Ends : i <= j
                              IN IF Ends = {} THEN Short
                                 ELSE Found(k, Number(SubSeq(s, 1, k), Group) % 2^bits)
    BY Zenon DEF ReadVarint, Ends
  <2> QED
    BY <2>1, <2>2, <1>9, Zenon
<1> QED
  BY <1>4, <1>7, <1>8, <1>10, Zenon

(* A signed number comes back from its zigzag form, which is an unsigned one of the same width. *)
LEMMA ZigzagBack ==
  ASSUME NEW bits \in {9, 15}, NEW v \in -(2^(bits - 1)) .. 2^(bits - 1) - 1
  PROVE  /\ EncodeZigzag(v, bits) \in Nat /\ EncodeZigzag(v, bits) < 2^bits
         /\ DecodeZigzag(EncodeZigzag(v, bits)) = v
<1>1. 2^8 = 256 /\ 2^9 = 512 /\ 2^14 = 16384 /\ 2^15 = 32768
  BY SMT
<1>2. PICK h \in Nat \ {0}, m \in Nat \ {0} : h = 2^(bits - 1) /\ m = 2^bits /\ m = 2 * h
  <2>1. CASE bits = 9
    BY <1>1, <2>1
  <2>2. CASE bits = 15
    BY <1>1, <2>2
  <2> QED
    BY <2>1, <2>2
<1>3. v \in -h .. h - 1 /\ v \in Int
  BY <1>2
<1>4. EncodeZigzag(v, bits) = IF v < 0 THEN (-v * 2 - 1) % m ELSE v * 2
  BY <1>2 DEF EncodeZigzag
<1>5. CASE v < 0
  <2>1. PICK z \in 0 .. m - 1 : z = -v * 2 - 1
    BY <1>2, <1>3, <1>5
  <2>2. z % m = z
    <3>1. z \in Int
      OBVIOUS
    <3> QED
      BY <3>1, Wraps
  <2>3. EncodeZigzag(v, bits) = z
    BY <1>4, <1>5, <2>1, <2>2
  <2>4. z % 2 = 1 /\ z \div 2 = -v - 1
    BY <1>3, <2>1
  <2>5. DecodeZigzag(z) = v
    BY <1>3, <2>4 DEF DecodeZigzag
  <2> QED
    BY <1>2, <2>1, <2>3, <2>5
<1>6. CASE v >= 0
  <2>1. PICK z \in 0 .. m - 1 : z = v * 2
    BY <1>2, <1>3, <1>6
  <2>2. EncodeZigzag(v, bits) = z
    BY <1>3, <1>4, <1>6, <2>1
  <2>3. z % 2 = 0 /\ z \div 2 = v
    BY <1>3, <2>1
  <2>4. DecodeZigzag(z) = v
    BY <2>3 DEF DecodeZigzag
  <2> QED
    BY <1>2, <2>1, <2>2, <2>4
<1> QED
  BY <1>3, <1>5, <1>6

FixedTypes == {"fint8", "fint16", "fint32", "fint64"}
VarintTypes == {"uint32", "uint64", "int32", "int64"}
StringTypes == {"stringF16", "stringF32", "stringF64"}

LEMMA TypesAre ==
  /\ DOMAIN FixedBytes = FixedTypes /\ DOMAIN VarintBits = VarintTypes /\ DOMAIN LengthType = StringTypes
  /\ TbTypes = FixedTypes \cup VarintTypes \cup StringTypes \cup {"stringVint"}
  /\ \A type \in FixedTypes : FixedBytes[type] \in {1, 2, 3, 5}
  /\ \A type \in VarintTypes : VarintBits[type] \in {9, 15}
  /\ \A type \in StringTypes : LengthType[type] \in FixedTypes /\ FixedBytes[LengthType[type]] \in {2, 3, 5}
  /\ FixedBytes["fint64"] = 5 /\ Signed \subseteq VarintTypes
<1>1. DOMAIN FixedBytes = FixedTypes /\ DOMAIN VarintBits = VarintTypes /\ DOMAIN LengthType = StringTypes
  BY DEF FixedBytes, VarintBits, LengthType, FixedTypes, VarintTypes, StringTypes
<1>2. TbTypes = FixedTypes \cup VarintTypes \cup StringTypes \cup {"stringVint"}
  BY <1>1, Zenon DEF TbTypes
<1>3. \A type \in FixedTypes : FixedBytes[type] \in {1, 2, 3, 5}
  BY DEF FixedTypes, FixedBytes
<1>4. \A type \in VarintTypes : VarintBits[type] \in {9, 15}
  BY DEF VarintTypes, VarintBits
<1>5. \A type \in StringTypes : LengthType[type] \in FixedTypes /\ FixedBytes[LengthType[type]] \in {2, 3, 5}
  BY DEF StringTypes, LengthType, FixedTypes, FixedBytes
<1>6. FixedBytes["fint64"] = 5 /\ Signed \subseteq VarintTypes
  BY DEF FixedBytes, Signed, VarintTypes
<1> QED
  BY <1>1, <1>2, <1>3, <1>4, <1>5, <1>6

LEMMA Bytes == Seq(0 .. TbByte - 1) \subseteq Seq(Nat)
  BY DEF TbByte

LEMMA StartsWith ==
  ASSUME NEW S, NEW s \in Seq(S), NEW e \in Seq(S), Len(s) >= Len(e), \A i \in 1 .. Len(e) : s[i] = e[i]
  PROVE  SubSeq(s, 1, Len(e)) = e
<1>1. PICK n \in Nat : n = Len(e) /\ n <= Len(s)
  OBVIOUS
<1>2. Len(s) \in Nat
  OBVIOUS
<1>3. SubSeq(s, 1, n) = [i \in 1 .. n |-> s[i]]
  BY <1>1, <1>2
<1>4. e = [i \in 1 .. n |-> e[i]]
  BY <1>1
<1> QED
  BY <1>1, <1>3, <1>4

(* What each kind of value is written as. *)
LEMMA WrittenAs ==
  ASSUME NEW type \in TbTypes, NEW v, TbInRange(type, v), NEW e
  PROVE  /\ type \in FixedTypes =>
              TbEncode(type, v, e) = EncodeFixed(v, FixedBytes[type], e) /\ v \in Nat
              /\ v < TbByte^FixedBytes[type]
         /\ type \in Signed =>
              /\ TbEncode(type, v, e) = EncodeVarint(EncodeZigzag(v, VarintBits[type]))
              /\ v \in -(2^(VarintBits[type] - 1)) .. 2^(VarintBits[type] - 1) - 1
         /\ type \in VarintTypes \ Signed =>
              TbEncode(type, v, e) = EncodeVarint(v) /\ v \in Nat /\ v < 2^VarintBits[type]
         /\ type = "stringVint" =>
              TbEncode(type, v, e) = EncodeVarint(Len(v)) \o v /\ v \in Seq(0 .. TbByte - 1)
              /\ Len(v) \in Nat /\ Len(v) < TbByte^5
         /\ type \in StringTypes =>
              TbEncode(type, v, e) = EncodeFixed(Len(v), FixedBytes[LengthType[type]], e) \o v
              /\ v \in Seq(0 .. TbByte - 1) /\ Len(v) \in Nat
<1> USE TypesAre
<1>1. CASE type \in FixedTypes
  <2>1. type \notin VarintTypes \cup StringTypes \cup {"stringVint"} \cup Signed
    BY <1>1 DEF FixedTypes, VarintTypes, StringTypes, Signed
  <2>2. v \in 0 .. TbByte^FixedBytes[type] - 1 /\ FixedBytes[type] \in {1, 2, 3, 5}
    BY <1>1, Zenon DEF TbInRange
  <2>3. TbByte^FixedBytes[type] \in Nat
    <3>1. PICK n \in 1 .. 8 : n = FixedBytes[type]
      BY <2>2
    <3> QED
      BY <3>1, Powers
  <2>4. v \in Nat /\ v < TbByte^FixedBytes[type]
    BY <2>2, <2>3
  <2>5. TbEncode(type, v, e) = EncodeFixed(v, FixedBytes[type], e)
    BY <1>1, Zenon DEF TbEncode
  <2> QED
    BY <1>1, <2>1, <2>4, <2>5
<1>2. CASE type \in Signed
  <2>1. type \notin FixedTypes \cup StringTypes \cup {"stringVint"} /\ type \in VarintTypes
    BY <1>2 DEF FixedTypes, VarintTypes, StringTypes, Signed
  <2>2. v \in -(2^(VarintBits[type] - 1)) .. 2^(VarintBits[type] - 1) - 1
    BY <1>2, <2>1, Zenon DEF TbInRange
  <2>3. TbEncode(type, v, e) = EncodeVarint(EncodeZigzag(v, VarintBits[type]))
    BY <1>2, <2>1, Zenon DEF TbEncode
  <2> QED
    BY <1>2, <2>1, <2>2, <2>3
<1>3. CASE type \in VarintTypes \ Signed
  <2>1. type \notin FixedTypes \cup StringTypes \cup {"stringVint"}
    BY <1>3 DEF FixedTypes, VarintTypes, StringTypes
  <2>2. v \in 0 .. 2^VarintBits[type] - 1 /\ VarintBits[type] \in {9, 15}
    BY <1>3, <2>1, Zenon DEF TbInRange
  <2>3. 2^9 = 512 /\ 2^15 = 32768
    BY SMT
  <2>4. PICK m \in Nat : m = 2^VarintBits[type]
    BY <2>2, <2>3
  <2>5. v \in Nat /\ v < 2^VarintBits[type]
    BY <2>2, <2>4
  <2>6. TbEncode(type, v, e) = EncodeVarint(v)
    BY <1>3, <2>1, Zenon DEF TbEncode
  <2> QED
    BY <1>3, <2>1, <2>5, <2>6
<1>4. CASE type = "stringVint"
  <2>1. type \notin FixedTypes \cup StringTypes \cup VarintTypes \cup Signed
    BY <1>4 DEF FixedTypes, VarintTypes, StringTypes, Signed
  <2>2. v \in Seq(0 .. TbByte - 1) /\ Len(v) < TbByte^5
    BY <1>4, <2>1, Zenon DEF TbInRange
  <2>3. Len(v) \in Nat
    BY <2>2
  <2>4. TbEncode(type, v, e) = EncodeVarint(Len(v)) \o v
    BY <1>4, <2>1, Zenon DEF TbEncode
  <2> QED
    BY <1>4, <2>1, <2>2, <2>3, <2>4
<1>5. CASE type \in StringTypes
  <2>1. type \notin FixedTypes \cup VarintTypes \cup Signed \cup {"stringVint"}
    BY <1>5 DEF FixedTypes, VarintTypes, StringTypes, Signed
  <2>2. v \in Seq(0 .. TbByte - 1)
    BY <1>5, <2>1, Zenon DEF TbInRange
  <2>3. Len(v) \in Nat
    BY <2>2
  <2>4. type # "stringVint"
    BY <2>1
  <2>5. TbEncode(type, v, e) = EncodeFixed(Len(v), FixedBytes[LengthType[type]], e) \o v
    BY <2>1, <2>4, Zenon DEF TbEncode
  <2> QED
    BY <1>5, <2>1, <2>2, <2>3, <2>5
<1> QED
  BY <1>1, <1>2, <1>3, <1>4, <1>5

LEMMA EncodedBytes ==
  ASSUME NEW type \in TbTypes, NEW v, TbInRange(type, v), NEW e
  PROVE  TbEncode(type, v, e) \in Seq(0 .. TbByte - 1)
<1> USE TypesAre
<1>1. CASE type \in FixedTypes
  <2>1. TbEncode(type, v, e) = EncodeFixed(v, FixedBytes[type], e) /\ v \in Nat
    BY <1>1, WrittenAs
  <2>2. FixedBytes[type] \in {1, 2, 3, 5}
    BY <1>1
  <2> QED
    BY <2>1, <2>2, FixedBack
<1>0. 2^9 = 512 /\ 2^15 = 32768 /\ 8^5 = 32768
  BY SMT
<1>2. CASE type \in Signed
  <2>1. PICK bits \in {9, 15} : bits = VarintBits[type]
    BY <1>2
  <2>2. v \in -(2^(bits - 1)) .. 2^(bits - 1) - 1 /\ TbEncode(type, v, e) = EncodeVarint(EncodeZigzag(v, bits))
    BY <1>2, <2>1, WrittenAs
  <2>3. PICK z \in Nat : z = EncodeZigzag(v, bits) /\ z < 2^bits
    BY <2>2, ZigzagBack
  <2>4. z < TbByte^5
    <3>1. CASE bits = 9
      BY <1>0, <2>3, <3>1 DEF TbByte
    <3>2. CASE bits = 15
      BY <1>0, <2>3, <3>2 DEF TbByte
    <3> QED
      BY <3>1, <3>2
  <2> QED
    BY <2>2, <2>3, <2>4, VarintBack
<1>3. CASE type \in VarintTypes \ Signed
  <2>1. PICK bits \in {9, 15} : bits = VarintBits[type]
    BY <1>3
  <2>2. v \in Nat /\ v < 2^bits /\ TbEncode(type, v, e) = EncodeVarint(v)
    BY <1>3, <2>1, WrittenAs
  <2>3. v < TbByte^5
    <3>1. CASE bits = 9
      BY <1>0, <2>2, <3>1 DEF TbByte
    <3>2. CASE bits = 15
      BY <1>0, <2>2, <3>2 DEF TbByte
    <3> QED
      BY <3>1, <3>2
  <2> QED
    BY <2>2, <2>3, VarintBack
<1>4. CASE type = "stringVint"
  <2>1. /\ TbEncode(type, v, e) = EncodeVarint(Len(v)) \o v /\ v \in Seq(0 .. TbByte - 1)
        /\ Len(v) \in Nat /\ Len(v) < TbByte^5
    BY <1>4, WrittenAs
  <2>2. EncodeVarint(Len(v)) \in Seq(0 .. TbByte - 1)
    BY <2>1, VarintBack
  <2> QED
    BY <2>1, <2>2
<1>5. CASE type \in StringTypes
  <2>1. /\ TbEncode(type, v, e) = EncodeFixed(Len(v), FixedBytes[LengthType[type]], e) \o v
        /\ v \in Seq(0 .. TbByte - 1) /\ Len(v) \in Nat
    <3> HIDE TypesAre
    <3> QED
      BY <1>5, WrittenAs
  <2>2. FixedBytes[LengthType[type]] \in {1, 2, 3, 5}
    BY <1>5
  <2>3. EncodeFixed(Len(v), FixedBytes[LengthType[type]], e) \in Seq(0 .. TbByte - 1)
    BY <2>1, <2>2, FixedBack
  <2> QED
    BY <2>1, <2>3
<1> QED
  BY <1>1, <1>2, <1>3, <1>4, <1>5

(* A typed read of what a typed write put there returns the value and takes just its bytes. *)
LEMMA ItemBack ==
  ASSUME NEW type \in TbTypes, NEW v, TbInRange(type, v), NEW e, NEW d, type \notin VarintTypes => d = e,
         type # "stringVint", ~TooLong([type |-> type, value |-> v, endian |-> e]),
         NEW s \in Seq(0 .. TbByte - 1), Len(s) >= Len(TbEncode(type, v, e)),
         \A i \in 1 .. Len(TbEncode(type, v, e)) : s[i] = TbEncode(type, v, e)[i]
  PROVE  TbDecode(type, s, d) = Found(Len(TbEncode(type, v, e)), v)
<1> USE TypesAre
<1>1. CASE type \in FixedTypes
  <2>1. PICK n \in {1, 2, 3, 5} : n = FixedBytes[type]
    BY <1>1
  <2>2. TbEncode(type, v, e) = EncodeFixed(v, n, e) /\ v \in Nat /\ v < TbByte^n
    BY <1>1, <2>1, WrittenAs
  <2>3. PICK b \in Seq(0 .. TbByte - 1) : b = EncodeFixed(v, n, e) /\ Len(b) = n /\ DecodeFixed(b, e) = v
    BY <2>2, FixedBack
  <2>4. SubSeq(s, 1, n) = b /\ ~(Len(s) < n)
    BY <2>2, <2>3, StartsWith
  <2>5. d = e
    BY <1>1 DEF FixedTypes, VarintTypes
  <2>6. TbDecode(type, s, d) = ReadFixed(s, n, e)
    BY <1>1, <2>1, <2>5, Zenon DEF TbDecode
  <2>7. ReadFixed(s, n, e) = Found(n, v)
    BY <2>3, <2>4, Zenon DEF ReadFixed
  <2> QED
    BY <2>2, <2>3, <2>6, <2>7, Zenon
<1>2. CASE type \in VarintTypes
  <2>1. type \notin FixedTypes
    BY <1>2 DEF FixedTypes, VarintTypes
  <2>2. PICK bits \in {9, 15} : bits = VarintBits[type]
    BY <1>2
  <2>3. TbDecode(type, s, d) = LET r == ReadVarint(s, bits)
                               IN IF r.ok /\ type \in Signed THEN Found(r.n, DecodeZigzag(r.v)) ELSE r
    BY <1>2, <2>1, <2>2, Zenon DEF TbDecode
  <2>4. CASE type \in Signed
    <3>1. v \in -(2^(bits - 1)) .. 2^(bits - 1) - 1 /\ TbEncode(type, v, e) = EncodeVarint(EncodeZigzag(v, bits))
      BY <2>2, <2>4, WrittenAs
    <3>2. PICK z \in Nat : z = EncodeZigzag(v, bits) /\ z < 2^bits /\ DecodeZigzag(z) = v
      BY <3>1, ZigzagBack
    <3>3. ReadVarint(s, bits) = Found(Len(EncodeVarint(z)), z)
      BY <3>1, <3>2, ReadsVarint
    <3>4. PICK n : n = Len(EncodeVarint(z))
      OBVIOUS
    <3>5. PICK f : f = ReadVarint(s, bits)
      OBVIOUS
    <3>6. f.ok /\ f.n = n /\ f.v = z
      BY <3>3, <3>4, <3>5 DEF Found
    <3>7. TbDecode(type, s, d) = Found(n, v)
      BY <2>3, <2>4, <3>2, <3>5, <3>6, Zenon
    <3> QED
      BY <3>1, <3>2, <3>4, <3>7, Zenon
  <2>5. CASE type \notin Signed
    <3>1. v \in Nat /\ v < 2^bits /\ TbEncode(type, v, e) = EncodeVarint(v)
      BY <1>2, <2>2, <2>5, WrittenAs
    <3>2. ReadVarint(s, bits) = Found(Len(EncodeVarint(v)), v)
      BY <3>1, ReadsVarint, ZenonT(30)
    <3>3. TbDecode(type, s, d) = ReadVarint(s, bits)
      BY <2>3, <2>5, Zenon
    <3> QED
      BY <3>1, <3>2, <3>3, Zenon
  <2> QED
    BY <2>4, <2>5
<1>3. CASE type \in StringTypes
  <2>1. type \notin FixedTypes /\ type \notin VarintTypes /\ type # "stringVint"
    BY <1>3 DEF FixedTypes, VarintTypes, StringTypes
  <2>2. PICK n \in {1, 2, 3, 5} : n = FixedBytes[LengthType[type]]
    BY <1>3
  <2>3. PICK len \in Nat : len = Len(v)
    BY <1>3, WrittenAs
  <2>4. v \in Seq(0 .. TbByte - 1) /\ TbEncode(type, v, e) = EncodeFixed(len, n, e) \o v
    BY <1>3, <2>2, <2>3, WrittenAs, SMTT(30)
  <2>5. len < TbByte^n
    <3>1. ~(len >= TbByte^n)
      BY <1>3, <2>2, <2>3, Zenon DEF TooLong
    <3>2. TbByte^n \in Nat
      <4>1. n \in 1 .. 8
        OBVIOUS
      <4> QED
        BY <4>1, Powers
    <3> QED
      BY <3>1, <3>2
  <2>6. PICK b \in Seq(0 .. TbByte - 1) : b = EncodeFixed(len, n, e) /\ Len(b) = n /\ DecodeFixed(b, e) = len
    BY <2>5, FixedBack
  <2>7. PICK c \in Seq(0 .. TbByte - 1) : c = b \o v /\ c = TbEncode(type, v, e)
    <3>1. b \o v \in Seq(0 .. TbByte - 1)
      BY <2>4
    <3> QED
      BY <3>1, <2>4, <2>6, Zenon
  <2>8. /\ Len(c) = n + len
        /\ \A i \in 1 .. n : c[i] = b[i]
        /\ \A i \in 1 .. len : c[n + i] = v[i]
    BY <2>3, <2>4, <2>6, <2>7
  <2>9. Len(s) \in Nat /\ Len(s) >= n + len /\ \A i \in 1 .. n + len : s[i] = c[i]
    BY <2>7, <2>8
  <2>10. SubSeq(s, 1, n) = b
    <3>1. Len(s) >= Len(b) /\ \A i \in 1 .. Len(b) : s[i] = b[i]
      BY <2>6, <2>8, <2>9
    <3> QED
      BY <3>1, <2>6, StartsWith
  <2>11. SubSeq(s, n + 1, n + len) = v
    <3>1. SubSeq(s, n + 1, n + len) = [i \in 1 .. len |-> s[n + i]]
      BY <2>9
    <3>2. v = [i \in 1 .. len |-> v[i]]
      BY <2>3, <2>4
    <3>3. \A i \in 1 .. len : s[n + i] = v[i]
      BY <2>8, <2>9
    <3> QED
      BY <3>1, <3>2, <3>3
  <2>12. d = e
    BY <2>1
  <2>13. ReadFixed(s, n, e) = [n |-> n, v |-> len, ok |-> TRUE]
    <3>1. ~(Len(s) < n)
      BY <2>9
    <3> QED
      BY <3>1, <2>6, <2>10, Zenon DEF ReadFixed, Found
  <2>14. TbDecode(type, s, d) = ReadString(s, type, e)
    BY <2>1, <2>12, Zenon DEF TbDecode
  <2>15. ReadString(s, type, e) = LET head == ReadFixed(s, n, e)
                                  IN IF ~head.ok \/ Len(s) < head.n + head.v THEN Short
                                     ELSE Found(head.n + head.v, SubSeq(s, head.n + 1, head.n + head.v))
    BY <2>1, <2>2, Zenon DEF ReadString
  <2>16. ReadString(s, type, e) = Found(n + len, v)
    <3>1. PICK head : head = ReadFixed(s, n, e)
      OBVIOUS
    <3>2. head.ok /\ head.n = n /\ head.v = len
      BY <3>1, <2>13
    <3>3. ~(Len(s) < n + len)
      BY <2>9
    <3> QED
      BY <2>15, <3>1, <3>2, <3>3, <2>11, Zenon
  <2> QED
    BY <2>7, <2>8, <2>14, <2>16, Zenon
<1> QED
  BY <1>1, <1>2, <1>3

LEMMA StartOf ==
  ASSUME NEW S, NEW s \in Seq(S), NEW k \in 1 .. Len(s)
  PROVE  SubSeq(s, 1, k) \in Seq(S) /\ Len(SubSeq(s, 1, k)) = k
  OBVIOUS

TbResults == Int \cup Seq(0 .. TbByte - 1)

(* Whatever is on the tape, a read that is not thrown out stays within it. *)
LEMMA FixedWithin ==
  ASSUME NEW s \in Seq(0 .. TbByte - 1), NEW n \in {1, 2, 3, 5}, NEW e, Len(s) >= n
  PROVE  ReadFixed(s, n, e) = Found(n, DecodeFixed(SubSeq(s, 1, n), e)) /\ DecodeFixed(SubSeq(s, 1, n), e) \in Nat
<1>1. PICK b \in Seq(0 .. TbByte - 1) : b = SubSeq(s, 1, n) /\ Len(b) = n
  <2>1. SubSeq(s, 1, n) \in Seq(0 .. TbByte - 1) /\ Len(SubSeq(s, 1, n)) = n
    <3>1. n \in 1 .. Len(s) /\ Len(s) \in Nat /\ n \in Nat
      OBVIOUS
    <3> QED
      BY <3>1, StartOf
  <2> QED
    BY <2>1
<1>2. Reverse(b) \in Seq(0 .. TbByte - 1) /\ Len(Reverse(b)) = n
  BY <1>1, ReverseIs
<1>3. PICK o \in Seq(0 .. TbByte - 1) : o = Ordered(b, e) /\ Len(o) = n
  BY <1>1, <1>2, Zenon DEF Ordered
<1>4. o \in Seq(Nat) /\ Len(o) <= 8
  BY <1>3, Bytes
<1>5. Number(o, TbByte) \in Nat
  BY <1>4, NumberNat
<1>6. ~(Len(s) < n)
  <2>1. Len(s) \in Nat
    OBVIOUS
  <2> QED
    BY <2>1
<1> QED
  BY <1>1, <1>3, <1>5, <1>6, Zenon DEF ReadFixed, DecodeFixed

LEMMA VarintWithin ==
  ASSUME NEW s \in Seq(0 .. TbByte - 1), NEW bits \in {9, 15}
  PROVE  \/ ReadVarint(s, bits) = Short
         \/ \E n \in 1 .. Len(s), v \in Nat : ReadVarint(s, bits) = Found(n, v)
<1> DEFINE most == (bits + 1) \div 2
           Ends == {i \in 1 .. Len(s) : s[i] < Group \/ i = most}
           n == CHOOSE i \in Ends : \A j \in Ends : i <= j
<1>1. ReadVarint(s, bits) = IF Ends = {} THEN Short ELSE Found(n, Number(SubSeq(s, 1, n), Group) % 2^bits)
  BY Zenon DEF ReadVarint
<1>2. CASE Ends = {}
  BY <1>1, <1>2, Zenon
<1>3. CASE Ends # {}
  <2>1. Len(s) \in Nat /\ most \in 5 .. 8
    OBVIOUS
  <2>2. Ends \in SUBSET Nat
    BY <2>1
  <2>3. n = FirstOf(Ends)
    <3> HIDE DEF Ends
    <3> QED
      BY Zenon DEF FirstOf
  <2>4. n \in Ends /\ \A j \in Ends : n <= j
    <3> HIDE DEF Ends, n
    <3> QED
      BY <1>3, <2>2, <2>3, FirstOfSet
  <2>5. PICK k \in 1 .. Len(s) : k = n
    <3> HIDE DEF n
    <3> QED
      BY <2>4
  <2>6. k <= most
    <3>1. most \in Ends \/ Len(s) < most
      BY <2>1
    <3> HIDE DEF Ends, n, most
    <3> QED
      BY <3>1, <2>1, <2>4, <2>5
  <2> HIDE DEF Ends, n, most
  <2>7. SubSeq(s, 1, k) \in Seq(0 .. TbByte - 1) /\ Len(SubSeq(s, 1, k)) = k
    BY <2>1, StartOf
  <2>8. PICK b \in Seq(Nat) : b = SubSeq(s, 1, k) /\ Len(b) <= 8
    <3>1. SubSeq(s, 1, k) \in Seq(Nat)
      BY <2>7, Bytes
    <3>2. k <= 8
      BY <2>1, <2>6
    <3> QED
      BY <3>1, <3>2, <2>7
  <2>9. PICK x \in Nat : x = Number(b, Group)
    BY <2>8, NumberNat
  <2>10. 2^9 = 512 /\ 2^15 = 32768
    BY SMT
  <2>11. PICK m \in Nat \ {0} : m = 2^bits
    <3>1. CASE bits = 9
      BY <2>10, <3>1
    <3>2. CASE bits = 15
      BY <2>10, <3>2
    <3> QED
      BY <3>1, <3>2
  <2>12. x % m \in Nat
    BY DivMod
  <2> QED
    BY <1>1, <1>3, <2>5, <2>8, <2>9, <2>11, <2>12, Zenon
<1> QED
  BY <1>2, <1>3

LEMMA DecodedWithin ==
  ASSUME NEW type \in TbTypes, NEW s \in Seq(0 .. TbByte - 1), NEW e, TbDecode(type, s, e).ok
  PROVE  TbDecode(type, s, e).n \in 0 .. Len(s) /\ TbDecode(type, s, e).v \in TbResults
<1> USE TypesAre
<1>0. ~Short.ok /\ Len(s) \in Nat /\ \A n, v : Found(n, v).n = n /\ Found(n, v).v = v /\ Found(n, v).ok
  BY DEF Short, Found
<1>1. ASSUME NEW n \in {1, 2, 3, 5}
      PROVE  \/ ReadFixed(s, n, e) = Short
             \/ Len(s) >= n /\ \E v \in Nat : ReadFixed(s, n, e) = Found(n, v)
  <2>1. CASE Len(s) < n
    BY <2>1, Zenon DEF ReadFixed
  <2>2. CASE Len(s) >= n
    <3>1. PICK v \in Nat : v = DecodeFixed(SubSeq(s, 1, n), e) /\ ReadFixed(s, n, e) = Found(n, v)
      BY <2>2, FixedWithin
    <3> QED
      BY <2>2, <3>1
  <2> QED
    BY <1>0, <2>1, <2>2
<1>2. CASE type \in FixedTypes
  <2>1. PICK n \in {1, 2, 3, 5} : n = FixedBytes[type]
    BY <1>2
  <2>2. TbDecode(type, s, e) = ReadFixed(s, n, e)
    BY <1>2, <2>1, Zenon DEF TbDecode
  <2>3. PICK v \in Nat : Len(s) >= n /\ TbDecode(type, s, e) = Found(n, v)
    BY <1>0, <1>1, <2>2
  <2>4. TbDecode(type, s, e).n = n /\ TbDecode(type, s, e).v = v
    BY <2>3 DEF Found
  <2> QED
    BY <1>0, <2>3, <2>4 DEF TbResults
<1>3. CASE type \in VarintTypes
  <2>1. type \notin FixedTypes
    BY <1>3 DEF FixedTypes, VarintTypes
  <2>2. PICK bits \in {9, 15} : bits = VarintBits[type]
    BY <1>3
  <2>3. PICK r : r = ReadVarint(s, bits)
    OBVIOUS
  <2>4. TbDecode(type, s, e) = IF r.ok /\ type \in Signed THEN Found(r.n, DecodeZigzag(r.v)) ELSE r
    BY <1>3, <2>1, <2>2, <2>3, Zenon DEF TbDecode
  <2>5. r # Short
    BY <1>0, <2>4, Zenon
  <2>6. PICK n \in 1 .. Len(s), v \in Nat : r = Found(n, v)
    BY <2>3, <2>5, VarintWithin
  <2>7. r.n = n /\ r.v = v /\ r.ok
    BY <2>6 DEF Found
  <2>8. DecodeZigzag(v) \in Int
    BY DEF DecodeZigzag
  <2>9. TbDecode(type, s, e).n = n /\ TbDecode(type, s, e).v \in {v, DecodeZigzag(v)}
    <3>1. TbDecode(type, s, e) = Found(n, DecodeZigzag(v)) \/ TbDecode(type, s, e) = Found(n, v)
      BY <2>4, <2>6, <2>7, Zenon
    <3> QED
      BY <3>1 DEF Found
  <2> QED
    BY <1>0, <2>8, <2>9 DEF TbResults
<1>4. CASE type \in StringTypes \cup {"stringVint"}
  <2>1. type \notin FixedTypes /\ type \notin VarintTypes
    BY <1>4 DEF FixedTypes, VarintTypes, StringTypes
  <2>2. PICK n \in {1, 2, 3, 5} : n = FixedBytes[IF type = "stringVint" THEN "fint64" ELSE LengthType[type]]
    BY <1>4
  <2>3. PICK head : head = ReadFixed(s, n, e)
    OBVIOUS
  <2>4. TbDecode(type, s, e) = ReadString(s, type, e)
    BY <2>1, Zenon DEF TbDecode
  <2>5. ReadString(s, type, e) = IF ~head.ok \/ Len(s) < head.n + head.v THEN Short
                                 ELSE Found(head.n + head.v, SubSeq(s, head.n + 1, head.n + head.v))
    BY <2>2, <2>3, Zenon DEF ReadString
  <2>6. head.ok /\ ~(Len(s) < head.n + head.v)
    BY <1>0, <2>4, <2>5, Zenon
  <2>7. head # Short
    BY <1>0, <2>6, Zenon
  <2>8. PICK v \in Nat : head = Found(n, v)
    BY <1>1, <2>3, <2>7
  <2>9. head.n = n /\ head.v = v
    BY <2>8 DEF Found
  <2>10. n \in Nat /\ n + v \in 0 .. Len(s)
    BY <1>0, <2>6, <2>9
  <2>11. SubSeq(s, n + 1, n + v) \in Seq(0 .. TbByte - 1)
    <3>1. n + v <= Len(s) /\ n + v \in Nat
      BY <1>0, <2>10
    <3> QED
      <4>1. PICK a \in Nat, z \in Nat : a = n + 1 /\ z = n + v
        BY <2>10
      <4>2. \A i \in a .. z : s[i] \in 0 .. TbByte - 1
        <5>1. \A i \in a .. z : i \in 1 .. Len(s)
          BY <1>0, <2>10, <4>1
        <5>2. \A i \in 1 .. Len(s) : s[i] \in 0 .. TbByte - 1
          <6> HIDE TypesAre
          <6> QED
            BY ElementOfSeq
        <5> QED
          BY <5>1, <5>2
      <4>3. SubSeq(s, a, z) \in Seq(0 .. TbByte - 1)
        BY <4>2, SubSeqProperties
      <4> QED
        BY <4>1, <4>3, Zenon
  <2>12. TbDecode(type, s, e) = Found(n + v, SubSeq(s, n + 1, n + v))
    BY <2>4, <2>5, <2>6, <2>9, Zenon
  <2>13. TbDecode(type, s, e).n = n + v /\ TbDecode(type, s, e).v = SubSeq(s, n + 1, n + v)
    BY <2>12 DEF Found
  <2> QED
    BY <2>10, <2>11, <2>13 DEF TbResults
<1> QED
  BY <1>2, <1>3, <1>4

-----------------------------------------------------------------------------
(* The round trip of typed values. *)
TbItems == {w \in [type : TbTypes, value : UNION {TbValues(t) : t \in TbTypes}, endian : {"big", "little"}] :
              TbInRange(w.type, w.value)}
ItemBytes(w) == TbEncode(w.type, w.value, w.endian)
(* Item i is the bytes behind ends[i - 1], up to ends[i]. *)
LaidOut(ends, items, bytes) ==
  /\ ends \in [0 .. Len(items) -> 0 .. Len(bytes)]
  /\ ends[0] = 0 /\ ends[Len(items)] = Len(bytes)
  /\ \A i \in 1 .. Len(items) :
       /\ ends[i] = ends[i - 1] + Len(ItemBytes(items[i]))
       /\ \A k \in 1 .. Len(ItemBytes(items[i])) : bytes[ends[i - 1] + k] = ItemBytes(items[i])[k]
TbTyped ==
  /\ m_endian \in {"big", "little"} /\ phase \in {"writing", "reading", "thrown"}
  /\ tape \in Seq(0 .. TbByte - 1) /\ nextByte \in 0 .. Len(tape)
  /\ written \in Seq(TbItems) /\ Len(written) <= MaxValues
  /\ got \in Seq([value : TbResults, endian : {"big", "little"}]) /\ Len(got) <= Len(written)
(* A reader of items that all come back stands at the end of the last one it took. *)
TbInv ==
  /\ TbTyped
  /\ \E ends : LaidOut(ends, written, tape)
                /\ (ComesBack(Len(got), m_endian) => nextByte = ends[Len(got)])
  /\ phase = "writing" => got = <<>> /\ nextByte = 0
  /\ ReadsBack
  /\ phase = "thrown" => ~(Len(got) < Len(written) /\ ComesBack(Len(got) + 1, m_endian))

LEMMA TbInvRoundTrip == TbInv => RoundTrip /\ TbTypeOK
<1> SUFFICES ASSUME TbInv PROVE RoundTrip /\ TbTypeOK
  OBVIOUS
<1>1. PICK ends : LaidOut(ends, written, tape) /\ (ComesBack(Len(got), m_endian) => nextByte = ends[Len(got)])
  BY DEF TbInv
<1>2. ends[Len(written)] = Len(tape)
  BY <1>1 DEF LaidOut
<1>3. ASSUME Len(got) = Len(written), ComesBack(Len(got), m_endian) PROVE nextByte = Len(tape)
  BY <1>1, <1>2, <1>3, Zenon
<1>4. TakesAll
  BY <1>3, Zenon DEF TakesAll, TbInv
<1>5. TbTypeOK
  BY DEF TbInv, TbTyped, TbTypeOK
<1> QED
  BY <1>4, <1>5 DEF RoundTrip, TbInv

LEMMA TbInvInit == TbInit => TbInv
<1> SUFFICES ASSUME TbInit PROVE TbInv
  OBVIOUS
<1>1. tape = <<>> /\ written = <<>> /\ got = <<>> /\ m_endian = "big" /\ phase = "writing" /\ nextByte = 0
  BY DEF TbInit
<1>2. MaxValues \in Nat
  BY TypedBytesAssumption
<1>3. TbTyped
  BY <1>1, <1>2 DEF TbTyped
<1>4. PICK ends : ends = [i \in 0 .. 0 |-> 0]
  OBVIOUS
<1>5. ends \in [0 .. 0 -> 0 .. 0] /\ ends[0] = 0
  BY <1>4
<1>6. LaidOut(ends, written, tape) /\ nextByte = ends[Len(got)]
  BY <1>1, <1>5 DEF LaidOut
<1>7. ReadsBack
  BY <1>1 DEF ReadsBack
<1> QED
  BY <1>1, <1>3, <1>6, <1>7 DEF TbInv

LEMMA TbInvEndian ==
  ASSUME TbInv, SetIsLittleEndian
  PROVE  TbInv'
<1>1. UNCHANGED <<tape, written, phase, nextByte, got>> /\ phase # "thrown" /\ m_endian' \in {"big", "little"}
  BY DEF SetIsLittleEndian
<1>2. TbTyped'
  BY <1>1 DEF TbInv, TbTyped
<1>3. Len(got) \in Nat
  BY DEF TbInv, TbTyped
<1>4. ASSUME NEW i \in 0 .. Len(got) PROVE ComesBack(i, m_endian)' <=> ComesBack(i, m_endian)
  <2>1. \A j \in 1 .. i : j <= Len(got)
    BY <1>3
  <2>2. ComesBack(i, m_endian)' <=>
          \A j \in 1 .. i : written[j].type # "stringVint" /\ ~TooLong(written[j]) /\ ~Reordered(written[j], got[j].endian)
    BY <1>1, <2>1 DEF ComesBack
  <2>3. ComesBack(i, m_endian) <=>
          \A j \in 1 .. i : written[j].type # "stringVint" /\ ~TooLong(written[j]) /\ ~Reordered(written[j], got[j].endian)
    BY <2>1 DEF ComesBack
  <2> QED
    BY <2>2, <2>3
<1>5. PICK ends : LaidOut(ends, written, tape) /\ (ComesBack(Len(got), m_endian) => nextByte = ends[Len(got)])
  BY DEF TbInv
<1>6. LaidOut(ends, written', tape') /\ (ComesBack(Len(got), m_endian)' => nextByte' = ends[Len(got')])
  <2>1. Len(got) \in 0 .. Len(got)
    BY <1>3
  <2> QED
    BY <1>1, <1>4, <1>5, <2>1
<1>7. ReadsBack'
  <2> SUFFICES ASSUME NEW i \in 1 .. Len(got), ComesBack(i, m_endian)' PROVE got[i].value = written[i].value
    BY <1>1 DEF ReadsBack
  <2>1. ComesBack(i, m_endian)
    BY <1>3, <1>4
  <2> QED
    BY <2>1 DEF TbInv, ReadsBack
<1> QED
  BY <1>1, <1>2, <1>6, <1>7 DEF TbInv

LEMMA TbInvWrite ==
  ASSUME TbInv, NEW type \in TbTypes, NEW v \in TbValues(type), TbWrite(type, v)
  PROVE  TbInv'
<1>1. /\ phase = "writing" /\ Len(written) < MaxValues
      /\ tape' = tape \o TbEncode(type, v, m_endian)
      /\ written' = Append(written, [type |-> type, value |-> v, endian |-> m_endian])
      /\ UNCHANGED <<m_endian, phase, nextByte, got>>
  BY DEF TbWrite
<1>2. TbTyped /\ got = <<>> /\ nextByte = 0
  BY <1>1 DEF TbInv
<1>3. TbInRange(type, v)
  BY TypedBytesAssumption
<1>4. PICK w \in TbItems : w = [type |-> type, value |-> v, endian |-> m_endian]
  <2>1. PICK w : w = [type |-> type, value |-> v, endian |-> m_endian]
    OBVIOUS
  <2>2. v \in UNION {TbValues(t) : t \in TbTypes} /\ m_endian \in {"big", "little"}
    BY <1>2 DEF TbTyped
  <2>3. w \in [type : TbTypes, value : UNION {TbValues(t) : t \in TbTypes}, endian : {"big", "little"}]
    BY <2>1, <2>2
  <2>4. w.type = type /\ w.value = v
    BY <2>1
  <2>5. w \in TbItems
    BY <2>3, <2>4, <1>3, Zenon DEF TbItems
  <2> QED
    BY <2>1, <2>5
<1>5. PICK e \in Seq(0 .. TbByte - 1) : e = TbEncode(type, v, m_endian) /\ e = ItemBytes(w)
  <2>1. TbEncode(type, v, m_endian) \in Seq(0 .. TbByte - 1)
    BY <1>3, EncodedBytes
  <2>2. w.type = type /\ w.value = v /\ w.endian = m_endian
    BY <1>4
  <2>3. ItemBytes(w) = TbEncode(type, v, m_endian)
    BY <2>2, Zenon DEF ItemBytes
  <2> QED
    BY <2>1, <2>3
<1>6. PICK n \in Nat, b \in Nat, c \in Nat : n = Len(written) /\ b = Len(tape) /\ c = Len(e)
  BY <1>2 DEF TbTyped
<1>7. PICK t \in Seq(0 .. TbByte - 1) :
        /\ t = tape' /\ Len(t) = b + c
        /\ \A i \in 1 .. b : t[i] = tape[i]
        /\ \A i \in 1 .. c : t[b + i] = e[i]
  <2>1. tape \in Seq(0 .. TbByte - 1) /\ tape' = tape \o e
    BY <1>1, <1>2, <1>5 DEF TbTyped
  <2> QED
    <3>1. /\ tape \o e \in Seq(0 .. TbByte - 1) /\ Len(tape \o e) = Len(tape) + Len(e)
          /\ \A i \in 1 .. Len(tape) + Len(e) :
               (tape \o e)[i] = IF i <= Len(tape) THEN tape[i] ELSE e[i - Len(tape)]
      BY <2>1, ConcatProperties
    <3>2. PICK t : t = tape \o e
      OBVIOUS
    <3>3. t \in Seq(0 .. TbByte - 1) /\ Len(t) = b + c
          /\ \A i \in 1 .. b + c : t[i] = IF i <= b THEN tape[i] ELSE e[i - b]
      BY <3>1, <3>2, <1>6
    <3>4. \A i \in 1 .. b : t[i] = tape[i]
      BY <3>3
    <3>5. \A i \in 1 .. c : t[b + i] = e[i]
      BY <3>3
    <3> QED
      BY <2>1, <3>2, <3>3, <3>4, <3>5
<1>8. PICK items \in Seq(TbItems) :
        /\ items = written' /\ Len(items) = n + 1 /\ items[n + 1] = w
        /\ \A i \in 1 .. n : items[i] = written[i]
  <2>1. written \in Seq(TbItems) /\ written' = Append(written, w)
    BY <1>1, <1>2, <1>4 DEF TbTyped
  <2> QED
    <3>1. /\ Append(written, w) \in Seq(TbItems) /\ Len(Append(written, w)) = Len(written) + 1
          /\ \A i \in 1 .. Len(written) : Append(written, w)[i] = written[i]
          /\ Append(written, w)[Len(written) + 1] = w
      BY <2>1, AppendProperties
    <3> QED
      BY <3>1, <2>1, <1>6
<1>9. TbTyped'
  <2>1. n + 1 <= MaxValues /\ MaxValues \in Nat
    BY <1>1, <1>6, TypedBytesAssumption
  <2>2. nextByte' \in 0 .. Len(tape')
    BY <1>1, <1>2, <1>7
  <2>3. Len(got') <= Len(written')
    BY <1>1, <1>2, <1>6, <1>8
  <2> QED
    BY <1>1, <1>2, <1>7, <1>8, <2>1, <2>2, <2>3 DEF TbTyped
<1>10. PICK ends : LaidOut(ends, written, tape)
  BY DEF TbInv
<1>11. /\ ends \in [0 .. n -> 0 .. b] /\ ends[0] = 0 /\ ends[n] = b
       /\ \A i \in 1 .. n :
            /\ ends[i] = ends[i - 1] + Len(ItemBytes(written[i]))
            /\ \A k \in 1 .. Len(ItemBytes(written[i])) : tape[ends[i - 1] + k] = ItemBytes(written[i])[k]
  BY <1>6, <1>10, Zenon DEF LaidOut
<1>12. PICK more \in [0 .. n + 1 -> 0 .. b + c] : more = [i \in 0 .. n + 1 |-> IF i <= n THEN ends[i] ELSE b + c]
  <2>1. [i \in 0 .. n + 1 |-> IF i <= n THEN ends[i] ELSE b + c] \in [0 .. n + 1 -> 0 .. b + c]
    <3>1. \A i \in 0 .. n + 1 : (IF i <= n THEN ends[i] ELSE b + c) \in 0 .. b + c
      <4> TAKE i \in 0 .. n + 1
      <4>1. CASE i <= n
        <5>1. ends[i] \in 0 .. b
          BY <1>11, <4>1
        <5> QED
          BY <4>1, <5>1
      <4>2. CASE ~(i <= n)
        BY <4>2
      <4> QED
        BY <4>1, <4>2
    <3> QED
      BY <3>1, Zenon
  <2> QED
    BY <2>1, Zenon
<1>13. more[n + 1] = b + c /\ \A i \in 0 .. n : more[i] = ends[i]
  BY <1>12
<1>14. LaidOut(more, items, t)
  <2>1. more[0] = 0 /\ more[Len(items)] = Len(t)
    BY <1>7, <1>8, <1>11, <1>13
  <2>2. ASSUME NEW i \in 1 .. Len(items)
        PROVE  /\ more[i] = more[i - 1] + Len(ItemBytes(items[i]))
               /\ \A k \in 1 .. Len(ItemBytes(items[i])) : t[more[i - 1] + k] = ItemBytes(items[i])[k]
    <3>1. CASE i = n + 1
      <4>1. i - 1 = n /\ more[i - 1] = b /\ more[i] = b + c /\ ItemBytes(items[i]) = e
        BY <1>5, <1>8, <1>11, <1>13, <3>1
      <4> QED
        BY <4>1, <1>6, <1>7
    <3>2. CASE i \in 1 .. n
      <4>1. PICK f : f = ItemBytes(written[i]) /\ f = ItemBytes(items[i])
        BY <1>8, <3>2
      <4>2. PICK m \in 0 .. b, k \in 0 .. b : m = ends[i - 1] /\ k = ends[i]
        <5>1. i \in 0 .. n /\ i - 1 \in 0 .. n
          BY <3>2
        <5>2. ends[i - 1] \in 0 .. b /\ ends[i] \in 0 .. b
          BY <1>11, <5>1
        <5> QED
          BY <5>2
      <4>3. more[i - 1] = m /\ more[i] = k
        BY <1>13, <3>2, <4>2
      <4>4. k = m + Len(f) /\ \A x \in 1 .. Len(f) : tape[m + x] = f[x]
        BY <1>11, <3>2, <4>1, <4>2, ZenonT(30)
      <4>5. Len(f) \in Nat
        <5>1. written[i] \in TbItems
          BY <1>2, <1>6, <3>2 DEF TbTyped
        <5>2. f \in Seq(0 .. TbByte - 1)
          BY <4>1, <5>1, EncodedBytes DEF ItemBytes, TbItems
        <5> QED
          BY <5>2
      <4>6. \A x \in 1 .. Len(f) : m + x \in 1 .. b
        <5>1. PICK l \in Nat : l = Len(f)
          BY <4>5
        <5>2. k = m + l /\ k \in 0 .. b /\ m \in Nat
          BY <4>2, <4>4, <5>1
        <5>3. \A x \in 1 .. l : m + x \in 1 .. b
          BY <5>2
        <5> QED
          BY <5>1, <5>3
      <4>7. \A x \in 1 .. Len(f) : t[m + x] = f[x]
        BY <1>7, <4>4, <4>6
      <4> QED
        BY <4>1, <4>3, <4>4, <4>7
    <3> QED
      BY <1>8, <3>1, <3>2
  <2> QED
    BY <1>7, <1>8, <1>12, <2>1, <2>2 DEF LaidOut
<1>15. nextByte' = more[Len(got')]
  BY <1>1, <1>2, <1>11, <1>13
<1>16. ReadsBack'
  BY <1>1, <1>2 DEF ReadsBack
<1> QED
  BY <1>1, <1>2, <1>7, <1>8, <1>9, <1>14, <1>15, <1>16 DEF TbInv

LEMMA TbInvRewind ==
  ASSUME TbInv, Rewind
  PROVE  TbInv'
<1>1. phase' = "reading" /\ UNCHANGED <<m_endian, tape, written, nextByte, got>>
  BY DEF Rewind
<1>2. TbTyped'
  BY <1>1 DEF TbInv, TbTyped
<1>3. PICK ends : LaidOut(ends, written, tape) /\ (ComesBack(Len(got), m_endian) => nextByte = ends[Len(got)])
  BY DEF TbInv
<1>4. ComesBack(Len(got), m_endian)' <=> ComesBack(Len(got), m_endian)
  BY <1>1 DEF ComesBack
<1>5. ReadsBack'
  BY <1>1 DEF TbInv, ReadsBack, ComesBack
<1> QED
  BY <1>1, <1>2, <1>3, <1>4, <1>5 DEF TbInv

LEMMA TbInvRead ==
  ASSUME TbInv, TbRead
  PROVE  TbInv'
<1>1. phase = "reading" /\ Len(got) < Len(written) /\ UNCHANGED <<m_endian, tape, written>>
  BY DEF TbRead
<1>2. TbTyped
  BY DEF TbInv
<1>3. PICK g \in Nat, n \in Nat, b \in Nat, p \in Nat :
        g = Len(got) /\ n = Len(written) /\ b = Len(tape) /\ p = nextByte /\ g < n /\ p <= b
  BY <1>1, <1>2 DEF TbTyped
<1>4. PICK w \in TbItems : w = written[g + 1]
  BY <1>2, <1>3 DEF TbTyped
<1>5. w.type \in TbTypes /\ TbInRange(w.type, w.value) /\ w.endian \in {"big", "little"}
  BY <1>4 DEF TbItems
<1>6. PICK s \in Seq(0 .. TbByte - 1) :
        s = SubSeq(tape, nextByte + 1, Len(tape)) /\ Len(s) = b - p /\ \A i \in 1 .. b - p : s[i] = tape[p + i]
  <2>1. tape \in Seq(0 .. TbByte - 1)
    BY <1>2 DEF TbTyped
  <2>2. \A i \in p + 1 .. b : tape[i] \in 0 .. TbByte - 1
    <3>1. \A i \in p + 1 .. b : i \in 1 .. b
      BY <1>3
    <3> QED
      <4>1. \A i \in 1 .. Len(tape) : tape[i] \in 0 .. TbByte - 1
        BY <2>1, ElementOfSeq
      <4> QED
        BY <4>1, <3>1, <1>3
  <2>3. PICK s : s = SubSeq(tape, p + 1, b)
    OBVIOUS
  <2>4. /\ s \in Seq(0 .. TbByte - 1) /\ Len(s) = IF p + 1 <= b THEN b - (p + 1) + 1 ELSE 0
        /\ \A i \in 1 .. b - (p + 1) + 1 : s[i] = tape[p + 1 + i - 1]
    BY <2>2, <2>3, SubSeqProperties
  <2>5. Len(s) = b - p /\ \A i \in 1 .. b - p : s[i] = tape[p + i]
    BY <1>3, <2>4
  <2> QED
    BY <1>3, <2>3, <2>4, <2>5
<1>7. PICK r : r = TbDecode(w.type, s, m_endian)
  OBVIOUS
<1>8. /\ r.ok => /\ nextByte' = p + r.n /\ phase' = phase
                 /\ got' = Append(got, [value |-> r.v, endian |-> m_endian])
      /\ ~r.ok => phase' = "thrown" /\ UNCHANGED <<nextByte, got>>
  <2>1. r = TbDecode(written[Len(got) + 1].type, SubSeq(tape, nextByte + 1, Len(tape)), m_endian)
    BY <1>3, <1>4, <1>6, <1>7, Zenon
  <2> QED
    BY <1>3, <2>1, Zenon DEF TbRead
<1>9. PICK ends : LaidOut(ends, written, tape) /\ (ComesBack(Len(got), m_endian) => nextByte = ends[Len(got)])
  BY DEF TbInv
<1>10. \A k \in Int : ComesBack(k + 1, m_endian) => ComesBack(k, m_endian)
  BY DEF ComesBack
(* What the reader gets when every item up to here comes back. *)
<1>11. ASSUME ComesBack(g + 1, m_endian)
       PROVE  r.ok /\ r.v = w.value /\ p + r.n = ends[g + 1]
  <2>1. ComesBack(g, m_endian) /\ p = ends[g]
    BY <1>3, <1>9, <1>10, <1>11
  <2>2. w.type # "stringVint" /\ ~TooLong(w) /\ ~Reordered(w, m_endian)
    <3>1. g + 1 \in 1 .. g + 1 /\ ~(g + 1 <= Len(got))
      BY <1>3
    <3> QED
      BY <1>4, <1>11, <3>1, Zenon DEF ComesBack
  <2>3. w.type \notin VarintTypes => m_endian = w.endian
    <3>1. w.type \notin DOMAIN FixedBytes \cup DOMAIN LengthType \/ w.endian = m_endian
      BY <2>2, Zenon DEF Reordered
    <3> QED
      BY <1>5, <2>2, <3>1, TypesAre
  <2>4. PICK e \in Seq(0 .. TbByte - 1) : e = ItemBytes(w) /\ e = TbEncode(w.type, w.value, w.endian)
    BY <1>5, EncodedBytes DEF ItemBytes
  <2>5. PICK c \in Nat : c = Len(e)
    BY <2>4
  <2>6. g + 1 \in 1 .. n /\ g + 1 \in 0 .. n /\ (g + 1) - 1 = g
    BY <1>3
  <2>7. ends[g + 1] = p + c /\ p + c \in 0 .. b /\ \A k \in 1 .. c : tape[p + k] = e[k]
    <3>1. /\ ends[g + 1] = ends[(g + 1) - 1] + Len(ItemBytes(written[g + 1])) /\ ends[g + 1] \in 0 .. b
          /\ \A k \in 1 .. Len(ItemBytes(written[g + 1])) :
               tape[ends[(g + 1) - 1] + k] = ItemBytes(written[g + 1])[k]
      BY <1>3, <1>9, <2>6 DEF LaidOut
    <3> QED
      BY <3>1, <1>4, <2>1, <2>4, <2>5, <2>6
  <2>8. Len(s) >= c /\ \A k \in 1 .. c : s[k] = e[k]
    <3>1. c <= b - p /\ \A k \in 1 .. c : k \in 1 .. b - p
      BY <1>3, <2>5, <2>7
    <3> QED
      BY <1>6, <2>7, <3>1
  <2>9. TooLong([type |-> w.type, value |-> w.value, endian |-> w.endian]) <=> TooLong(w)
    BY DEF TooLong
  <2>10. TbDecode(w.type, s, m_endian) = Found(Len(TbEncode(w.type, w.value, w.endian)), w.value)
    BY <1>5, <2>2, <2>3, <2>4, <2>5, <2>8, <2>9, ItemBack
  <2>11. r = Found(c, w.value)
    BY <1>7, <2>4, <2>5, <2>10, Zenon
  <2>12. r.ok /\ r.n = c /\ r.v = w.value
    BY <2>11 DEF Found
  <2> QED
    BY <2>7, <2>12
<1>12. CASE r.ok
  <2>1. r.n \in 0 .. b - p /\ r.v \in TbResults
    BY <1>5, <1>6, <1>7, <1>12, DecodedWithin
  <2>2. PICK x \in [value : TbResults, endian : {"big", "little"}] : x = [value |-> r.v, endian |-> m_endian]
    BY <1>2, <2>1 DEF TbTyped
  <2>3. x.value = r.v /\ x.endian = m_endian
    BY <2>2
  <2>4. /\ got' \in Seq([value : TbResults, endian : {"big", "little"}]) /\ Len(got') = g + 1
        /\ got'[g + 1] = x /\ \A i \in 1 .. g : got'[i] = got[i]
    <3>1. got \in Seq([value : TbResults, endian : {"big", "little"}]) /\ got' = Append(got, x)
      BY <1>2, <1>8, <1>12, <2>2 DEF TbTyped
    <3> QED
      BY <3>1, <1>3
  <2>5. phase' = "reading" /\ nextByte' = p + r.n
    BY <1>1, <1>8, <1>12
  <2>6. TbTyped'
    <3>1. nextByte' \in 0 .. Len(tape')
      BY <1>1, <1>3, <2>1, <2>5
    <3>2. Len(got') <= Len(written')
      BY <1>1, <1>3, <2>4
    <3> QED
      BY <1>1, <1>2, <2>4, <2>5, <3>1, <3>2 DEF TbTyped
  <2>7. ASSUME NEW i \in 1 .. g + 1 PROVE ComesBack(i, m_endian)' <=> ComesBack(i, m_endian)
    <3> DEFINE Back(j, endian) == written[j].type # "stringVint" /\ ~TooLong(written[j]) /\ ~Reordered(written[j], endian)
    <3>1. ASSUME NEW j \in 1 .. i
          PROVE  (IF j <= Len(got') THEN got'[j].endian ELSE m_endian)
                   = (IF j <= Len(got) THEN got[j].endian ELSE m_endian)
      <4>1. CASE j \in 1 .. g
        BY <1>3, <2>4, <4>1
      <4>2. CASE j = g + 1
        BY <1>3, <2>3, <2>4, <4>2
      <4> QED
        BY <4>1, <4>2
    <3>2. ComesBack(i, m_endian)' <=> \A j \in 1 .. i : Back(j, IF j <= Len(got') THEN got'[j].endian ELSE m_endian)
      BY <1>1 DEF ComesBack
    <3>3. ComesBack(i, m_endian) <=> \A j \in 1 .. i : Back(j, IF j <= Len(got) THEN got[j].endian ELSE m_endian)
      BY DEF ComesBack
    <3> QED
      BY <3>1, <3>2, <3>3, Zenon
  <2>8. ReadsBack'
    <3> SUFFICES ASSUME NEW i \in 1 .. g + 1, ComesBack(i, m_endian)' PROVE got'[i].value = written[i].value
      BY <1>1, <2>4 DEF ReadsBack
    <3>1. ComesBack(i, m_endian)
      BY <2>7
    <3>2. CASE i \in 1 .. g
      BY <1>3, <2>4, <3>1, <3>2 DEF TbInv, ReadsBack
    <3>3. CASE i = g + 1
      BY <1>4, <1>11, <2>3, <2>4, <3>1, <3>3
    <3> QED
      BY <3>2, <3>3
  <2>9. ComesBack(Len(got), m_endian)' => nextByte' = ends[Len(got')]
    <3>1. g + 1 \in 1 .. g + 1
      BY <1>3
    <3> QED
      BY <1>11, <2>4, <2>5, <2>7, <3>1
  <2> QED
    BY <1>1, <1>9, <2>5, <2>6, <2>8, <2>9 DEF TbInv
<1>13. CASE ~r.ok
  <2>1. phase' = "thrown" /\ nextByte' = nextByte /\ got' = got
    BY <1>8, <1>13
  <2>2. TbTyped'
    BY <1>1, <1>2, <2>1 DEF TbTyped
  <2>3. \A k \in Int : ComesBack(k, m_endian)' <=> ComesBack(k, m_endian)
    BY <1>1, <2>1 DEF ComesBack
  <2>4. ReadsBack'
    BY <1>1, <2>1 DEF TbInv, ReadsBack, ComesBack
  <2>5. ~ComesBack(Len(got) + 1, m_endian)
    BY <1>3, <1>11, <1>13
  <2>6. Len(got) \in Int /\ Len(got) + 1 \in Int
    BY <1>3
  <2> QED
    BY <1>1, <1>9, <2>1, <2>2, <2>3, <2>4, <2>5, <2>6 DEF TbInv
<1> QED
  BY <1>12, <1>13

(* Whatever values are written, of whatever types and in whatever order: a reader that asks for
   the same types gets the same values and is never thrown out, up to the first item whose length
   its word has no room for, whose byte order was changed, or that readStringVint reads with a
   length of another kind (ByteArray::writeFint8 .. readStringVint). *)
THEOREM ValuesComeBack == TbSpec => []RoundTrip
<1>1. TbInit => TbInv
  BY TbInvInit
<1>2. TbInv /\ [TbNext]_tbVars => TbInv'
  <2> SUFFICES ASSUME TbInv, [TbNext]_tbVars PROVE TbInv'
    OBVIOUS
  <2>1. CASE SetIsLittleEndian
    BY <2>1, TbInvEndian
  <2>2. ASSUME NEW type \in TbTypes, NEW v \in TbValues(type), TbWrite(type, v) PROVE TbInv'
    BY <2>2, TbInvWrite
  <2>3. CASE Rewind
    BY <2>3, TbInvRewind
  <2>4. CASE TbRead
    BY <2>4, TbInvRead
  <2>5. CASE UNCHANGED tbVars
    BY <2>5 DEF tbVars, TbInv, TbTyped, ReadsBack, ComesBack
  <2> QED
    BY <2>1, <2>2, <2>3, <2>4, <2>5 DEF TbNext
<1> QED
  BY <1>1, <1>2, TbInvRoundTrip, PTL DEF TbSpec

-----------------------------------------------------------------------------
(* The registry.  What the first d members of a file give to a setting that was var. *)
GivenIn(said, n, type, d) == {i \in 1..d : NameOf(said[i].name) = n /\ Takes(type, said[i].node)}
HasLast(var, said, n, d, now) ==
  IF var = NoVar \/ GivenIn(said, n, var.type, d) = {} THEN now = var
  ELSE \E last \in GivenIn(said, n, var.type, d) :
         /\ \A i \in GivenIn(said, n, var.type, d) : i <= last
         /\ now = VarOf(var.type, Cast(var.type, said[last].node))
(* What is still to visit is what comes behind them. *)
Ahead(todo, said, d) ==
  /\ todo \in Seq(Listed) /\ Len(todo) = Len(said) - d
  /\ \A i \in 1..Len(todo) : todo[i] = said[d + i]
TypedVar(n, var) == var = NoVar \/ var.type \in TypesOf(n)
LoadedTo(at, datas, d) ==
  LET said == Members(at.file)
  IN /\ Ahead(at.todo, said, d)
     /\ \A n \in SettingNames : TypedVar(n, at.before[n])
     /\ \A n \in SettingNames \ at.met : HasLast(at.before[n], said, n, d, datas[n])
LoaderSound(at, datas) ==
  \/ at.todo = <<>> /\ at.met = SettingNames
  \/ at.file \in YamlFiles /\ \E d \in 0..Len(Members(at.file)) : LoadedTo(at, datas, d)
RegInv ==
  /\ DOMAIN s_datas = SettingNames /\ DOMAIN loader = Loaders
  /\ \A n \in SettingNames : TypedVar(n, s_datas[n])
  /\ \A t \in Loaders : LoaderSound(loader[t], s_datas)

(* One more member: it counts if it has the name and the setting takes it. *)
LEMMA OneMoreMember ==
  ASSUME NEW said, NEW n, NEW d \in Nat, NEW var, NEW now, NEW new, HasLast(var, said, n, d, now),
         NEW hit \in BOOLEAN, hit <=> NameOf(said[d + 1].name) = n,
         var # NoVar => now # NoVar,
         new = IF hit /\ now # NoVar /\ Takes(now.type, said[d + 1].node)
               THEN VarOf(now.type, Cast(now.type, said[d + 1].node)) ELSE now
  PROVE  HasLast(var, said, n, d + 1, new)
<1> DEFINE G == GivenIn(said, n, var.type, d)
           H == GivenIn(said, n, var.type, d + 1)
<1>1. CASE var = NoVar
  <2>1. now = NoVar
    BY <1>1 DEF HasLast
  <2> QED
    BY <1>1, <2>1 DEF HasLast
<1>2. CASE var # NoVar
  <2>1. now.type = var.type /\ now # NoVar
    BY <1>2 DEF HasLast, VarOf
  <2>2. CASE hit /\ Takes(var.type, said[d + 1].node)
    <3>1. new = VarOf(var.type, Cast(var.type, said[d + 1].node))
      BY <2>1, <2>2
    <3>2. d + 1 \in H /\ \A i \in H : i <= d + 1
      BY <2>2 DEF GivenIn
    <3> QED
      BY <1>2, <3>1, <3>2 DEF HasLast
  <2>3. CASE ~(hit /\ Takes(var.type, said[d + 1].node))
    <3>1. new = now
      BY <2>1, <2>3
    <3>2. G = H
      <4>1. \A i \in 1..d + 1 : i \in 1..d \/ i = d + 1
        OBVIOUS
      <4>2. \A i \in 1..d : i \in 1..d + 1
        OBVIOUS
      <4> QED
        BY <2>3, <4>1, <4>2 DEF GivenIn
    <3> QED
      BY <3>1, <3>2 DEF HasLast
  <2> QED
    BY <2>2, <2>3
<1> QED
  BY <1>1, <1>2

(* Who meets a name that others make or set says nothing of it any more. *)
LEMMA MeetsKeeps ==
  ASSUME NEW at, NEW datas, NEW new, NEW name \in SettingNames, LoaderSound(at, datas),
         \A n \in SettingNames : n # name => new[n] = datas[n]
  PROVE  LoaderSound(MeetsIn(at, name), new)
<1> DEFINE to == MeetsIn(at, name)
<1>1. to.todo = at.todo /\ to.file = at.file /\ to.before = at.before /\ to.met = at.met \cup {name}
  BY DEF MeetsIn, LoaderAt
<1> HIDE DEF to
<1>2. CASE at.todo = <<>> /\ at.met = SettingNames
  <2>1. to.todo = <<>> /\ to.met = SettingNames
    BY <1>1, <1>2
  <2> QED
    BY <2>1 DEF LoaderSound, to
<1>3. ASSUME at.file \in YamlFiles, NEW d \in 0..Len(Members(at.file)), LoadedTo(at, datas, d)
      PROVE  LoaderSound(to, new)
  <2>1. \A n \in SettingNames \ to.met : n \in SettingNames \ at.met /\ n # name
    BY <1>1
  <2>2. LoadedTo(to, new, d)
    BY <1>1, <1>3, <2>1 DEF LoadedTo
  <2> QED
    BY <1>1, <1>3, <2>2 DEF LoaderSound
<1> QED
  BY <1>2, <1>3 DEF LoaderSound, to

LEMMA RegInvInit == RegistryInit => RegInv
BY DEF RegistryInit, RegInv, TypedVar, LoaderSound, LoaderAt

LEMMA RegInvApplied == RegInv => FileApplied
<1> SUFFICES ASSUME RegInv, NEW t \in Loaders, loader[t].todo = <<>>, NEW n \in SettingNames \ loader[t].met
             PROVE  LET var == loader[t].before[n]
                        said == Members(loader[t].file)
                        given == {i \in DOMAIN said : NameOf(said[i].name) = n /\ Takes(var.type, said[i].node)}
                    IN IF var = NoVar \/ given = {} THEN s_datas[n] = var
                       ELSE \E last \in given : /\ \A i \in given : i <= last
                                                /\ s_datas[n] = VarOf(var.type, Cast(var.type, said[last].node))
  BY DEF FileApplied
<1> DEFINE said == Members(loader[t].file)
           var == loader[t].before[n]
<1>1. loader[t].file \in YamlFiles /\ \E e \in 0..Len(said) : LoadedTo(loader[t], s_datas, e)
  BY DEF RegInv, LoaderSound
<1>2. PICK d \in 0..Len(said) : LoadedTo(loader[t], s_datas, d)
  BY <1>1
<1>3. said \in Seq(Listed) /\ Len(said) \in Nat /\ DOMAIN said = 1..Len(said)
  BY <1>1, RegistryAssumption, LenProperties
<1>4. d = Len(said)
  <2>1. Len(loader[t].todo) = Len(said) - d /\ Len(loader[t].todo) = 0
    BY <1>2, EmptySeq DEF LoadedTo, Ahead
  <2> QED
    BY <1>3, <2>1
<1>5. HasLast(var, said, n, d, s_datas[n])
  BY <1>2 DEF LoadedTo
<1>6. GivenIn(said, n, var.type, d) =
        {i \in DOMAIN said : NameOf(said[i].name) = n /\ Takes(var.type, said[i].node)}
  BY <1>3, <1>4 DEF GivenIn
<1> QED
  BY <1>5, <1>6 DEF HasLast

LEMMA LookupKeeps ==
  ASSUME RegInv, NEW name \in SettingNames, NEW type \in TypesOf(name), Lookup(name, type)
  PROVE  RegInv'
<1>1. /\ s_datas' = [s_datas EXCEPT ![name] = VarOf(type, Defaults(type))]
      /\ loader' = [t \in Loaders |-> MeetsIn(loader[t], name)]
  BY DEF Lookup
<1>2. DOMAIN s_datas' = SettingNames /\ DOMAIN loader' = Loaders
  BY <1>1 DEF RegInv
<1>3. /\ s_datas'[name] = VarOf(type, Defaults(type))
      /\ \A n \in SettingNames : n # name => s_datas'[n] = s_datas[n]
  BY <1>1 DEF RegInv
<1>4. \A n \in SettingNames : TypedVar(n, s_datas'[n])
  BY <1>3 DEF RegInv, TypedVar, VarOf
<1>5. ASSUME NEW t \in Loaders PROVE LoaderSound(loader'[t], s_datas')
  <2>1. loader'[t] = MeetsIn(loader[t], name) /\ LoaderSound(loader[t], s_datas)
    BY <1>1 DEF RegInv
  <2> QED
    BY <1>3, <2>1, MeetsKeeps
<1> QED
  BY <1>2, <1>4, <1>5 DEF RegInv

LEMMA LoadKeeps ==
  ASSUME RegInv, NEW t \in Loaders, NEW file \in YamlFiles, LoadFromYaml(t, file)
  PROVE  RegInv'
<1> DEFINE at == LoaderAt(Members(file), file, s_datas, {})
<1>1. s_datas' = s_datas /\ loader' = [loader EXCEPT ![t] = at]
  BY DEF LoadFromYaml
<1>2. at.todo = Members(file) /\ at.file = file /\ at.before = s_datas /\ at.met = {}
  BY DEF LoaderAt
<1> HIDE DEF at
<1>3. Ahead(at.todo, Members(file), 0)
  <2>1. Members(file) \in Seq(Listed) /\ Len(Members(file)) \in Nat
    BY RegistryAssumption, LenProperties
  <2> QED
    BY <1>2, <2>1 DEF Ahead
<1>4. \A n \in SettingNames : HasLast(s_datas[n], Members(file), n, 0, s_datas[n])
  BY DEF HasLast, GivenIn
<1>5. LoadedTo(at, s_datas, 0) /\ 0 \in 0..Len(Members(at.file))
  <2>1. Len(Members(file)) \in Nat
    BY RegistryAssumption, LenProperties
  <2> QED
    BY <1>2, <1>3, <1>4, <2>1 DEF LoadedTo, RegInv
<1>6. LoaderSound(at, s_datas)
  BY <1>2, <1>5 DEF LoaderSound
<1>7. \A u \in Loaders : loader'[u] = IF u = t THEN at ELSE loader[u]
  BY <1>1 DEF RegInv
<1> QED
  BY <1>1, <1>6, <1>7 DEF RegInv

(* What LoadKey does to the setting it names, and to no other. *)
LEMMA AssignedIs ==
  ASSUME DOMAIN s_datas = SettingNames, NEW name \in SettingNames, NEW node, NEW n \in SettingNames
  PROVE  Assigned(name, node)[n] =
           IF n = name /\ s_datas[n] # NoVar /\ Takes(s_datas[n].type, node)
           THEN VarOf(s_datas[n].type, Cast(s_datas[n].type, node)) ELSE s_datas[n]
BY DEF Assigned

LEMMA LoadKeyKeeps ==
  ASSUME RegInv, NEW t \in Loaders, LoadKey(t)
  PROVE  RegInv'
<1> DEFINE at == loader[t]
           said == Members(at.file)
           first == Head(at.todo)
           name == NameOf(first.name)
           new == LoaderAt(Tail(at.todo), at.file, at.before, at.met)
<1>1. /\ at.todo # <<>>
      /\ s_datas' = IF name \in SettingNames THEN Assigned(name, first.node) ELSE s_datas
      /\ loader' = [u \in Loaders |->
           IF u = t THEN new
           ELSE IF name \in SettingNames THEN MeetsIn(loader[u], name) ELSE loader[u]]
  BY DEF LoadKey
<1>2. at.file \in YamlFiles /\ \E e \in 0..Len(said) : LoadedTo(at, s_datas, e)
  BY <1>1 DEF RegInv, LoaderSound
<1>3. PICK d \in 0..Len(said) : LoadedTo(at, s_datas, d)
  BY <1>2
<1>4. said \in Seq(Listed) /\ Len(said) \in Nat
  BY <1>2, RegistryAssumption, LenProperties
<1>5. /\ at.todo \in Seq(Listed) /\ Len(at.todo) = Len(said) - d
      /\ \A i \in 1..Len(at.todo) : at.todo[i] = said[d + i]
  BY <1>3 DEF LoadedTo, Ahead
<1>6. /\ first = at.todo[1] /\ first \in Listed /\ Tail(at.todo) \in Seq(Listed)
      /\ Len(Tail(at.todo)) = Len(at.todo) - 1
      /\ \A i \in 1..Len(Tail(at.todo)) : Tail(at.todo)[i] = at.todo[i + 1]
  BY <1>1, <1>5, HeadTailProperties
<1>7. Len(at.todo) >= 1 /\ Len(at.todo) \in Nat
  BY <1>1, <1>5, EmptySeq, LenProperties
<1>8. d + 1 \in 0..Len(said) /\ first = said[d + 1]
  BY <1>4, <1>5, <1>6, <1>7
<1>9. Ahead(Tail(at.todo), said, d + 1)
  <2>1. \A i \in 1..Len(Tail(at.todo)) : i + 1 \in 1..Len(at.todo) /\ d + (i + 1) = (d + 1) + i
    BY <1>6, <1>7
  <2> QED
    BY <1>4, <1>5, <1>6, <1>7, <2>1 DEF Ahead
<1>10. \A n \in SettingNames :
         s_datas'[n] = IF n = name /\ s_datas[n] # NoVar /\ Takes(s_datas[n].type, first.node)
                       THEN VarOf(s_datas[n].type, Cast(s_datas[n].type, first.node)) ELSE s_datas[n]
  <2>1. CASE name \in SettingNames
    BY <1>1, <2>1, AssignedIs DEF RegInv
  <2>2. CASE name \notin SettingNames
    BY <1>1, <2>2
  <2> QED
    BY <2>1, <2>2
<1>11. new.todo = Tail(at.todo) /\ new.file = at.file /\ new.before = at.before /\ new.met = at.met
  BY DEF LoaderAt
<1> HIDE DEF new, first, name
<1>12. ASSUME NEW n \in SettingNames \ at.met
       PROVE  HasLast(at.before[n], said, n, d + 1, s_datas'[n])
  <2>1. HasLast(at.before[n], said, n, d, s_datas[n]) /\ TypedVar(n, at.before[n])
    BY <1>3 DEF LoadedTo
  <2>2. at.before[n] # NoVar => s_datas[n] # NoVar
    <3>1. SUFFICES ASSUME at.before[n] # NoVar PROVE s_datas[n] # NoVar
      OBVIOUS
    <3>2. at.before[n].type \in Types
      BY <2>1, <3>1 DEF TypedVar, Types
    <3>3. CASE s_datas[n] = at.before[n]
      BY <3>1, <3>3
    <3>4. ASSUME NEW i \in 1..d, s_datas[n] = VarOf(at.before[n].type, Cast(at.before[n].type, said[i].node))
          PROVE  s_datas[n] # NoVar
      <4>1. said[i] \in Listed
        BY <1>4, <3>4, ElementOfSeq
      <4> QED
        BY <3>2, <3>4, <4>1, RegistryAssumption
    <3> QED
      BY <2>1, <3>1, <3>3, <3>4 DEF HasLast, GivenIn
  <2>3. d \in Nat
    OBVIOUS
  <2>4. (n = name) <=> NameOf(said[d + 1].name) = n
    BY <1>8 DEF name
  <2>5. s_datas'[n] = IF n = name /\ s_datas[n] # NoVar /\ Takes(s_datas[n].type, said[d + 1].node)
                       THEN VarOf(s_datas[n].type, Cast(s_datas[n].type, said[d + 1].node)) ELSE s_datas[n]
    BY <1>8, <1>10
  <2> QED
    BY <2>1, <2>2, <2>3, <2>4, <2>5, OneMoreMember
<1>13. LoaderSound(new, s_datas')
  <2>1. LoadedTo(new, s_datas', d + 1)
    BY <1>3, <1>9, <1>11, <1>12 DEF LoadedTo
  <2> QED
    BY <1>2, <1>8, <1>11, <2>1 DEF LoaderSound
<1>14. ASSUME NEW u \in Loaders PROVE LoaderSound(loader'[u], s_datas')
  <2>1. CASE u = t
    BY <1>1, <1>13, <2>1
  <2>2. CASE u # t /\ name \in SettingNames
    <3>1. \A n \in SettingNames : n # name => s_datas'[n] = s_datas[n]
      BY <1>10
    <3>2. loader'[u] = MeetsIn(loader[u], name) /\ LoaderSound(loader[u], s_datas)
      BY <1>1, <2>2 DEF RegInv
    <3> QED
      BY <2>2, <3>1, <3>2, MeetsKeeps
  <2>3. CASE u # t /\ name \notin SettingNames
    BY <1>1, <2>3 DEF RegInv
  <2> QED
    BY <2>1, <2>2, <2>3
<1>15. ASSUME NEW n \in SettingNames PROVE TypedVar(n, s_datas'[n])
  <2>1. TypedVar(n, s_datas[n])
    BY DEF RegInv
  <2>2. CASE s_datas'[n] = s_datas[n]
    BY <2>1, <2>2
  <2>3. CASE s_datas[n] # NoVar /\ s_datas'[n] = VarOf(s_datas[n].type, Cast(s_datas[n].type, first.node))
    BY <2>1, <2>3 DEF TypedVar, VarOf
  <2> QED
    BY <1>10, <2>2, <2>3
<1>16. DOMAIN s_datas' = SettingNames /\ DOMAIN loader' = Loaders
  BY <1>1 DEF RegInv, Assigned
<1> QED
  BY <1>14, <1>15, <1>16 DEF RegInv

(* A file that has been loaded holds, for any number of loaders and whatever is looked up or
   loaded meanwhile, but for the settings these met (Config::LoadFromYaml). *)
THEOREM FilesApplied == RegistrySpec => []FileApplied
<1>1. RegInv /\ [RegistryNext]_registryVars => RegInv'
  <2> SUFFICES ASSUME RegInv, [RegistryNext]_registryVars PROVE RegInv'
    OBVIOUS
  <2>1. ASSUME NEW n \in SettingNames, NEW type \in TypesOf(n), Lookup(n, type) PROVE RegInv'
    BY <2>1, LookupKeeps
  <2>2. ASSUME NEW t \in Loaders, LoadKey(t) PROVE RegInv'
    BY <2>2, LoadKeyKeeps
  <2>3. ASSUME NEW t \in Loaders, NEW f \in YamlFiles, LoadFromYaml(t, f) PROVE RegInv'
    BY <2>3, LoadKeeps
  <2>4. CASE UNCHANGED registryVars
    BY <2>4 DEF registryVars, RegInv
  <2> QED
    BY <2>1, <2>2, <2>3, <2>4 DEF RegistryNext
<1> QED
  BY <1>1, RegInvInit, RegInvApplied, PTL DEF RegistrySpec

(* What the configuration says is what runs: the loggers and the registry do not share a state. *)
THEOREM ConfigurationCorrect == ConfigurationSpec => []ConfigurationRuns
BY LogsCorrect, FilesApplied, PTL DEF ConfigurationSpec, ConfigurationRuns
=============================================================================
