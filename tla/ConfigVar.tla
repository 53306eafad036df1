----------------------------- MODULE ConfigVar ------------------------------
(***************************************************************************)
(* One ConfigVar of src/mumu/config.h with the listeners that mirror it,   *)
(* as s_connect_timeout of hook.cc does: read the value, then add a        *)
(* listener that stores the new one.  setValue compares and calls the      *)
(* listeners under the read lock, lets it go, and assigns under the write  *)
(* lock.  fromString is setValue with the exceptions of listeners caught.  *)
(***************************************************************************)
EXTENDS Integers

CONSTANTS
  Setters,     \* threads that call setValue or fromString
  Listeners,   \* numbered in the order of their keys
  Throwers,    \* listeners that may throw
  ConfigValues,
  MaxSets      \* bound: calls of setValue in all

ASSUME ConfigVarAssumption == Listeners \subseteq Nat /\ Throwers \subseteq Listeners /\ MaxSets \in Nat

VARIABLES
  m_val,
  m_cbs,     \* listeners that were added
  mirror,    \* of each listener: the value its owner goes by
  joining,   \* listeners whose owner has read the value and not added them yet
  setter,    \* of each setter: where it is, the value, whom it has still to tell
  sets,
  owed       \* history: listeners that a named race may have left with another value

cvVars == <<m_val, m_cbs, mirror, joining, setter, sets, owed>>

AtRest == [pc |-> "out", v |-> 0, tell |-> {}, alone |-> TRUE]
Setting == {t \in Setters : setter[t].pc # "out"}
Others(t) == Setting \ {t}
WriteLockFree == \A u \in Setters : setter[u].pc # "notify"

CvInit ==
  /\ m_val \in ConfigValues /\ m_cbs = {} /\ joining = {}
  /\ mirror = [l \in Listeners |-> m_val]
  /\ setter = [t \in Setters |-> AtRest] /\ sets = 0 /\ owed = {}

(* setValue under the read lock: nothing to do, or the listeners of now. *)
SetValue(t, v) ==
  /\ setter[t].pc = "out" /\ sets < MaxSets /\ sets' = sets + 1
  /\ v # m_val
  /\ setter' = [u \in Setters |->
       IF u = t THEN [pc |-> "notify", v |-> v, tell |-> m_cbs, alone |-> Others(t) = {}]
       ELSE [setter[u] EXCEPT !.alone = @ /\ u \notin Others(t)]]
  /\ owed' = IF Others(t) = {} THEN owed ELSE Listeners
  /\ UNCHANGED <<m_val, m_cbs, mirror, joining>>

(* One listener, in the order of the map; it may throw, and fromString gives up. *)
Notify(t) ==
  \E l \in setter[t].tell :
    /\ setter[t].pc = "notify" /\ \A k \in setter[t].tell : l <= k
    /\ \/ /\ mirror' = [mirror EXCEPT ![l] = setter[t].v]
          /\ setter' = [setter EXCEPT ![t].tell = @ \ {l}]
          /\ UNCHANGED owed
       \/ /\ l \in Throwers
          /\ setter' = [setter EXCEPT ![t] = AtRest]
          /\ owed' = owed \cup (m_cbs \ setter[t].tell)
          /\ UNCHANGED mirror
    /\ UNCHANGED <<m_val, m_cbs, joining, sets>>

ReleaseReadEarly(t) ==        \* mutant: the first listener only
  /\ setter[t].pc = "notify" /\ setter[t].tell # m_cbs
  /\ setter' = [setter EXCEPT ![t].pc = "assign"]
  /\ UNCHANGED <<m_val, m_cbs, mirror, joining, sets, owed>>
ReleaseRead(t) ==
  /\ setter[t].pc = "notify" /\ setter[t].tell = {}
  /\ setter' = [setter EXCEPT ![t].pc = "assign"]
  /\ UNCHANGED <<m_val, m_cbs, mirror, joining, sets, owed>>

(* The write lock.  A set that met no other one, and told everybody, makes up for
   what earlier races left behind. *)
Assign(t) ==
  /\ setter[t].pc = "assign" /\ WriteLockFree
  /\ m_val' = setter[t].v
  /\ setter' = [setter EXCEPT ![t] = AtRest]
  /\ owed' = (IF setter[t].alone THEN owed \ m_cbs ELSE owed) \cup joining
  /\ UNCHANGED <<m_cbs, mirror, joining, sets>>

(* getValue and addListener of a mirror's owner; delListener. *)
GetValue(l) ==
  /\ l \notin m_cbs \cup joining
  /\ mirror' = [mirror EXCEPT ![l] = m_val] /\ joining' = joining \cup {l}
  /\ owed' = owed \ {l}
  /\ UNCHANGED <<m_val, m_cbs, setter, sets>>

AddListener(l) ==
  /\ l \in joining /\ WriteLockFree
  /\ m_cbs' = m_cbs \cup {l} /\ joining' = joining \ {l}
  \* who has notified already will not tell this one
  /\ owed' = IF Setting # {} THEN owed \cup {l} ELSE owed
  /\ setter' = [t \in Setters |-> [setter[t] EXCEPT !.alone = @ /\ setter[t].pc = "out"]]
  /\ UNCHANGED <<m_val, mirror, sets>>

DelListener(l) ==
  /\ l \in m_cbs /\ WriteLockFree
  /\ m_cbs' = m_cbs \ {l} /\ owed' = owed \ {l}
  /\ UNCHANGED <<m_val, mirror, joining, setter, sets>>

CvNext ==
  \/ \E t \in Setters : \/ \E v \in ConfigValues : SetValue(t, v)
                        \/ Notify(t) \/ ReleaseRead(t) \/ Assign(t)
  \/ \E l \in Listeners : GetValue(l) \/ AddListener(l) \/ DelListener(l)

CvSpec == CvInit /\ [][CvNext]_cvVars

-----------------------------------------------------------------------------
(* Types. *)
CvTypeOK ==
  /\ m_val \in ConfigValues /\ mirror \in [Listeners -> ConfigValues]
  /\ m_cbs \subseteq Listeners /\ joining \subseteq Listeners /\ owed \subseteq Listeners
  /\ setter \in [Setters -> [pc : {"out", "notify", "assign"}, v : ConfigValues \cup {0},
                             tell : SUBSET Listeners, alone : BOOLEAN]]
  /\ sets \in 0..MaxSets

(* Whoever mirrors the value by a listener goes by m_val, or by the value that a set
   under way is about to give it.  owed names the exceptions: two sets that overlap
   (the listeners hear of both in one order, m_val may get them in the other,
   config.h:451-462), a listener that threw after others were told, and an owner
   that read the value or joined while a set was under way. *)
MirrorAgrees(l) ==
  \/ mirror[l] = m_val
  \/ \E t \in Setters : setter[t].pc # "out" /\ mirror[l] = setter[t].v

(* A listener is told a change from the value it has to another one: it may go by
   the old value it is given, as the one of the logs does (log.cc:845-849). *)
ToldFromItsOwn ==
  [][\A l \in m_cbs \ (owed \cup owed') : mirror'[l] # mirror[l] => mirror[l] = m_val]_cvVars

(* Listeners follow the value, step by step and in the end. *)
ListenersFollow ==
  /\ [](\A l \in m_cbs \ owed : MirrorAgrees(l))
  /\ ToldFromItsOwn
=============================================================================
