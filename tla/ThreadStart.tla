----------------------------- MODULE ThreadStart ----------------------------
(***************************************************************************)
(* A Thread object of src/mumu/thread.cc and the thread it starts: the     *)
(* handshake of the constructor and run over m_semaphore, join, the        *)
(* destructor that detaches, and SetName and GetThis inside the thread,    *)
(* which go by t_thread.                                                   *)
(***************************************************************************)
EXTENDS Integers

CONSTANTS ThreadObjects, ThreadNames, MaxRenames

VARIABLES
  owner,     \* of each object: where the thread that owns it is
  runner,    \* and where the thread it started is
  fields,    \* m_id is set, m_cb is still there, m_name, m_thread
  m_count,   \* of m_semaphore
  t_name,    \* t_thread_name of the started thread
  touched,   \* objects the started thread has used after they were gone
  renames
threadVars == <<owner, runner, fields, m_count, t_name, touched, renames>>

ThreadInit ==
  /\ owner = [o \in ThreadObjects |-> "none"] /\ runner = [o \in ThreadObjects |-> "none"]
  /\ fields = [o \in ThreadObjects |-> [id |-> FALSE, cb |-> FALSE, name |-> "none", thread |-> FALSE]]
  /\ m_count = [o \in ThreadObjects |-> 0] /\ t_name = [o \in ThreadObjects |-> "UNKNOW"]
  /\ touched = {} /\ renames = 0

(* The constructor: pthread_create, which may fail and make it throw, then wait. *)
Construct(o, name) ==
  /\ owner[o] = "none"
  /\ \/ /\ owner' = [owner EXCEPT ![o] = "waiting"] /\ runner' = [runner EXCEPT ![o] = "started"]
        /\ fields' = [fields EXCEPT ![o] = [id |-> FALSE, cb |-> TRUE, name |-> name, thread |-> TRUE]]
     \/ owner' = [owner EXCEPT ![o] = "thrown"] /\ UNCHANGED <<runner, fields>>
  /\ UNCHANGED <<m_count, t_name, touched, renames>>
Constructed(o) ==
  /\ owner[o] = "waiting" /\ m_count[o] > 0
  /\ owner' = [owner EXCEPT ![o] = "owns"] /\ m_count' = [m_count EXCEPT ![o] = @ - 1]
  /\ UNCHANGED <<runner, fields, t_name, touched, renames>>

(* run: name and id, the callback out of the object, the notification, the callback. *)
Announce(o) ==
  /\ runner[o] = "started" /\ runner' = [runner EXCEPT ![o] = "named"]
  /\ t_name' = [t_name EXCEPT ![o] = fields[o].name]
  /\ fields' = [fields EXCEPT ![o].id = TRUE]
  /\ UNCHANGED <<owner, m_count, touched, renames>>
TakeCallback(o) ==
  /\ runner[o] = "named" /\ runner' = [runner EXCEPT ![o] = "took"]
  /\ fields' = [fields EXCEPT ![o].cb = FALSE]
  /\ UNCHANGED <<owner, m_count, t_name, touched, renames>>
NotifyOwner(o) ==
  /\ runner[o] = "took" /\ runner' = [runner EXCEPT ![o] = "calls"]
  /\ m_count' = [m_count EXCEPT ![o] = @ + 1]
  /\ UNCHANGED <<owner, fields, t_name, touched, renames>>
Return(o) ==
  /\ runner[o] = "calls" /\ runner' = [runner EXCEPT ![o] = "ended"]
  /\ UNCHANGED <<owner, fields, m_count, t_name, touched, renames>>

(* SetName in the callback writes m_name too, of the object t_thread points at. *)
SetName(o, name) ==
  /\ runner[o] = "calls" /\ renames < MaxRenames /\ renames' = renames + 1
  /\ t_name' = [t_name EXCEPT ![o] = name]
  /\ IF owner[o] = "gone" THEN touched' = touched \cup {o} /\ UNCHANGED fields
     ELSE fields' = [fields EXCEPT ![o].name = name] /\ UNCHANGED touched
  /\ UNCHANGED <<owner, runner, m_count>>

(* join, of a thread not joined before; the destructor detaches what was not joined. *)
Join(o) ==
  /\ owner[o] = "owns" /\ fields[o].thread /\ runner[o] = "ended"
  /\ fields' = [fields EXCEPT ![o].thread = FALSE]
  /\ UNCHANGED <<owner, runner, m_count, t_name, touched, renames>>
DestroyThread(o) ==
  /\ owner[o] = "owns" /\ owner' = [owner EXCEPT ![o] = "gone"]
  /\ UNCHANGED <<runner, fields, m_count, t_name, touched, renames>>

ThreadNext ==
  \E o \in ThreadObjects :
    \/ \E name \in ThreadNames : Construct(o, name) \/ SetName(o, name)
    \/ Constructed(o) \/ Announce(o) \/ TakeCallback(o) \/ NotifyOwner(o) \/ Return(o)
    \/ Join(o) \/ DestroyThread(o)

ThreadSpec == ThreadInit /\ [][ThreadNext]_threadVars

-----------------------------------------------------------------------------
ThreadTypeOK ==
  /\ owner \in [ThreadObjects -> {"none", "thrown", "waiting", "owns", "gone"}]
  /\ runner \in [ThreadObjects -> {"none", "started", "named", "took", "calls", "ended"}]
  /\ \A o \in ThreadObjects : fields[o].name \in ThreadNames \cup {"none"} /\ m_count[o] \in 0..1
  /\ touched \subseteq ThreadObjects /\ renames \in 0..MaxRenames

(* Once the constructor has returned, getId gives the thread's id, the callback is no longer the
   object's, and the object may go while the thread runs: nothing of run reaches for it any
   more.  The exception is SetName in a thread whose object was destroyed and not joined: it
   writes through t_thread (thread.cc:25).  While the object is there the two names agree. *)
ThreadsKept ==
  \A o \in ThreadObjects :
    /\ owner[o] \in {"owns", "gone"} =>
         runner[o] \in {"calls", "ended"} /\ fields[o].id /\ ~fields[o].cb /\ m_count[o] = 0
    /\ owner[o] = "owns" => t_name[o] = fields[o].name
    /\ o \in touched => owner[o] = "gone" /\ fields[o].thread
=============================================================================
