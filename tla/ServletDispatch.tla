-------------------------- MODULE ServletDispatch ---------------------------
(***************************************************************************)
(* The routes of an HTTP server, src/mumu/http/servlet.cc: exact paths in  *)
(* a map, glob patterns in a list, a default.  Every operation holds the   *)
(* lock from end to end.  `told` is what the callers have asked for.       *)
(***************************************************************************)
EXTENDS Integers, Sequences, SequencesExt

CONSTANTS
  Paths,       \* what requests ask for; a path may be registered
  Globs,       \* patterns of the list
  Matches(_, _), \* fnmatch(pattern, path)
  Servlets,    \* numbered
  MaxGlobs     \* bound: the length of the list

ASSUME ServletAssumption == Servlets \subseteq Nat \ {0} /\ MaxGlobs \in Nat

VARIABLES
  m_exact,     \* m_datas, of each path: its servlet, 0 for none
  m_globs,     \* <<pattern, servlet>> in the order of the list
  told,        \* history, of each pattern: the servlet last added and not deleted, 0 for none
  astray       \* history: patterns that addGlobServletCreator took out or put in twice

dispatchVars == <<m_exact, m_globs, told, astray>>

DispatchInit ==
  /\ m_exact = [p \in Paths |-> 0] /\ m_globs = <<>>
  /\ told = [g \in Globs |-> 0] /\ astray = {}

EntriesOf(g) == {i \in DOMAIN m_globs : m_globs[i][1] = g}
FirstOf(set) == CHOOSE i \in set : \A j \in set : i <= j
WithoutNone(g) == m_globs          \* mutant: nothing is erased
WithoutFirst(g) == IF EntriesOf(g) = {} THEN m_globs ELSE RemoveAt(m_globs, FirstOf(EntriesOf(g)))

(* addServlet and addServletCreator; delServlet for 0. *)
SetServlet(p, s) == m_exact' = [m_exact EXCEPT ![p] = s] /\ UNCHANGED <<m_globs, told, astray>>

AddGlobServlet(g, s) ==
  /\ Len(WithoutFirst(g)) < MaxGlobs
  /\ m_globs' = Append(WithoutFirst(g), <<g, s>>)
  /\ told' = [told EXCEPT ![g] = s]
  /\ UNCHANGED <<m_exact, astray>>

(* The loop erases whatever it meets first and leaves (servlet.cc:125-129). *)
AddGlobServletCreator(g, s) ==
  LET rest == IF m_globs = <<>> THEN <<>> ELSE Tail(m_globs)
      out  == IF m_globs = <<>> THEN {} ELSE {m_globs[1][1]} \ {g}
      twice == {h \in {g} : \E i \in DOMAIN rest : rest[i][1] = h}
  IN /\ Len(rest) < MaxGlobs
     /\ m_globs' = Append(rest, <<g, s>>)
     /\ told' = [told EXCEPT ![g] = s]
     /\ astray' = astray \cup out \cup twice
     /\ UNCHANGED m_exact

DelGlobServlet(g) ==
  /\ m_globs' = WithoutFirst(g)
  /\ told' = [told EXCEPT ![g] = 0]
  /\ UNCHANGED <<m_exact, astray>>

(* getMatchedServlet: 0 stands for m_default. *)
GetMatchedServlet(p) ==
  LET hits == {i \in DOMAIN m_globs : Matches(m_globs[i][1], p)}
  IN IF m_exact[p] # 0 THEN m_exact[p]
     ELSE IF hits = {} THEN 0 ELSE m_globs[FirstOf(hits)][2]

DispatchNext ==
  \/ \E p \in Paths, s \in Servlets \cup {0} : SetServlet(p, s)
  \/ \E g \in Globs : \/ DelGlobServlet(g)
                      \/ \E s \in Servlets : AddGlobServlet(g, s) \/ AddGlobServletCreator(g, s)

DispatchSpec == DispatchInit /\ [][DispatchNext]_dispatchVars

-----------------------------------------------------------------------------
(* Types. *)
DispatchTypeOK ==
  /\ m_exact \in [Paths -> Servlets \cup {0}] /\ m_globs \in Seq(Globs \X Servlets)
  /\ told \in [Globs -> Servlets \cup {0}] /\ astray \subseteq Globs

(* A path is answered by the servlet somebody registered for it, by an exact path
   first and by a pattern otherwise, and by the default only when nobody did: never
   by one that was deleted or replaced.  astray names the exception, the patterns that
   addGlobServletCreator erased for another one or entered a second time. *)
AnswersRegistered ==
  \A p \in Paths :
    LET may == {g \in Globs : Matches(g, p)} IN
    \/ may \cap astray # {}
    \/ m_exact[p] # 0 /\ GetMatchedServlet(p) = m_exact[p]
    \/ m_exact[p] = 0 /\ GetMatchedServlet(p) \in
         (IF \A g \in may : told[g] = 0 THEN {0} ELSE {told[g] : g \in may} \ {0})
=============================================================================
