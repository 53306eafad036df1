------------------------------ MODULE MCServer ------------------------------
(***************************************************************************)
(* Instances of HttpServer, chosen by `part` in the initial state: the     *)
(* accepting side alone, the sessions alone, and both together with one    *)
(* socket and one connection (the other connection has been served, by a   *)
(* socket that is closed).  A restart ends a behaviour, since TcpServer's  *)
(* properties say nothing of what comes after one.                         *)
(***************************************************************************)
EXTENDS HttpServer

CONSTANTS Served, OldListener
VARIABLE part
mcVars == <<part, tcpVars, sessionVars>>

Get == [tokens |-> <<"method", "path", "query", "version">>, method |-> "GET", version |-> "1.1",
        length |-> 0, body |-> 0]
Post == [tokens |-> <<"method", "path", "version", "name", "value">>, method |-> "POST",
         version |-> "1.1", length |-> 2, body |-> 2]
MCRequests == {Get, Post}
MCTailOf == [m \in Methods |-> "invalid"]

(* Both together: what is left of an earlier run. *)
WholeInit ==
  /\ m_isStop = TRUE /\ m_socks = {} /\ fiber = [f \in Fibers |-> "none"]
  /\ sock = [s \in Listeners |-> IF s = OldListener THEN "closed" ELSE "unmade"]
  /\ client = [c \in Clients |-> IF c = Served THEN <<"accepted", OldListener>> ELSE Away]
  /\ closers = 0 /\ closer = Resting
  /\ starts = 0 /\ orphans = {} /\ restarted = FALSE /\ late = {}
  /\ session = [c \in Conns |-> IF c = Served THEN [Fresh EXCEPT !.pc = "closed"] ELSE Fresh]
  /\ ioQueue = <<>> /\ arrived = [c \in Conns |-> 0] /\ finished = {Served}
  /\ request = [c \in Conns |-> Get]

MCInit ==
  \/ part = "accepting" /\ ServerInit /\ request = [c \in Conns |-> Get]
  \/ part = "sessions" /\ ServerInit
  \/ part = "whole" /\ WholeInit

MCNext ==
  /\ ~restarted /\ UNCHANGED part
  /\ \/ /\ part = "accepting" /\ UNCHANGED sessionVars
        /\ TcpStep \/ \E f \in Fibers, c \in Clients : Accept(f, c)
     \/ /\ part = "sessions" /\ UNCHANGED tcpVars
        /\ SessionNext \/ \E c \in Conns : Arrive(c)
     \/ part = "whole" /\ ServerNext

MCSpec == MCInit /\ [][MCNext]_mcVars /\ TcpFairness /\ SessionFairness
=============================================================================
