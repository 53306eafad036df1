----------------------------- MODULE HttpServer -----------------------------
(***************************************************************************)
(* HttpServer of src/mumu/http/http_server.cc on its TcpServer: an         *)
(* accepted connection becomes a fiber of m_ioWorker that runs             *)
(* handleClient.                                                           *)
(***************************************************************************)
EXTENDS TcpServer, HttpSession

ASSUME ServerAssumption == Clients = Conns

ServerInit == TcpInit /\ SessionInit

(* startAccept schedules handleClient for what it accepts. *)
AcceptConnection(f, c) == Accept(f, c) /\ Arrive(c)

ServerNext ==
  \/ \E f \in Fibers, c \in Clients : AcceptConnection(f, c)
  \/ TcpStep /\ UNCHANGED sessionVars
  \/ SessionNext /\ UNCHANGED tcpVars

ServerSpec ==
  ServerInit /\ [][ServerNext]_<<tcpVars, sessionVars>> /\ TcpFairness /\ SessionFairness
=============================================================================
