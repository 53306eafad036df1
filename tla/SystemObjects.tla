---------------------------- MODULE SystemObjects ---------------------------
(***************************************************************************)
(* What the library has of the system: objects that stand for something of *)
(* it, Socket for a descriptor and Thread for a thread, and the data that  *)
(* FSUtil, the transfers with a speed and the appender of log files give   *)
(* to it.  They share no state.                                            *)
(***************************************************************************)
EXTENDS SocketObject, ThreadStart, FileTree, StreamTransfer, FileAppender

ObjectsSpec == SockSpec /\ ThreadSpec
StoredSpec == FsSpec /\ TransferSpec /\ AppenderSpec

(* What an object says of the thing it stands for is true: a Socket of its descriptor, a Thread
   of its thread, and neither reaches for what is no longer its own (socket.cc, thread.cc). *)
ObjectsKept == SocketsKept /\ ThreadsKept

(* Data given to the file system is there, but for the named exceptions: paths are made, moved
   and removed as asked, a transfer returns what happened to it and keeps its speed, and a line
   that is logged is in the file (FSUtil, WriteFixToStreamWithSpeed, FileLogAppender). *)
DataKept == FilesKept /\ TransfersHonest /\ LinesKept
=============================================================================
