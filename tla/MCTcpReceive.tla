---------------------------- MODULE MCTcpReceive ----------------------------
(* TcpReceive for TLC. *)
EXTENDS TcpReceive

\* What a call leaves behind when it returns is read by nobody; once the end of a
\* frame is lost, neither is what was returned before.
View == <<stream, pc, rd, lost,
          IF pc = "idle" THEN <<>> ELSE <<total, max, tries>>,
          IF lost THEN <<>> ELSE <<start, ret, out>>>>
=============================================================================
