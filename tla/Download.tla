------------------------------ MODULE Download ------------------------------
(***************************************************************************)
(* cFileDownloader::DownloadFile (Network/SharedFileDownload.cpp) with     *)
(* RemoveFile (Utils/SharedFile.cpp): two or more downloaders, each on a   *)
(* thread of its own, that may save to the same path.                      *)
(*                                                                         *)
(* The file is who wrote it and how many chunks it has.  WinINet, and the  *)
(* file system, which lets only one writer open the file, are external.    *)
(***************************************************************************)
EXTENDS Integers

CONSTANTS Loaders,
          Chunks,   \* how many chunks the servers have
          Nobody

ASSUME DownloadAssumption == Chunks \in Nat /\ Nobody \notin Loaders

VARIABLES
    file,     \* the file at the path: who wrote it, how much; Nobody: no file
    holder,   \* who has it open, with no sharing
    load,     \* per loader: where it is, _isProcesss, _ulDownLoadSize, bDone
    claim,    \* history: whose last DownloadFile returned true, and nobody has
              \* opened the file for writing since
    robbed,   \* history: its file was removed by another loader since then
    kept      \* history: the file should have been removed and could not be

downloadVars == <<file, holder, load, claim, robbed, kept>>

DownloadTypeOK ==
    /\ file \in [by : Loaders \cup {Nobody}, size : 0 .. Chunks, cut : BOOLEAN]
    /\ holder \in Loaders \cup {Nobody}
    /\ load \in [Loaders -> [pc : {"idle", "open", "loop", "count", "close",
                                   "remove"},
                             process : BOOLEAN, size : 0 .. Chunks,
                             done : BOOLEAN]]
    /\ claim \in Loaders \cup {Nobody}
    /\ robbed \in BOOLEAN /\ kept \in BOOLEAN

NoFile == [by |-> Nobody, size |-> 0, cut |-> FALSE]

DownloadInit ==
    /\ file = NoFile /\ holder = Nobody
    /\ load = [d \in Loaders |->
                 [pc |-> "idle", process |-> FALSE, size |-> 0, done |-> FALSE]]
    /\ claim = Nobody /\ robbed = FALSE /\ kept = FALSE

----------------------------------------------------------------------------
Goto(d, pc) == load' = [load EXCEPT ![d].pc = pc]

\* Up to CreateFile: no connection, no directory, no answer or a bad status end
\* the call.
Start(d) ==
    /\ load[d].pc = "idle"
    /\ \E pc \in {"idle", "open"} :
         load' = [load EXCEPT ![d].pc = pc, ![d].size = 0]
    /\ UNCHANGED <<file, holder, claim, robbed, kept>>

\* CreateFile makes the file anew, or fails while another has it open.
Open(d) ==
    /\ load[d].pc = "open"
    /\ IF holder = Nobody
       THEN /\ holder' = d /\ claim' = Nobody
            /\ file' = [by |-> d, size |-> 0, cut |-> FALSE]
            /\ load' = [load EXCEPT ![d].pc = "loop", ![d].done = TRUE]
            /\ robbed' = FALSE /\ kept' = FALSE
       ELSE Goto(d, "idle") /\ UNCHANGED <<file, holder, claim, robbed, kept>>

\* A turn of the loop that fails: no data available, no read, no write.
TurnFails(d) ==
    /\ load[d].pc = "loop"
    /\ load' = [load EXCEPT ![d].pc = "close", ![d].process = TRUE,
                            ![d].done = FALSE]
    /\ UNCHANGED <<file, holder, claim, robbed, kept>>

\* A turn that reads a chunk and writes it, before it is counted.
WriteChunk(d) ==
    /\ load[d].pc = "loop" /\ file.size < Chunks
    /\ file' = [file EXCEPT !.size = @ + 1]
    /\ load' = [load EXCEPT ![d].pc = "count", ![d].process = TRUE]
    /\ UNCHANGED <<holder, claim, robbed, kept>>

Count(d) ==
    /\ load[d].pc = "count"
    /\ load' = [load EXCEPT ![d].pc = "loop", ![d].size = @ + 1]
    /\ UNCHANGED <<file, holder, claim, robbed, kept>>

\* A read of no bytes ends the loop: the data is complete, or the server ended
\* the connection, which nothing tells apart.
TurnEnds(d) ==
    /\ load[d].pc = "loop"
    /\ load' = [load EXCEPT ![d].pc = "close", ![d].process = TRUE]
    /\ file' = [file EXCEPT !.cut = file.size < Chunks]
    /\ UNCHANGED <<holder, claim, robbed, kept>>

CloseFile(d) ==
    /\ load[d].pc = "close"
    /\ holder' = Nobody
    /\ load' = [load EXCEPT ![d].pc = IF load[d].done THEN "idle" ELSE "remove",
                            ![d].process = FALSE]
    /\ claim' = IF load[d].done THEN d ELSE claim
    /\ UNCHANGED <<file, robbed, kept>>

\* Mutant: a download that failed keeps its file.
MutKeepFile(d) ==
    /\ load[d].pc = "remove"
    /\ Goto(d, "idle")
    /\ UNCHANGED <<file, holder, claim, robbed, kept>>

\* RemoveFile, of whatever is at the path now.  DeleteFileW fails while a loader
\* has the file open, or for a reason of the system's; nobody looks.
RemoveFile(d) ==
    /\ load[d].pc = "remove"
    /\ Goto(d, "idle")
    /\ \/ /\ holder = Nobody
          /\ file' = NoFile
          /\ robbed' = (robbed \/ file.by \notin {d, Nobody})
          /\ kept' = FALSE
       \/ /\ kept' = (kept \/ file.by = d)
          /\ UNCHANGED <<file, robbed>>
    /\ UNCHANGED <<holder, claim>>

DownloadNext ==
    \E d \in Loaders :
      \/ Start(d) \/ Open(d) \/ TurnFails(d) \/ WriteChunk(d) \/ Count(d)
      \/ TurnEnds(d) \/ CloseFile(d) \/ RemoveFile(d)

DownloadSpec == DownloadInit /\ [][DownloadNext]_downloadVars

----------------------------------------------------------------------------
(* Properties. *)

\* Whoever got true finds at the path what its own server sent, until another
\* download begins or a failed one removes what is not its own; and when nobody
\* is at work there is no part of a download, only what a server itself cut
\* short or what the system refused to delete.  GetDownLoadSize is what the file
\* holds, or one chunk behind, as long as it reports.
DoneFileWhole ==
    /\ claim # Nobody => file.by = claim \/ robbed
    /\ holder = Nobody /\ file.by # Nobody =>
         \/ file.size = Chunks \/ file.cut \/ kept
         \/ load[file.by].pc = "remove"
    /\ \A d \in Loaders : load[d].process =>
         /\ file.by = d
         /\ \/ load[d].size = file.size
            \/ load[d].pc = "count" /\ load[d].size + 1 = file.size
=============================================================================
