------------------------------- MODULE Media --------------------------------
(***************************************************************************)
(* Processes that download and upload, one command at a time each.         *)
(***************************************************************************)
EXTENDS Download, Upload

mvars == <<dvars, uvars>>

MInit == DInit /\ UInit

\* One command of either kind; a process runs one at a time.
Command(q) ==
    /\ dl[q].pc = "idle" /\ commands + ids < MaxCommands
    /\ q \in Uploaders => up[q].pc = "idle"
    /\ \/ /\ \E m \in Media, out \in Paths : cmd_download(q, m, out)
          /\ UNCHANGED uvars
       \/ /\ q \in Uploaders
          /\ \E size \in Sizes, kind \in {"document", "photo"} :
               upload_chunk_phase(q, size, kind)
          /\ UNCHANGED dvars

MNext ==
    \/ \E q \in Procs : \/ Command(q)
                        \/ (DStep(q) \/ DownloadFails(q) \/ DKill(q))
                           /\ UNCHANGED uvars
    \/ \E q \in Uploaders : (UStep(q) \/ Shrink(q)) /\ UNCHANGED dvars
    \/ Removes /\ UNCHANGED uvars

MSpec == /\ MInit /\ [][MNext]_mvars
         /\ \A q \in Procs : WF_mvars(DStep(q) /\ UNCHANGED uvars)
         /\ \A q \in Uploaders : WF_mvars(UStep(q) /\ UNCHANGED dvars)
=============================================================================
