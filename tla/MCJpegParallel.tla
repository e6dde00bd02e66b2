--------------------------- MODULE MCJpegParallel ---------------------------
(***************************************************************************)
(* Small instances of JpegParallel for TLC.                                *)
(***************************************************************************)
EXTENDS JpegParallel

\* Files that may split the first scan, or end before every bit is sent.
OddFiles == {"split first scan", "unfinished"}

\* Files that send every bit and start with a scan of all components, but may
\* define the table of a channel anew after its last scan, for another channel
\* whose scans are still to come.
LateTables == {"late table"}

UnfinishedFiles == {"unfinished"}

=============================================================================
