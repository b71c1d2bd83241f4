------------------------- MODULE MCHistoryDownloads -------------------------
(* A small instance of HistoryDownloads for TLC. *)
EXTENDS HistoryDownloads, TLC

DownloadSymmetry == Permutations(User) \cup Permutations(Sweep)
=============================================================================
