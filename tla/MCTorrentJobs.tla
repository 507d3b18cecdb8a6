--------------------------- MODULE MCTorrentJobs ----------------------------
(* A mirror and a leech of two torrents: one of two files, one of none.     *)
EXTENDS TorrentJobs

CONSTANTS big, hollow, j1, j2

MCKind == [j \in Job |-> IF j = j1 THEN "mirror" ELSE "leech"]

MCFiles == [t \in Torrent |-> IF t = big THEN 2 ELSE 0]
=============================================================================
