---------------------------- MODULE MCSimDaemon ----------------------------
(***************************************************************************)
(* The instance of SimDaemon for TLC.  A magnet runs and behind it waits a *)
(* torrent with two files of which one is there; or two torrents wait, so  *)
(* that it matters who is served first.                                    *)
(***************************************************************************)
EXTENDS SimDaemon

CONSTANTS h1, h2, h3

Whole == [files |-> File, want |-> File]
Magnet == [files |-> {}, want |-> {}]

Two == <<Built(h1, "Download", Magnet, 0, 0),
         Built(h2, "DownloadWait", Whole, 1, 0)>>

SmallDataset == {Two, Append(Two, Built(h3, "DownloadWait", Whole, 0, 0))}
=============================================================================
