--------------------------- MODULE MCDownloader -----------------------------
(* The open file, its reads and its download thread.                       *)
EXTENDS Downloader
=============================================================================
