----------------------------- MODULE MCDownloader -----------------------------
(* Small instances of the downloader for TLC. *)
EXTENDS DownloaderProperties

CONSTANTS d1, d2

MCDownloaders == {d1, d2}
MCCompressed  == {d2}
===============================================================================
