-------------------------- MODULE MCDownloadWorker --------------------------
\* Instance of DownloadWorker for TLC: one place among the defaults, so that
\* two calls meet at one worker, and a second worker to take its place.
EXTENDS DownloadWorker
=============================================================================
