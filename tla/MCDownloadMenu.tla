--------------------------- MODULE MCDownloadMenu ---------------------------
EXTENDS DownloadMenu

CONSTANTS Full, PackOnly    \* a mission with its pack; a pack alone

TwoUrls == [k \in {"mission", "pack", "request"} |-> IF k = "mission" THEN 2 ELSE 1]
=============================================================================
