--------------------------- MODULE MCDailyWindow ---------------------------
(* DailyWindow with slots of four hours: every zone, and one west of UTC.   *)
EXTENDS DailyWindow

West == {-1}
AllZones == -3 .. 3
=============================================================================
