---------------------------- MODULE MCArchiveCache ----------------------------
(***************************************************************************)
(* One month of two days with its monthly and daily archives; requests ask *)
(* for the month, or for one of its days.  The instance with corrections   *)
(* has a month of one day.                                                 *)
(***************************************************************************)
EXTENDS ArchiveCache

TwoDays == {1, 2}
MonthAndDays == {"m", "d1", "d2"}
MonthSpan == [m |-> {1, 2}, d1 |-> {1}, d2 |-> {2}]
OneDay == {1}
MonthOfOne == [m |-> {1}, d1 |-> {1}]
OneMonthOneDay == {"m", "d1"}
OneRange == {{1}}
TwoRanges == {{1}, {1, 2}}
=============================================================================
