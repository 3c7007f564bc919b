SPECIFICATION PartSpec
CONSTANTS
  r1 = r1
  s1 = s1
  s2 = s2
  s3 = s3
  pr1 = pr1
  NoRun = NoRun
  Run = {r1}
  PrOf <- OnePr
  SeatOf <- Fixes
  Sender = {s1, s2, s3}
  MayCrash = TRUE
  MaxCopies = 2
SYMMETRY Symmetry
INVARIANT NeverReplayed
INVARIANT NoticeAfterComment
