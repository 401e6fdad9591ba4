SPECIFICATION Spec
CONSTANTS
  a = a
  b = b
  matchPdf = matchPdf
  planPdf = planPdf
  longPdf = longPdf
  book = book
  Malformed = Malformed
  NoRow = NoRow
  Absent = Absent
  Blank = Blank
  Clients <- TwoClients
  Pdfs <- ThePdfs
  Sheets <- TheSheets
  Pdf <- ThePdf
  Rows <- TheRows
  MatchOf <- TheMatches
  Corrected <- Truth
  Rosters <- TheRosters
  LegacyRows <- OldRow
  AllianceSize = 2
INVARIANTS
  TypeOK
  CutRepliesAreNotMisread
  SheetsComeBackWhole
  CommitsTheConfirmedList
