SPECIFICATION Spec
CONSTANTS
  Charset <- MCCharset
  FieldChars <- MCFieldChars
  Others <- MCOthers
  Issued <- MCIssued
  Recent <- MCRecent
  MaxRequests = 2
INVARIANTS ScreenTypeOK FieldIsBuffer SpellingsAreOne AskedIsShown
