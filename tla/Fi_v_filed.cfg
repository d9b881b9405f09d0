SPECIFICATION Spec
CONSTANTS
  Mails = {m1, m2}
  Executors = {x1, x2}
  DayOf <- OneDay
  FolderOf <- OneFolder
  Attachments <- ParsedAttachments
  Names <- AllNames
  Inbox <- AllMessages
  MessageOf <- Message
  SanitizeFilename <- SanitizedName
  Root = Root
  None = None
  Faults = {}
  MaxFaults = 0
  m1 = m1
  m2 = m2
INVARIANT Filed
CHECK_DEADLOCK FALSE
