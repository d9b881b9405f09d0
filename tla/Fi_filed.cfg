SPECIFICATION Spec
CONSTANTS
  Mails = {m1, m2}
  Executors = {x1, x2}
  DayOf <- OneDay
  FolderOf <- OwnFolders
  Attachments <- ParsedAttachments
  Names <- AllNames
  Inbox <- AllMessages
  MessageOf <- Message
  SanitizeFilename <- SanitizedName
  Root = Root
  None = None
  Faults = {"crash", "redis_error", "trashed"}
  MaxFaults = 2
  m1 = m1
  m2 = m2
SYMMETRY Workers
INVARIANTS TypeOK CacheSound ParentSound Filed NoTwinFiles WalkIsRight AttachmentsArchived
PROPERTIES TrashForgotten ArchiveKept
CHECK_DEADLOCK FALSE
