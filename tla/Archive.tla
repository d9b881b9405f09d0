------------------------------ MODULE Archive -------------------------------
(***************************************************************************)
(* The handlers and the messages they are given: what the render stage     *)
(* writes, and the upload stage files, is what the walk over the MIME tree *)
(* of the mail's message has found.                                        *)
(***************************************************************************)
EXTENDS Filing, Mime

CONSTANTS Inbox,                \* the messages that may come in
          MessageOf,            \* per mail, its message
          SanitizeFilename(_)   \* the name on disk for an attachment's name

(* The names render writes to meta.json, in the order of the walk.         *)
NamesParsed(parts) ==
  LET found == parseMessage(parts).attachments
  IN [k \in 1..Len(found) |-> SanitizeFilename(AttachName(parts[found[k]]))]

(* A message that does not parse fails every attempt at rendering it; the  *)
(* mails are those whose messages do.                                      *)
ASSUME ArchiveAssumption ==
  /\ \A parts \in Inbox : MessageOK(parts)
  /\ MessageOf \in [Mails -> Inbox]
  /\ \A m \in Mails : ~parseMessage(MessageOf[m]).failed
  /\ Attachments = [m \in Mails |-> NamesParsed(MessageOf[m])]

-----------------------------------------------------------------------------
(***************************************************************************)
(* Properties.                                                             *)
(***************************************************************************)

WalksRight == \A parts \in Inbox : WalkedRight(parts)

(* A worker that has a mail to render (render.go:45), whichever message of *)
(* the inbox it is, finds in it what the reference definition says         *)
(* (mime.go:64-145): nested multiparts, attachments that are multiparts,   *)
(* empty and broken parts in any order.                                    *)
WalkIsRight == (\E x \in Executors : xpc[x] = "attach") => WalksRight

NamesAttached(parts) ==
  {SanitizeFilename(AttachName(parts[i])) : i \in AttachedParts(parts)}

DocumentsOf == [m \in Mails |-> {"email.pdf"} \cup NamesAttached(MessageOf[m])]

(* What is on Drive of the mail of a finished job is its PDF and exactly   *)
(* the attachments of its message, each whole (mime.go:92, render.go:58,   *)
(* upload.go:123), through all three stages.                               *)
AttachmentsArchived ==
  \A m \in Mails : stage[m] = "done" =>
    {f.name : f \in {g \in files : g.mail = m}} = DocumentsOf[m]

(* The documents in the folders of their mails.                            *)
Kept == {<<f.mail, f.name>> : f \in {g \in files : AtPath(g.parent, Chain(g.mail))}}

Promise == INSTANCE MailArchive
  WITH Documents <- DocumentsOf,
       kept      <- Kept,
       closed    <- {m \in Mails : stage[m] = "done"}

(* The stages together keep the promise of MailArchive (fetch.go:40,       *)
(* render.go:45, upload.go:73): every step files one document of a mail's  *)
(* message at its path, closes a mail that has them all, or changes        *)
(* neither, and nothing is uploaded for a closed mail.                     *)
ArchiveKept == Promise!Spec
=============================================================================
