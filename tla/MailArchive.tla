---------------------------- MODULE MailArchive -----------------------------
(***************************************************************************)
(* What the pipeline promises the owner of a mailbox: the documents of a   *)
(* mail are kept one by one, none is lost again, and when the mail is      *)
(* closed they are all there, and nothing is added any more.               *)
(***************************************************************************)
CONSTANTS Mails,
          Documents     \* per mail, the names of what it consists of

VARIABLES kept,         \* the documents on Drive, each with its mail
          closed        \* the mails whose jobs are done

archiveVars == <<kept, closed>>

Init == kept = {} /\ closed = {}

Keep(m, d) ==
  /\ m \notin closed /\ <<m, d>> \notin kept
  /\ UNCHANGED closed
  /\ kept' = kept \cup {<<m, d>>}

Close(m) ==
  /\ m \notin closed /\ closed' = closed \cup {m}
  /\ \A d \in Documents[m] : <<m, d>> \in kept
  /\ UNCHANGED kept

Next == \E m \in Mails : Close(m) \/ \E d \in Documents[m] : Keep(m, d)

Spec == Init /\ [][Next]_archiveVars
=============================================================================
