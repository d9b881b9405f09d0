----------------------------- MODULE MCFiling -------------------------------
(***************************************************************************)
(* Small instances of Archive: two mails of one day, the first with a body *)
(* in two forms, an inline image and a forwarded mail as its attachment.   *)
(***************************************************************************)
EXTENDS Archive, TLC

CONSTANTS m1, m2

OneDay == [m \in Mails |-> "18 April"]
OwnFolders == [m \in Mails |-> IF m = m1 THEN "Invoice (10:30)"
                                         ELSE "Invoice (10:31)"]
OneFolder == [m \in Mails |-> "Invoice (10:30)"]
AllNames == {"18 April", "Invoice (10:30)", "Invoice (10:31)", "a.eml", "b.txt"}

PartAt(depth, type, disposition, filename, name) ==
  [depth |-> depth, type |-> type, disposition |-> disposition,
   filename |-> filename, name |-> name, empty |-> FALSE, sound |-> TRUE]

Plain(depth) == PartAt(depth, "text/plain", "", "", "")
Html(depth) == PartAt(depth, "text/html", "", "", "")
Multi(depth) == PartAt(depth, "multipart", "", "", "")
Inline(depth) == PartAt(depth, "other", "inline", "logo.png", "logo.png")
Attached(depth) == PartAt(depth, "other", "attachment", "b.txt", "")
Forwarded(depth) == PartAt(depth, "multipart", "attachment", "../a.eml", "")
Unnamed(depth) == PartAt(depth, "text/plain", "attachment", "", "c.txt")
ByType(depth) == PartAt(depth, "other", "", "", "b.txt")
Empty(depth) == [Html(depth) EXCEPT !.empty = TRUE]
Broken(depth) == [Plain(depth) EXCEPT !.sound = FALSE]

Message == [m \in Mails |->
  IF m = m1
  THEN <<Multi(1), Multi(2), Plain(3), Html(3), Inline(2), Forwarded(2),
         Plain(3), Attached(3)>>
  ELSE <<Plain(1)>>]

(* The messages of up to four parts.                                       *)
PartsAt(depth) ==
  {Plain(depth), Html(depth), Multi(depth), Inline(depth), Attached(depth),
   Forwarded(depth), Unnamed(depth), ByType(depth), Empty(depth), Broken(depth)}

SmallMessages ==
  {parts \in UNION {[1..n -> UNION {PartsAt(d) : d \in 1..n}] : n \in 1..3} :
     MessageOK(parts)} \cup
  {parts \in {<<p, q, r, s>> : p \in {Multi(1)}, q \in PartsAt(2),
              r \in PartsAt(2) \cup PartsAt(3),
              s \in PartsAt(2) \cup PartsAt(3) \cup PartsAt(4)} :
     MessageOK(parts)}

AllMessages == SmallMessages \cup {Message[m] : m \in Mails}

(* What SanitizeFilename makes of the names that occur here: separators    *)
(* and leading dots go, and no name is left empty.                         *)
SanitizedName(name) ==
  CASE name = ""         -> "unnamed"
    [] name = "../a.eml" -> "a.eml"
    [] OTHER             -> name

ParsedAttachments == [m \in Mails |-> NamesParsed(Message[m])]

(* The workers are interchangeable.                                        *)
Workers == Permutations(Executors)
=============================================================================
