-------------------------------- MODULE Mime --------------------------------
(***************************************************************************)
(* How the render stage reads a message: the walk over the tree of its     *)
(* MIME parts, which collects attachments and picks the body.  A message   *)
(* is the sequence of its parts in the order NextPart delivers them, each  *)
(* with its depth in the tree; the first is the message itself.            *)
(***************************************************************************)
EXTENDS Naturals, Sequences

Types == {"multipart", "text/plain", "text/html", "text/other", "other"}
Textual == {"text/plain", "text/html", "text/other"}

(* sound: the content decodes; of a multipart that is walked, it has a     *)
(* boundary and can be cut into its parts.  "" is no name.                 *)
Part == [depth : Nat, type : Types,
         disposition : {"", "attachment", "inline", "form-data"},
         filename : STRING, name : STRING, empty : BOOLEAN, sound : BOOLEAN]

(* Only a part of a multipart is one level further down than its           *)
(* predecessor.                                                            *)
DeepestAfter(p) == p.depth + IF p.type = "multipart" THEN 1 ELSE 0

(* Without a disposition there is no file name.                            *)
MessageOK(parts) ==
  /\ parts \in Seq(Part) /\ parts # <<>> /\ parts[1].depth = 1
  /\ \A i \in DOMAIN parts :
       /\ parts[i].disposition = "" => parts[i].filename = ""
       /\ i > 1 => /\ parts[i].depth >= 2
                   /\ parts[i].depth <= DeepestAfter(parts[i-1])

-----------------------------------------------------------------------------
NamedByType(p) ==
  /\ p.filename = "" /\ p.name # ""
  /\ p.type \notin Textual \cup {"multipart"}

(* An inline part with a file name is not an attachment.                   *)
IsAttachment(p) ==
  \/ p.disposition = "attachment"
  \/ p.filename # "" /\ p.disposition # "inline"
  \/ NamedByType(p)

AttachName(p) == IF NamedByType(p) THEN p.name ELSE p.filename

(* What the walk has found: the parts that are attachments, and the ones   *)
(* taken for the body (0 for none); and whether it has failed.  The parts  *)
(* deeper than inside belong to an attachment, whose content is kept whole *)
(* and not walked.                                                         *)
Nothing == [attachments |-> <<>>, html |-> 0, text |-> 0,
            failed |-> FALSE, inside |-> 0]

Skipped(out, p) == out.failed \/ (out.inside # 0 /\ p.depth > out.inside)

(* A plausible bug: the last HTML part is shown, not the first.            *)
LeafLast(out, p, i) ==
  CASE ~p.sound -> [out EXCEPT !.failed = TRUE]
    [] p.sound /\ ~p.empty /\ p.type = "text/html" -> [out EXCEPT !.html = i]
    [] p.sound /\ ~p.empty /\ p.type = "text/plain" -> [out EXCEPT !.text = i]
    [] OTHER -> out

Leaf(out, p, i) ==
  CASE ~p.sound -> [out EXCEPT !.failed = TRUE]
    [] p.sound /\ ~p.empty /\ p.type = "text/html" /\ out.html = 0 ->
         [out EXCEPT !.html = i]
    [] p.sound /\ ~p.empty /\ p.type = "text/plain" /\ out.text = 0 ->
         [out EXCEPT !.text = i]
    [] OTHER -> out

(* A plausible bug: the walk goes on into the parts of an attachment.      *)
walkPartInto(parts, out, i) ==
  LET p == parts[i] IN
  CASE out.failed -> out
    [] ~out.failed /\ IsAttachment(p) ->
         [out EXCEPT !.attachments = Append(@, i), !.failed = ~p.sound]
    [] ~out.failed /\ ~IsAttachment(p) /\ p.type = "multipart" ->
         [out EXCEPT !.failed = ~p.sound]
    [] OTHER -> Leaf(out, p, i)

walkPart(parts, out, i) ==
  LET p == parts[i]
      here == [out EXCEPT !.inside = 0]
  IN CASE Skipped(out, p) -> out
       [] ~Skipped(out, p) /\ IsAttachment(p) ->
            IF p.sound
            THEN [here EXCEPT !.attachments = Append(@, i), !.inside = p.depth]
            ELSE [here EXCEPT !.failed = TRUE]
       [] ~Skipped(out, p) /\ ~IsAttachment(p) /\ p.type = "multipart" ->
            [here EXCEPT !.failed = ~p.sound]
       [] OTHER -> Leaf(here, p, i)

(* What has been found after each of the parts.                            *)
walk(parts) ==
  LET out[i \in 0..Len(parts)] ==
        IF i = 0 THEN Nothing ELSE walkPart(parts, out[i-1], i)
  IN out

parseMessage(parts) == walk(parts)[Len(parts)]

(* The PDF shows the HTML part if there is one, and else the text.         *)
Body(parsed) == IF parsed.html # 0 THEN parsed.html ELSE parsed.text

-----------------------------------------------------------------------------
(***************************************************************************)
(* What the walk should find, said of the tree.                            *)
(***************************************************************************)

Above(parts, i) ==
  {j \in 1..(i-1) : \A k \in (j+1)..i : parts[k].depth > parts[j].depth}

Reached(parts) ==
  {i \in DOMAIN parts : \A j \in Above(parts, i) : ~IsAttachment(parts[j])}

AttachedParts(parts) == {i \in Reached(parts) : IsAttachment(parts[i])}

BodyParts(parts, type) ==
  {i \in Reached(parts) \ AttachedParts(parts) :
     parts[i].type = type /\ ~parts[i].empty}

FirstOf(S) == IF S = {} THEN 0 ELSE CHOOSE i \in S : \A j \in S : i <= j

Enumerates(s, S) ==
  /\ {s[k] : k \in DOMAIN s} = S
  /\ \A k, l \in DOMAIN s : k < l => s[k] < s[l]

(* The walk (mime.go:64-145) finds every attachment that is not inside     *)
(* another one, in order, shows the first HTML part with content, or else  *)
(* the first text, and fails if a part it reaches is broken.               *)
WalkedRight(parts) ==
  LET parsed == parseMessage(parts) IN
  /\ parsed.failed <=> \E i \in Reached(parts) : ~parts[i].sound
  /\ ~parsed.failed =>
       /\ Enumerates(parsed.attachments, AttachedParts(parts))
       /\ Body(parsed) = IF BodyParts(parts, "text/html") # {}
                         THEN FirstOf(BodyParts(parts, "text/html"))
                         ELSE FirstOf(BodyParts(parts, "text/plain"))
=============================================================================
