------------------------------- MODULE Filing -------------------------------
(***************************************************************************)
(* What the handlers of the three stages do to the outside: the files of   *)
(* the data directory, and the folders and files of a user's Drive.  An    *)
(* execution is cut at every call that is seen from outside; it may end    *)
(* after any of them, and is then repeated from its beginning.  Of the     *)
(* task queue the module takes what TaskQueue shows: a job is executed by  *)
(* one worker at a time, and goes on to the next stage when a handler      *)
(* returns.                                                                *)
(*                                                                         *)
(* The folders above the one of a mail (root path, year, month, day) are   *)
(* found or created alike: one level stands for all.                       *)
(***************************************************************************)
EXTENDS Faults, Sequences

CONSTANTS Mails,          \* the jobs of one user, each with its mail
          Executors,      \* the workers
          DayOf,          \* per mail, the name of its dated folder
          FolderOf,       \* per mail, what EmailFolderName makes of it
          Attachments,    \* per mail, the sanitized names of its attachments
          Names,          \* names of files and folders
          Root,           \* the id of the root folder
          None

ASSUME FilingAssumption ==
  /\ DayOf \in [Mails -> Names] /\ FolderOf \in [Mails -> Names]
  /\ Attachments \in [Mails -> Seq(Names)]
  /\ Root \notin Nat /\ None \notin Nat \cup Mails \cup {Root}

VARIABLES stage,      \* per mail, the stage of its job
          disk,       \* the files mime/<job>, pdf/<job> and meta/<job>
          attached,   \* the files attachments/<job>/<name>: which part, or 0
          folders,    \* the folders on Drive
          files,      \* the files on Drive
          nextId,     \* the next id Drive gives away
          trashed,    \* the folders in the trash of Drive
          cache,      \* drive_folder_cache:<user>:<path>
          xpc,        \* where each worker is in a handler
          xmail,      \* the mail it works on
          xi,         \* the folder or the part of the mail it is at
          xparent     \* the folder it has come to

diskVars == <<disk, attached>>
driveVars == <<folders, files, nextId, trashed>>
execVars == <<xpc, xmail, xi, xparent>>
vars == <<stage, diskVars, driveVars, cache, execVars, faults>>

Chain(m) == <<DayOf[m], FolderOf[m]>>

(* A path is the names on it.  path.Join makes one string of them, which   *)
(* tells two paths apart as long as no name holds a '/'.                   *)
PathTo(m, i) == IF i = 1 THEN <<DayOf[m]>> ELSE Chain(m)
Paths == {PathTo(m, i) : m \in Mails, i \in 1..2}

(* Part 0 of a mail is its PDF, the others are its attachments.            *)
Parts(m) == 0..Len(Attachments[m])
FileName(m, p) == IF p = 0 THEN "email.pdf" ELSE Attachments[m][p]

Init ==
  /\ stage = [m \in Mails |-> "fetch"]
  /\ disk = {} /\ attached = [m \in Mails |-> [n \in Names |-> 0]]
  /\ folders = {} /\ files = {} /\ nextId = 0 /\ trashed = {}
  /\ cache = [path \in Paths |-> None]
  /\ xpc = [x \in Executors |-> "idle"]
  /\ xmail = [x \in Executors |-> None]
  /\ xi = [x \in Executors |-> 0]
  /\ xparent = [x \in Executors |-> None]
  /\ faults = 0

GoTo(x, pc, i, parent) ==
  /\ xpc' = [xpc EXCEPT ![x] = pc]
  /\ xi' = [xi EXCEPT ![x] = i]
  /\ xparent' = [xparent EXCEPT ![x] = parent]
  /\ UNCHANGED xmail

Leave(x) ==
  /\ xpc' = [xpc EXCEPT ![x] = "idle"]
  /\ xmail' = [xmail EXCEPT ![x] = None]
  /\ xi' = [xi EXCEPT ![x] = 0]
  /\ xparent' = [xparent EXCEPT ![x] = None]

-----------------------------------------------------------------------------
(* The worker around the handlers.                                         *)

FirstStep == [fetch |-> "fetch", render |-> "attach", upload |-> "lookup"]

Take(x, m) ==
  /\ xpc[x] = "idle"
  /\ stage[m] # "done" /\ \A y \in Executors : xmail[y] # m
  /\ xpc' = [xpc EXCEPT ![x] = FirstStep[stage[m]]]
  /\ xmail' = [xmail EXCEPT ![x] = m]
  /\ xi' = [xi EXCEPT ![x] = 1]
  /\ xparent' = [xparent EXCEPT ![x] = Root]
  /\ UNCHANGED <<stage, diskVars, driveVars, cache, faults>>

NextStage(s) == CASE s = "fetch"  -> "render"
                  [] s = "render" -> "upload"
                  [] OTHER        -> "done"

Return(x) ==
  /\ xpc[x] = "return"
  /\ stage' = [stage EXCEPT ![xmail[x]] = NextStage(@)]
  /\ Leave(x)
  /\ UNCHANGED <<diskVars, driveVars, cache, faults>>

(* The handler returns an error, or the worker dies: the job is retried.   *)
Interrupted(x) ==
  /\ xpc[x] # "idle"
  /\ Fault("crash")
  /\ Leave(x)
  /\ UNCHANGED <<stage, diskVars, driveVars, cache>>

-----------------------------------------------------------------------------
(* FetchHandler and RenderHandler: files named after the job.              *)

Fetch(x) ==
  /\ xpc[x] = "fetch"
  /\ disk' = disk \cup {<<"mime", xmail[x]>>}
  /\ GoTo(x, "return", 0, None)
  /\ UNCHANGED <<stage, attached, driveVars, cache, faults>>

WriteAttachment(x) ==
  LET m == xmail[x] IN
  /\ xpc[x] = "attach" /\ <<"mime", m>> \in disk
  /\ xi[x] <= Len(Attachments[m])
  /\ attached' = [attached EXCEPT ![m][FileName(m, xi[x])] = xi[x]]
  /\ GoTo(x, "attach", xi[x] + 1, xparent[x])
  /\ UNCHANGED <<stage, disk, driveVars, cache, faults>>

WritePdf(x) ==
  LET m == xmail[x] IN
  /\ xpc[x] = "attach" /\ <<"mime", m>> \in disk
  /\ xi[x] > Len(Attachments[m])
  /\ disk' = disk \cup {<<"pdf", m>>}
  /\ GoTo(x, "meta", 0, None)
  /\ UNCHANGED <<stage, attached, driveVars, cache, faults>>

WriteMeta(x) ==
  /\ xpc[x] = "meta"
  /\ disk' = disk \cup {<<"meta", xmail[x]>>}
  /\ GoTo(x, "return", 0, None)
  /\ UNCHANGED <<stage, attached, driveVars, cache, faults>>

-----------------------------------------------------------------------------
(* UploadHandler: walk down the folders of the mail, through the cache or  *)
(* EnsureFolder, then upload its parts.                                    *)

Below(x) == PathTo(xmail[x], xi[x])

(* A cache that cannot be read is a cache without the entry.               *)
CacheGet(x) ==
  /\ xpc[x] = "lookup" /\ xi[x] <= 2 /\ <<"meta", xmail[x]>> \in disk
  /\ \/ /\ cache[Below(x)] # None
        /\ GoTo(x, "lookup", xi[x] + 1, cache[Below(x)])
        /\ UNCHANGED faults
     \/ /\ cache[Below(x)] = None
        /\ GoTo(x, "list", xi[x], xparent[x])
        /\ UNCHANGED faults
     \/ /\ Fault("redis_error")
        /\ GoTo(x, "list", xi[x], xparent[x])
  /\ UNCHANGED <<stage, diskVars, driveVars, cache>>

(* A plausible bug: the query does not say trashed = false.                *)
SubfoldersInTrash(parent, name) ==
  {f \in folders : f.parent = parent /\ f.name = name}

Subfolders(parent, name) ==
  {f \in folders : f.parent = parent /\ f.name = name /\ f.id \notin trashed}

(* EnsureFolder takes the first folder Drive lists, or creates one.        *)
ListFolders(x) ==
  LET found == Subfolders(xparent[x], Chain(xmail[x])[xi[x]]) IN
  /\ xpc[x] = "list"
  /\ \/ \E f \in found : GoTo(x, "set", xi[x], f.id)
     \/ found = {} /\ GoTo(x, "create", xi[x], xparent[x])
  /\ UNCHANGED <<stage, diskVars, driveVars, cache, faults>>

(* What is created in a folder in the trash is in the trash.               *)
Created(parent) ==
  /\ nextId' = nextId + 1
  /\ trashed' = IF parent \in trashed THEN trashed \cup {nextId} ELSE trashed

(* A plausible bug: the id of the parent is returned.                      *)
CreateFolderStays(x) ==
  /\ xpc[x] = "create"
  /\ folders' = folders \cup {[id |-> nextId, parent |-> xparent[x],
                               name |-> Chain(xmail[x])[xi[x]]]}
  /\ Created(xparent[x])
  /\ GoTo(x, "set", xi[x], xparent[x])
  /\ UNCHANGED <<stage, diskVars, files, cache, faults>>

CreateFolder(x) ==
  /\ xpc[x] = "create"
  /\ folders' = folders \cup {[id |-> nextId, parent |-> xparent[x],
                               name |-> Chain(xmail[x])[xi[x]]]}
  /\ Created(xparent[x])
  /\ GoTo(x, "set", xi[x], nextId)
  /\ UNCHANGED <<stage, diskVars, files, cache, faults>>

(* A plausible bug: the entry is written before the name is joined on.     *)
CacheSetEarly(x) ==
  /\ xpc[x] = "set"
  /\ cache' = IF xi[x] = 1 THEN cache
              ELSE [cache EXCEPT ![PathTo(xmail[x], xi[x] - 1)] = xparent[x]]
  /\ GoTo(x, "lookup", xi[x] + 1, xparent[x])
  /\ UNCHANGED <<stage, diskVars, driveVars, faults>>

(* A failed write of the cache is ignored.                                 *)
CacheSet(x) ==
  /\ xpc[x] = "set"
  /\ \/ cache' = [cache EXCEPT ![Below(x)] = xparent[x]] /\ UNCHANGED faults
     \/ Fault("redis_error") /\ UNCHANGED cache
  /\ GoTo(x, "lookup", xi[x] + 1, xparent[x])
  /\ UNCHANGED <<stage, diskVars, driveVars>>

FoldersReached(x) ==
  /\ xpc[x] = "lookup" /\ xi[x] > 2
  /\ GoTo(x, "find", 0, xparent[x])
  /\ UNCHANGED <<stage, diskVars, driveVars, cache, faults>>

(* A plausible bug: the loop runs once too often.                          *)
NextPartTooFar(x) ==
  GoTo(x, IF xi[x] > Len(Attachments[xmail[x]]) THEN "return" ELSE "find",
       xi[x] + 1, xparent[x])

NextPart(x) ==
  GoTo(x, IF xi[x] = Len(Attachments[xmail[x]]) THEN "return" ELSE "find",
       xi[x] + 1, xparent[x])

(* A plausible bug: the query does not ask for the parent.                 *)
NamedAnywhere(parent, name) == {f \in files : f.name = name}

Named(parent, name) ==
  {f \in files : f.parent = parent /\ f.name = name /\ f.id \notin trashed}

(* A plausible bug: Upload creates the file without looking for it.        *)
FindNoFile(x) ==
  /\ xpc[x] = "find"
  /\ GoTo(x, "put", xi[x], xparent[x])
  /\ UNCHANGED <<stage, diskVars, driveVars, cache, faults>>

(* A plausible bug: a file that is there already ends the upload.          *)
FindFileEnds(x) ==
  LET found == Named(xparent[x], FileName(xmail[x], xi[x])) IN
  /\ xpc[x] = "find"
  /\ \/ found # {} /\ GoTo(x, "return", xi[x] + 1, xparent[x])
     \/ found = {} /\ GoTo(x, "put", xi[x], xparent[x])
  /\ UNCHANGED <<stage, diskVars, driveVars, cache, faults>>

(* Upload: a file of that name in the folder counts as uploaded.           *)
FindFile(x) ==
  LET found == Named(xparent[x], FileName(xmail[x], xi[x])) IN
  /\ xpc[x] = "find"
  /\ \/ found # {} /\ NextPart(x)
     \/ found = {} /\ GoTo(x, "put", xi[x], xparent[x])
  /\ UNCHANGED <<stage, diskVars, driveVars, cache, faults>>

(* What is uploaded is the file on disk: for two attachments of one name,  *)
(* the one written last.                                                   *)
OnDisk(m, p) == IF p = 0 THEN 0 ELSE attached[m][FileName(m, p)]

PutFile(x) ==
  LET m == xmail[x] IN
  /\ xpc[x] = "put"
  /\ files' = files \cup {[id |-> nextId, parent |-> xparent[x],
                           name |-> FileName(m, xi[x]), mail |-> m,
                           part |-> OnDisk(m, xi[x])]}
  /\ Created(xparent[x])
  /\ NextPart(x)
  /\ UNCHANGED <<stage, diskVars, folders, cache, faults>>

-----------------------------------------------------------------------------
(* An entry of the cache lives for 24 hours.                               *)
CacheExpires(path) ==
  /\ cache[path] # None
  /\ cache' = [cache EXCEPT ![path] = None]
  /\ UNCHANGED <<stage, diskVars, driveVars, execVars, faults>>

(* The user moves a folder, and what is in it, to the trash of Drive.      *)
UserTrashes(f) ==
  LET inside == {g.id : g \in {h \in folders \cup files : h.parent = f.id}} IN
  /\ f.id \notin trashed
  /\ Fault("trashed")
  /\ trashed' = trashed \cup {f.id} \cup inside \cup
       {g.id : g \in {h \in files : h.parent \in inside}}
  /\ UNCHANGED <<stage, diskVars, folders, files, nextId, cache, execVars>>

Upload(x) ==
  \/ CacheGet(x) \/ ListFolders(x) \/ CreateFolder(x) \/ CacheSet(x)
  \/ FoldersReached(x) \/ FindFile(x) \/ PutFile(x)

Render(x) == WriteAttachment(x) \/ WritePdf(x) \/ WriteMeta(x)

Next ==
  \/ \E x \in Executors :
       \/ \E m \in Mails : Take(x, m)
       \/ Fetch(x) \/ Render(x) \/ Upload(x) \/ Return(x)
       \/ Interrupted(x)
  \/ \E path \in Paths : CacheExpires(path)
  \/ \E f \in folders : UserTrashes(f)

Spec == Init /\ [][Next]_vars

-----------------------------------------------------------------------------
(***************************************************************************)
(* Properties.                                                             *)
(***************************************************************************)

Labels == {"idle", "fetch", "attach", "meta", "lookup", "list", "create", "set",
           "find", "put", "return"}

Typed(pc, m, i, parent) ==
  /\ pc \in Labels /\ i \in Nat
  /\ parent \in Nat \cup {Root, None}
  /\ m \in Mails \cup {None}
  /\ pc # "idle" => m \in Mails
  /\ pc \in {"list", "create", "set"} => i \in 1..2
  /\ pc \in {"find", "put"} => i \in Parts(m)

ExecTypeOK ==
  /\ xpc \in [Executors -> Labels] /\ xi \in [Executors -> Nat]
  /\ xmail \in [Executors -> Mails \cup {None}]
  /\ xparent \in [Executors -> Nat \cup {Root, None}]
  /\ \A x \in Executors : Typed(xpc[x], xmail[x], xi[x], xparent[x])

OutsideTypeOK ==
  /\ stage \in [Mails -> {"fetch", "render", "upload", "done"}]
  /\ disk \subseteq {"mime", "pdf", "meta"} \X Mails
  /\ attached \in [Mails -> [Names -> Nat]]
  /\ \A f \in folders : /\ f.id \in Nat /\ f.parent \in Nat \cup {Root}
                        /\ f.name \in Names
  /\ nextId \in Nat /\ FaultsTypeOK
  /\ cache \in [Paths -> Nat \cup {Root, None}]

IdsTypeOK ==
  /\ \A f \in folders \cup files : f.id \in 0..(nextId - 1)
  /\ trashed \subseteq 0..(nextId - 1)

(* The types of all variables; a worker in a handler holds a mail, and is  *)
(* at one of its folders (upload.go:95) or parts (upload.go:123); no id    *)
(* that Drive will give away is taken.                                     *)
TypeOK == ExecTypeOK /\ OutsideTypeOK /\ IdsTypeOK

(* Folder id is at the given path: its name, and the names of the folders  *)
(* above it, are those of the path.                                        *)
AtPath(id, path) ==
  \E d \in folders :
    /\ d.parent = Root /\ d.name = path[1]
    /\ \/ Len(path) = 1 /\ id = d.id
       \/ /\ Len(path) = 2
          /\ \E f \in folders : /\ f.id = id /\ f.parent = d.id
                                /\ f.name = path[2]

(* What the cache says of a path is true of Drive, although several        *)
(* workers create folders of one name and write one entry (upload.go:101). *)
CacheSound ==
  \A path \in Paths : cache[path] # None => AtPath(cache[path], path)

Walked(parent, m, i) ==
  IF i = 0 THEN parent = Root ELSE AtPath(parent, PathTo(m, i))

OnPath(pc, m, i, parent) ==
  /\ pc \in {"lookup", "list", "create"} =>
       i \in 1..3 /\ Walked(parent, m, i - 1)
  /\ pc = "set" => Walked(parent, m, i)
  /\ pc \in {"find", "put"} => Walked(parent, m, 2)

(* A worker on its way to the folder of its mail (upload.go:94-111) is at  *)
(* the path it has walked so far, and what it uploads goes to the end of   *)
(* it, whoever else creates folders or writes the cache meanwhile.         *)
ParentSound ==
  \A x \in Executors : OnPath(xpc[x], xmail[x], xi[x], xparent[x])

(* The mail of a finished job is on Drive: every part of it is a file of   *)
(* the right name in a folder at the path of the mail (upload.go:94-131),  *)
(* through interruptions, repetitions and cache misses.                    *)
Filed ==
  \A m \in Mails : stage[m] = "done" =>
    \A p \in Parts(m) : \E f \in files :
      /\ f.mail = m /\ f.part = p /\ f.name = FileName(m, p)
      /\ AtPath(f.parent, Chain(m))

(* A repeated upload makes no second file of a name in a folder            *)
(* (client.go:76), as long as each mail has a folder name of its own; what *)
(* is in the trash does not count (client.go:77).                          *)
NoTwinFiles ==
  \A f, g \in files :
    /\ f.parent = g.parent /\ f.name = g.name
    /\ {f.id, g.id} \cap trashed = {}
    => f = g

InUse(id) ==
  (\E path \in Paths : cache[path] = id) \/ \E x \in Executors : xparent[x] = id

(* A folder in the trash is forgotten for good: once its entry of the      *)
(* cache has expired (upload.go:109) and no worker is in it, no worker     *)
(* comes to it again and no entry names it (client.go:56), whoever was     *)
(* about to create it or to write the entry when it was thrown away.       *)
TrashForgotten ==
  [][\A id \in trashed : ~InUse(id) => ~InUse(id)']_vars
=============================================================================
