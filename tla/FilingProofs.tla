---------------------------- MODULE FilingProofs ----------------------------
(***************************************************************************)
(* For any mails, names, workers, interruptions and Redis errors, whatever *)
(* the race for a folder: types are kept, the cache tells the truth, and a *)
(* worker files what it uploads at the path of its mail.  If names are not *)
(* shared, no file is uploaded twice and the mail of a finished job is on  *)
(* Drive.                                                                  *)
(***************************************************************************)
EXTENDS Filing, TLAPS

WalkTypeOK == ExecTypeOK /\ OutsideTypeOK

FilingInv == WalkTypeOK /\ CacheSound /\ ParentSound

(* A path and its names (paths.go:17, upload.go:94).                       *)
LEMMA PathFacts ==
  ASSUME NEW m \in Mails
  PROVE  /\ \A i \in 1..2 : PathTo(m, i) \in Paths
         /\ DayOf[m] \in Names /\ FolderOf[m] \in Names
         /\ Chain(m)[1] = DayOf[m] /\ Chain(m)[2] = FolderOf[m]
         /\ Len(PathTo(m, 1)) = 1 /\ PathTo(m, 1)[1] = DayOf[m]
         /\ Len(PathTo(m, 2)) = 2 /\ PathTo(m, 2)[1] = DayOf[m]
         /\ PathTo(m, 2)[2] = FolderOf[m]
         /\ Len(Attachments[m]) \in Nat
<1>1. \A i \in 1..2 : PathTo(m, i) \in Paths
  BY DEF Paths
<1>2. DayOf[m] \in Names /\ FolderOf[m] \in Names /\ Len(Attachments[m]) \in Nat
  BY FilingAssumption
<1> QED BY <1>1, <1>2 DEF PathTo, Chain

(* No folder is ever removed, so a folder stays at its path.               *)
LEMMA AtPathStays ==
  ASSUME folders \subseteq folders', NEW id, NEW path, AtPath(id, path)
  PROVE  AtPath(id, path)'
BY DEF AtPath

LEMMA OnPathStays ==
  ASSUME folders \subseteq folders',
         NEW pc, NEW m, NEW i, NEW parent, OnPath(pc, m, i, parent)
  PROVE  OnPath(pc, m, i, parent)'
BY AtPathStays DEF OnPath, Walked

LEMMA CacheStays ==
  ASSUME CacheSound, folders \subseteq folders', UNCHANGED cache
  PROVE  CacheSound'
BY AtPathStays DEF CacheSound

(* A step of one worker: the others stay on their paths.                   *)
LEMMA OneMoves ==
  ASSUME ExecTypeOK, ParentSound, folders \subseteq folders',
         NEW x \in Executors, NEW pc, NEW i, NEW parent,
         GoTo(x, pc, i, parent),
         OnPath(pc, xmail[x], i, parent)'
  PROVE  ParentSound'
<1> SUFFICES ASSUME NEW y \in Executors
             PROVE  OnPath(xpc[y], xmail[y], xi[y], xparent[y])'
  BY DEF ParentSound
<1>1. CASE y = x
  <2>1. xpc'[y] = pc /\ xmail'[y] = xmail[x] /\ xi'[y] = i /\ xparent'[y] = parent
    BY <1>1 DEF GoTo, ExecTypeOK
  <2> QED BY <2>1 DEF OnPath, Walked, AtPath, GoTo
<1>2. CASE y # x
  <2>1. /\ xpc'[y] = xpc[y] /\ xmail'[y] = xmail[y]
        /\ xi'[y] = xi[y] /\ xparent'[y] = xparent[y]
    BY <1>2 DEF GoTo, ExecTypeOK
  <2>2. OnPath(xpc[y], xmail[y], xi[y], xparent[y])
    BY DEF ParentSound
  <2> QED BY <2>1, <2>2, OnPathStays DEF OnPath, Walked, AtPath
<1> QED BY <1>1, <1>2

(* The folder a worker lists or creates is one step further down.          *)
LEMMA OneLevelDown ==
  ASSUME NEW m \in Mails, NEW i \in 1..2, NEW parent, NEW f \in folders,
         Walked(parent, m, i - 1), f.parent = parent, f.name = Chain(m)[i]
  PROVE  Walked(f.id, m, i)
<1>1. CASE i = 1
  BY <1>1, PathFacts DEF Walked, AtPath
<1>2. CASE i = 2
  <2>1. AtPath(parent, PathTo(m, 1))
    BY <1>2 DEF Walked
  <2>2. PICK d \in folders : d.parent = Root /\ d.name = DayOf[m] /\ parent = d.id
    BY <2>1, PathFacts DEF AtPath
  <2> QED BY <1>2, <2>2, PathFacts DEF Walked, AtPath
<1> QED BY <1>1, <1>2

LEMMA InitKeeps == Init => FilingInv
<1> SUFFICES ASSUME Init PROVE FilingInv
  OBVIOUS
<1>1. WalkTypeOK
  BY FilingAssumption DEF Init, WalkTypeOK, ExecTypeOK, OutsideTypeOK, Typed, Labels, FaultsTypeOK
<1>2. CacheSound
  BY DEF Init, CacheSound
<1>3. ParentSound
  BY DEF Init, ParentSound, OnPath
<1> QED BY <1>1, <1>2, <1>3 DEF FilingInv

(* Where a worker goes, and where it leaves off.                           *)
LEMMA GoToTyped ==
  ASSUME ExecTypeOK, NEW x \in Executors, NEW pc, NEW i, NEW parent,
         GoTo(x, pc, i, parent), Typed(pc, xmail[x], i, parent)
  PROVE  ExecTypeOK'
<1>1. /\ pc \in Labels /\ i \in Nat
      /\ parent \in Nat \cup {Root, None}
  BY DEF Typed
<1>2. /\ xpc' \in [Executors -> Labels] /\ xi' \in [Executors -> Nat]
      /\ xmail' \in [Executors -> Mails \cup {None}]
      /\ xparent' \in [Executors -> Nat \cup {Root, None}]
  BY <1>1 DEF GoTo, ExecTypeOK
<1>3. ASSUME NEW y \in Executors
      PROVE  Typed(xpc[y], xmail[y], xi[y], xparent[y])'
  <2>1. Typed(xpc[y], xmail[y], xi[y], xparent[y])
    BY DEF ExecTypeOK
  <2>2. Typed(xpc'[y], xmail'[y], xi'[y], xparent'[y])
    BY <2>1 DEF GoTo, ExecTypeOK
  <2> QED BY <2>2 DEF Typed, Parts
<1> QED BY <1>2, <1>3 DEF ExecTypeOK

LEMMA LeaveTyped ==
  ASSUME ExecTypeOK, NEW x \in Executors, Leave(x)
  PROVE  ExecTypeOK'
<1>1. /\ xpc' \in [Executors -> Labels] /\ xi' \in [Executors -> Nat]
      /\ xmail' \in [Executors -> Mails \cup {None}]
      /\ xparent' \in [Executors -> Nat \cup {Root, None}]
  BY DEF Leave, ExecTypeOK, Labels
<1>2. ASSUME NEW y \in Executors
      PROVE  Typed(xpc[y], xmail[y], xi[y], xparent[y])'
  <2>1. Typed(xpc[y], xmail[y], xi[y], xparent[y])
    BY DEF ExecTypeOK
  <2>2. Typed("idle", None, 0, None)
    BY DEF Typed, Labels
  <2>3. Typed(xpc'[y], xmail'[y], xi'[y], xparent'[y])
    BY <2>1, <2>2 DEF Leave, ExecTypeOK
  <2> QED BY <2>3 DEF Typed, Parts
<1> QED BY <1>1, <1>2 DEF ExecTypeOK

-----------------------------------------------------------------------------
(* One lemma per step.  Each follows from where the worker goes.           *)

LEMMA LeaveKeeps ==
  ASSUME FilingInv, NEW x \in Executors, Leave(x), OutsideTypeOK',
         UNCHANGED <<cache, folders>>
  PROVE  FilingInv'
<1>1. ExecTypeOK'
  BY LeaveTyped DEF FilingInv, WalkTypeOK
<1>2. CacheSound'
  BY CacheStays DEF FilingInv
<1>3. ASSUME NEW y \in Executors
      PROVE  OnPath(xpc[y], xmail[y], xi[y], xparent[y])'
  <2>1. OnPath(xpc[y], xmail[y], xi[y], xparent[y])
    BY DEF FilingInv, ParentSound
  <2>2. CASE y = x
    <3>1. xpc'[y] = "idle"
      BY <2>2 DEF Leave, FilingInv, WalkTypeOK, ExecTypeOK
    <3> QED BY <3>1 DEF OnPath
  <2>3. CASE y # x
    <3>1. /\ xpc'[y] = xpc[y] /\ xmail'[y] = xmail[y]
          /\ xi'[y] = xi[y] /\ xparent'[y] = xparent[y]
      BY <2>3 DEF Leave, FilingInv, WalkTypeOK, ExecTypeOK
    <3> QED BY <2>1, <3>1 DEF OnPath, Walked, AtPath
  <2> QED BY <2>2, <2>3
<1> QED BY <1>1, <1>2, <1>3 DEF FilingInv, WalkTypeOK, ParentSound

(* A step that leaves the folders and the cache alone.                     *)
LEMMA GoToKeeps ==
  ASSUME FilingInv, OutsideTypeOK', UNCHANGED <<cache, folders>>,
         NEW x \in Executors, NEW pc, NEW i, NEW parent,
         GoTo(x, pc, i, parent), Typed(pc, xmail[x], i, parent),
         OnPath(pc, xmail[x], i, parent)
  PROVE  FilingInv'
<1>1. ExecTypeOK'
  BY GoToTyped DEF FilingInv, WalkTypeOK
<1>2. CacheSound'
  BY CacheStays DEF FilingInv
<1>3. OnPath(pc, xmail[x], i, parent)'
  BY DEF OnPath, Walked, AtPath, GoTo
<1>4. ParentSound'
  BY <1>3, OneMoves DEF FilingInv, WalkTypeOK
<1> QED BY <1>1, <1>2, <1>4 DEF FilingInv, WalkTypeOK

LEMMA TakeKeeps ==
  ASSUME FilingInv, NEW x \in Executors, NEW m \in Mails, Take(x, m)
  PROVE  FilingInv'
<1>1. FirstStep[stage[m]] \in {"fetch", "attach", "lookup"}
  BY DEF Take, FirstStep, FilingInv, WalkTypeOK, OutsideTypeOK
<1>2. OutsideTypeOK'
  BY DEF Take, diskVars, driveVars, FilingInv, WalkTypeOK, OutsideTypeOK, FaultsTypeOK
<1>3. CacheSound'
  BY CacheStays DEF Take, driveVars, FilingInv
<1>4. ASSUME NEW y \in Executors
      PROVE  /\ Typed(xpc[y], xmail[y], xi[y], xparent[y])'
             /\ OnPath(xpc[y], xmail[y], xi[y], xparent[y])'
  <2>1. /\ Typed(xpc[y], xmail[y], xi[y], xparent[y])
        /\ OnPath(xpc[y], xmail[y], xi[y], xparent[y])
    BY DEF FilingInv, WalkTypeOK, ExecTypeOK, ParentSound
  <2>2. CASE y = x
    <3>1. /\ xpc'[y] \in {"fetch", "attach", "lookup"} /\ xmail'[y] = m
          /\ xi'[y] = 1 /\ xparent'[y] = Root
      BY <1>1, <2>2 DEF Take, FilingInv, WalkTypeOK, ExecTypeOK
    <3> QED BY <3>1 DEF Typed, Labels, OnPath, Walked
  <2>3. CASE y # x
    <3>1. /\ xpc'[y] = xpc[y] /\ xmail'[y] = xmail[y]
          /\ xi'[y] = xi[y] /\ xparent'[y] = xparent[y]
          /\ folders' = folders
      BY <2>3 DEF Take, driveVars, FilingInv, WalkTypeOK, ExecTypeOK
    <3> QED BY <2>1, <3>1 DEF Typed, Parts, OnPath, Walked, AtPath
  <2> QED BY <2>2, <2>3
<1>5. /\ xpc' \in [Executors -> Labels] /\ xi' \in [Executors -> Nat]
      /\ xmail' \in [Executors -> Mails \cup {None}]
      /\ xparent' \in [Executors -> Nat \cup {Root, None}]
  BY <1>1 DEF Take, FilingInv, WalkTypeOK, ExecTypeOK, Labels
<1> QED BY <1>2, <1>3, <1>4, <1>5 DEF FilingInv, WalkTypeOK, ExecTypeOK, ParentSound

LEMMA EndsKeep ==
  ASSUME FilingInv, NEW x \in Executors, Return(x) \/ Interrupted(x)
  PROVE  FilingInv'
<1>1. Leave(x) /\ UNCHANGED <<cache, folders>>
  BY DEF Return, Interrupted, driveVars
<1>2. OutsideTypeOK'
  <2>1. CASE Return(x)
    <3>1. NextStage(stage[xmail[x]]) \in {"render", "upload", "done"}
      BY DEF NextStage
    <3> QED BY <2>1, <3>1 DEF Return, diskVars, driveVars, FilingInv, WalkTypeOK,
                              OutsideTypeOK, ExecTypeOK, Typed, FaultsTypeOK
  <2>2. CASE Interrupted(x)
    BY <2>2 DEF Interrupted, Fault, diskVars, driveVars, FilingInv, WalkTypeOK,
                OutsideTypeOK, FaultsTypeOK
  <2> QED BY <2>1, <2>2
<1> QED BY <1>1, <1>2, LeaveKeeps

LEMMA LocalKeeps ==
  ASSUME FilingInv, NEW x \in Executors, Fetch(x) \/ Render(x)
  PROVE  FilingInv'
<1> DEFINE m == xmail[x]
<1>1. m \in Mails /\ xi[x] \in Nat /\ xparent[x] \in Nat \cup {Root, None}
  BY DEF Fetch, Render, WriteAttachment, WritePdf, WriteMeta,
         FilingInv, WalkTypeOK, ExecTypeOK, Typed
<1>2. UNCHANGED <<cache, folders>>
  BY DEF Fetch, Render, WriteAttachment, WritePdf, WriteMeta, driveVars
<1>3. OutsideTypeOK'
  <2> USE <1>1 DEF driveVars, FilingInv, WalkTypeOK, OutsideTypeOK, FaultsTypeOK
  <2>1. CASE Fetch(x)
    BY <2>1 DEF Fetch
  <2>2. CASE WriteAttachment(x)
    BY <2>2 DEF WriteAttachment
  <2>3. CASE WritePdf(x)
    BY <2>3 DEF WritePdf
  <2>4. CASE WriteMeta(x)
    BY <2>4 DEF WriteMeta
  <2> QED BY <2>1, <2>2, <2>3, <2>4 DEF Render
<1>4. \/ GoTo(x, "return", 0, None) \/ GoTo(x, "meta", 0, None)
      \/ GoTo(x, "attach", xi[x] + 1, xparent[x])
  BY DEF Fetch, Render, WriteAttachment, WritePdf, WriteMeta
<1>5. /\ Typed("return", m, 0, None) /\ Typed("meta", m, 0, None)
      /\ Typed("attach", m, xi[x] + 1, xparent[x])
      /\ OnPath("return", m, 0, None) /\ OnPath("meta", m, 0, None)
      /\ OnPath("attach", m, xi[x] + 1, xparent[x])
  BY <1>1 DEF Typed, Labels, OnPath
<1> QED BY <1>2, <1>3, <1>4, <1>5, GoToKeeps

(* The walk down to the folder of the mail.                                *)
LEMMA WalkKeeps ==
  ASSUME FilingInv, NEW x \in Executors,
         CacheGet(x) \/ ListFolders(x) \/ FoldersReached(x)
  PROVE  FilingInv'
<1> DEFINE m == xmail[x]
           i == xi[x]
           here == xparent[x]
<1>1. /\ m \in Mails /\ i \in 1..3 /\ here \in Nat \cup {Root, None}
      /\ Walked(here, m, i - 1)
  BY DEF CacheGet, ListFolders, FoldersReached, FilingInv, WalkTypeOK, ExecTypeOK,
         Typed, ParentSound, OnPath
<1>2. UNCHANGED <<cache, folders>>
  BY DEF CacheGet, ListFolders, FoldersReached, driveVars
<1>3. OutsideTypeOK'
  BY DEF CacheGet, ListFolders, FoldersReached, Fault, diskVars, driveVars,
         FilingInv, WalkTypeOK, OutsideTypeOK, FaultsTypeOK
<1>4. CASE CacheGet(x)
  <2>1. i \in 1..2 /\ PathTo(m, i) \in Paths
    BY <1>1, <1>4, PathFacts DEF CacheGet
  <2>2. CASE GoTo(x, "list", i, here)
    <3>1. Typed("list", m, i, here) /\ OnPath("list", m, i, here)
      BY <1>1, <2>1 DEF Typed, Labels, OnPath
    <3> QED BY <1>2, <1>3, <2>2, <3>1, GoToKeeps
  <2>3. CASE /\ cache[PathTo(m, i)] # None
             /\ GoTo(x, "lookup", i + 1, cache[PathTo(m, i)])
    <3> DEFINE id == cache[PathTo(m, i)]
    <3>1. id \in Nat \cup {Root, None}
      BY <2>1 DEF FilingInv, WalkTypeOK, OutsideTypeOK
    <3>2. Walked(id, m, i)
      BY <2>1, <2>3 DEF FilingInv, CacheSound, Walked
    <3>3. i + 1 \in 1..3 /\ (i + 1) - 1 = i
      BY <2>1
    <3>4. Typed("lookup", m, i + 1, id) /\ OnPath("lookup", m, i + 1, id)
      BY <1>1, <3>1, <3>2, <3>3 DEF Typed, Labels, OnPath
    <3> HIDE DEF id
    <3> QED BY <1>2, <1>3, <2>3, <3>4, GoToKeeps DEF id
  <2> QED BY <1>4, <2>2, <2>3 DEF CacheGet, Below
<1>5. CASE ListFolders(x)
  <2>1. i \in 1..2
    BY <1>5 DEF ListFolders, FilingInv, WalkTypeOK, ExecTypeOK, Typed
  <2>2. CASE GoTo(x, "create", i, here)
    <3>1. Typed("create", m, i, here) /\ OnPath("create", m, i, here)
      BY <1>1, <2>1 DEF Typed, Labels, OnPath
    <3> QED BY <1>2, <1>3, <2>2, <3>1, GoToKeeps
  <2>3. ASSUME NEW f \in Subfolders(here, Chain(m)[i]), GoTo(x, "set", i, f.id)
        PROVE  FilingInv'
    <3>1. f \in folders /\ f.parent = here /\ f.name = Chain(m)[i]
      BY <2>3 DEF Subfolders
    <3>2. Walked(f.id, m, i)
      BY <1>1, <2>1, <3>1, OneLevelDown
    <3>3. f.id \in Nat
      BY <3>1 DEF FilingInv, WalkTypeOK, OutsideTypeOK
    <3>4. Typed("set", m, i, f.id) /\ OnPath("set", m, i, f.id)
      BY <1>1, <2>1, <3>2, <3>3 DEF Typed, Labels, OnPath
    <3> QED BY <1>2, <1>3, <2>3, <3>4, GoToKeeps
  <2> QED BY <1>5, <2>2, <2>3 DEF ListFolders
<1>6. CASE FoldersReached(x)
  <2>1. i = 3 /\ Walked(here, m, 2)
    BY <1>1, <1>6 DEF FoldersReached
  <2>2. Typed("find", m, 0, here) /\ OnPath("find", m, 0, here)
    BY <1>1, <2>1, PathFacts DEF Typed, Labels, OnPath, Parts
  <2>3. GoTo(x, "find", 0, here)
    BY <1>6 DEF FoldersReached
  <2> QED BY <1>2, <1>3, <2>2, <2>3, GoToKeeps
<1> QED BY <1>4, <1>5, <1>6

(* A new folder is below the one the worker has come to.                   *)
LEMMA CreateKeeps ==
  ASSUME FilingInv, NEW x \in Executors, CreateFolder(x)
  PROVE  FilingInv'
<1> DEFINE m == xmail[x]
           i == xi[x]
           new == [id |-> nextId, parent |-> xparent[x], name |-> Chain(m)[i]]
<1>1. /\ m \in Mails /\ i \in 1..2 /\ nextId \in Nat
      /\ Walked(xparent[x], m, i - 1)
  BY DEF CreateFolder, FilingInv, WalkTypeOK, ExecTypeOK, OutsideTypeOK, Typed,
         ParentSound, OnPath
<1>2. folders \subseteq folders' /\ new \in folders' /\ xmail' = xmail
  BY DEF CreateFolder, GoTo
<1>3. Walked(xparent[x], m, i - 1) => xparent[x] \in Nat \cup {Root}
  BY <1>1 DEF Walked, AtPath, FilingInv, WalkTypeOK, OutsideTypeOK
<1>4. OutsideTypeOK'
  <2>1. Chain(m)[i] \in Names
    BY <1>1, PathFacts
  <2>2. \A f \in folders' : /\ f.id \in Nat /\ f.parent \in Nat \cup {Root}
                            /\ f.name \in Names
    BY <1>1, <1>3, <2>1 DEF CreateFolder, FilingInv, WalkTypeOK, OutsideTypeOK
  <2> QED BY <2>2 DEF CreateFolder, Created, diskVars, FilingInv, WalkTypeOK,
                      OutsideTypeOK, FaultsTypeOK
<1>5. ExecTypeOK'
  <2>1. Typed("set", m, i, nextId)
    BY <1>1 DEF Typed, Labels
  <2> QED BY <2>1, GoToTyped DEF CreateFolder, FilingInv, WalkTypeOK
<1>6. CacheSound'
  BY <1>2, CacheStays DEF CreateFolder, FilingInv
<1>7. ParentSound'
  <2>1. PICK id \in Nat : id = nextId
    BY <1>1
  <2>2. PICK k \in 1..2 : k = i
    BY <1>1
  <2>3. PICK mail \in Mails : mail = m
    BY <1>1
  <2>4. PICK f \in folders' : f = new
    BY <1>2
  <2>5. f.parent = xparent[x] /\ f.id = id /\ f.name = Chain(mail)[k]
    BY <2>1, <2>2, <2>3, <2>4
  <2>6. Walked(id, mail, k)'
    <3>1. CASE k = 1
      <4>1. f.parent = Root /\ f.name = DayOf[mail]
        BY <1>1, <2>2, <2>3, <2>5, <3>1, PathFacts DEF Walked
      <4> QED BY <2>5, <3>1, <4>1, PathFacts DEF Walked, AtPath
    <3>2. CASE k = 2
      <4>1. AtPath(xparent[x], PathTo(mail, 1))
        BY <1>1, <2>2, <2>3, <3>2 DEF Walked
      <4>2. PICK d \in folders : /\ d.parent = Root /\ d.name = DayOf[mail]
                                 /\ xparent[x] = d.id
        BY <4>1, PathFacts DEF AtPath
      <4>3. f.parent = d.id /\ f.name = FolderOf[mail] /\ d \in folders'
        BY <1>2, <2>5, <3>2, <4>2, PathFacts
      <4> QED BY <2>5, <3>2, <4>2, <4>3, PathFacts DEF Walked, AtPath
    <3> QED BY <3>1, <3>2
  <2>7. OnPath("set", xmail[x], k, id)'
    BY <1>2, <2>3, <2>6 DEF OnPath, Walked, AtPath
  <2>8. GoTo(x, "set", k, id)
    BY <2>1, <2>2 DEF CreateFolder
  <2> QED BY <1>2, <2>7, <2>8, OneMoves DEF FilingInv, WalkTypeOK
<1> QED BY <1>4, <1>5, <1>6, <1>7 DEF FilingInv, WalkTypeOK

(* The entry written is the folder the worker has come to.                 *)
LEMMA CacheSetKeeps ==
  ASSUME FilingInv, NEW x \in Executors, CacheSet(x)
  PROVE  FilingInv'
<1> DEFINE m == xmail[x]
           i == xi[x]
           here == xparent[x]
<1>1. /\ m \in Mails /\ i \in 1..2 /\ here \in Nat \cup {Root, None}
      /\ Walked(here, m, i) /\ PathTo(m, i) \in Paths
  BY PathFacts DEF CacheSet, FilingInv, WalkTypeOK, ExecTypeOK, Typed,
                   ParentSound, OnPath
<1>2. /\ folders' = folders /\ GoTo(x, "lookup", i + 1, here)
      /\ cache' = cache \/ cache' = [cache EXCEPT ![PathTo(m, i)] = here]
  BY DEF CacheSet, driveVars, Below
<1>3. OutsideTypeOK'
  <2>1. cache' \in [Paths -> Nat \cup {Root, None}]
    BY <1>1, <1>2 DEF FilingInv, WalkTypeOK, OutsideTypeOK
  <2> QED BY <2>1 DEF CacheSet, Fault, diskVars, driveVars, FilingInv, WalkTypeOK,
                      OutsideTypeOK, FaultsTypeOK
<1>4. ExecTypeOK'
  <2>1. Typed("lookup", m, i + 1, here)
    BY <1>1 DEF Typed, Labels
  <2> QED BY <1>2, <2>1, GoToTyped DEF FilingInv, WalkTypeOK
<1>5. CacheSound'
  <2> SUFFICES ASSUME NEW path \in Paths, cache'[path] # None
               PROVE  AtPath(cache[path], path)'
    BY DEF CacheSound
  <2>1. CASE cache'[path] = cache[path]
    <3>1. AtPath(cache[path], path)
      BY <2>1 DEF FilingInv, CacheSound
    <3> QED BY <1>2, <2>1, <3>1 DEF AtPath
  <2>2. CASE path = PathTo(m, i) /\ cache'[path] = here
    <3>1. AtPath(here, path)
      BY <1>1, <2>2 DEF Walked
    <3> QED BY <1>2, <2>2, <3>1 DEF AtPath
  <2> QED BY <1>1, <1>2, <2>1, <2>2 DEF FilingInv, WalkTypeOK, OutsideTypeOK
<1>6. ParentSound'
  <2>1. PICK k \in 1..2, parent \in Nat \cup {Root, None} : k = i /\ parent = here
    BY <1>1
  <2>2. k + 1 \in 1..3 /\ (k + 1) - 1 = k
    BY <2>1
  <2>3. OnPath("lookup", m, k + 1, parent)
    BY <1>1, <2>1, <2>2 DEF OnPath
  <2>4. OnPath("lookup", xmail[x], k + 1, parent)'
    BY <1>2, <2>3 DEF OnPath, Walked, AtPath, GoTo
  <2>5. GoTo(x, "lookup", k + 1, parent)
    BY <1>2, <2>1
  <2> QED BY <1>2, <2>4, <2>5, OneMoves DEF FilingInv, WalkTypeOK
<1> QED BY <1>3, <1>4, <1>5, <1>6 DEF FilingInv, WalkTypeOK

(* The parts of the mail go to the folder the walk has ended at.           *)
LEMMA PartsKeep ==
  ASSUME FilingInv, NEW x \in Executors, FindFile(x) \/ PutFile(x)
  PROVE  FilingInv'
<1> DEFINE m == xmail[x]
           p == xi[x]
           here == xparent[x]
<1>1. /\ m \in Mails /\ p \in Parts(m) /\ here \in Nat \cup {Root, None}
      /\ Walked(here, m, 2)
  BY DEF FindFile, PutFile, FilingInv, WalkTypeOK, ExecTypeOK, Typed,
         ParentSound, OnPath
<1>2. UNCHANGED <<cache, folders>>
  BY DEF FindFile, PutFile, driveVars
<1>3. OutsideTypeOK'
  BY DEF FindFile, PutFile, Created, diskVars, driveVars, FilingInv, WalkTypeOK,
         OutsideTypeOK, FaultsTypeOK
<1>4. Len(Attachments[m]) \in Nat /\ p \in Nat
  BY <1>1, PathFacts DEF Parts
<1>5. \/ GoTo(x, "put", p, here)
      \/ GoTo(x, "return", p + 1, here)
      \/ p # Len(Attachments[m]) /\ GoTo(x, "find", p + 1, here)
  BY DEF FindFile, PutFile, NextPart
<1>6. CASE GoTo(x, "put", p, here)
  <2>1. Typed("put", m, p, here) /\ OnPath("put", m, p, here)
    BY <1>1, <1>4 DEF Typed, Labels, OnPath
  <2> QED BY <1>2, <1>3, <1>6, <2>1, GoToKeeps
<1>7. CASE GoTo(x, "return", p + 1, here)
  <2>1. Typed("return", m, p + 1, here) /\ OnPath("return", m, p + 1, here)
    BY <1>1, <1>4 DEF Typed, Labels, OnPath
  <2> QED BY <1>2, <1>3, <1>7, <2>1, GoToKeeps
<1>8. CASE p # Len(Attachments[m]) /\ GoTo(x, "find", p + 1, here)
  <2>1. p + 1 \in Parts(m) /\ p + 1 \in Nat
    BY <1>1, <1>4, <1>8 DEF Parts
  <2>2. Typed("find", m, p + 1, here) /\ OnPath("find", m, p + 1, here)
    BY <1>1, <2>1 DEF Typed, Labels, OnPath
  <2> QED BY <1>2, <1>3, <1>8, <2>2, GoToKeeps
<1> QED BY <1>5, <1>6, <1>7, <1>8

LEMMA ExpiryKeeps ==
  ASSUME FilingInv, NEW path \in Paths, CacheExpires(path)
  PROVE  FilingInv'
<1>1. OutsideTypeOK'
  BY DEF CacheExpires, diskVars, driveVars, FilingInv, WalkTypeOK, OutsideTypeOK,
         FaultsTypeOK
<1>2. ExecTypeOK'
  BY DEF CacheExpires, execVars, FilingInv, WalkTypeOK, ExecTypeOK, Typed, Parts
<1>3. CacheSound'
  <2> SUFFICES ASSUME NEW q \in Paths, cache'[q] # None
               PROVE  AtPath(cache[q], q)'
    BY DEF CacheSound
  <2>1. cache'[q] = cache[q]
    BY DEF CacheExpires, FilingInv, WalkTypeOK, OutsideTypeOK
  <2>2. AtPath(cache[q], q)
    BY <2>1 DEF FilingInv, CacheSound
  <2> QED BY <2>1, <2>2 DEF AtPath, CacheExpires, driveVars
<1>4. ParentSound'
  BY DEF CacheExpires, execVars, driveVars, FilingInv, ParentSound, OnPath,
         Walked, AtPath
<1> QED BY <1>1, <1>2, <1>3, <1>4 DEF FilingInv, WalkTypeOK

LEMMA TrashKeeps ==
  ASSUME FilingInv, NEW f \in folders, UserTrashes(f)
  PROVE  FilingInv'
<1>1. WalkTypeOK'
  BY DEF UserTrashes, Fault, diskVars, execVars, FilingInv, WalkTypeOK, ExecTypeOK,
         OutsideTypeOK, Typed, Parts, FaultsTypeOK
<1>2. CacheSound'
  BY DEF UserTrashes, FilingInv, CacheSound, AtPath
<1>3. ParentSound'
  BY DEF UserTrashes, execVars, FilingInv, ParentSound, OnPath, Walked, AtPath
<1> QED BY <1>1, <1>2, <1>3 DEF FilingInv

LEMMA StutterKeeps ==
  ASSUME FilingInv, UNCHANGED vars
  PROVE  FilingInv'
<1>1. WalkTypeOK'
  BY DEF vars, diskVars, driveVars, execVars, FilingInv, WalkTypeOK, ExecTypeOK,
         OutsideTypeOK, Typed, Parts, FaultsTypeOK
<1>2. CacheSound'
  BY DEF vars, driveVars, FilingInv, CacheSound, AtPath
<1>3. ParentSound'
  BY DEF vars, driveVars, execVars, FilingInv, ParentSound, OnPath, Walked, AtPath
<1> QED BY <1>1, <1>2, <1>3 DEF FilingInv

(* Every step of the module keeps the invariant.                           *)
LEMMA NextKeeps == FilingInv /\ [Next]_vars => FilingInv'
<1> SUFFICES ASSUME FilingInv, [Next]_vars PROVE FilingInv'
  OBVIOUS
<1>1. ASSUME NEW x \in Executors, NEW m \in Mails, Take(x, m) PROVE FilingInv'
  BY <1>1, TakeKeeps
<1>2. ASSUME NEW x \in Executors, Fetch(x) \/ Render(x) PROVE FilingInv'
  BY <1>2, LocalKeeps
<1>3. ASSUME NEW x \in Executors, Upload(x) PROVE FilingInv'
  BY <1>3, WalkKeeps, CreateKeeps, CacheSetKeeps, PartsKeep DEF Upload
<1>4. ASSUME NEW x \in Executors, Return(x) \/ Interrupted(x) PROVE FilingInv'
  BY <1>4, EndsKeep
<1>5. ASSUME NEW path \in Paths, CacheExpires(path) PROVE FilingInv'
  BY <1>5, ExpiryKeeps
<1>6. ASSUME NEW f \in folders, UserTrashes(f) PROVE FilingInv'
  BY <1>6, TrashKeeps
<1> QED BY <1>1, <1>2, <1>3, <1>4, <1>5, <1>6, StutterKeeps DEF Next

-----------------------------------------------------------------------------
(* The ids of Drive, and what is in its trash.                             *)

LEMMA CreatedIds ==
  ASSUME IdsTypeOK, nextId \in Nat, NEW parent, Created(parent),
         NEW new, new.id = nextId, folders' \cup files' = folders \cup files \cup {new}
  PROVE  IdsTypeOK'
<1>1. nextId' = nextId + 1 /\ trashed' \subseteq trashed \cup {nextId}
  BY DEF Created
<1>2. 0..(nextId' - 1) = 0..(nextId - 1) \cup {nextId}
  BY <1>1
<1>3. \A f \in folders' \cup files' : f.id \in 0..(nextId' - 1)
  BY <1>2 DEF IdsTypeOK
<1>4. trashed' \subseteq 0..(nextId' - 1)
  BY <1>1, <1>2 DEF IdsTypeOK
<1> QED BY <1>3, <1>4 DEF IdsTypeOK

LEMMA IdsKept == FilingInv /\ IdsTypeOK /\ [Next]_vars => IdsTypeOK'
<1> SUFFICES ASSUME FilingInv, IdsTypeOK, [Next]_vars PROVE IdsTypeOK'
  OBVIOUS
<1>1. nextId \in Nat
  BY DEF FilingInv, WalkTypeOK, OutsideTypeOK
<1>2. CASE UNCHANGED driveVars
  BY <1>2 DEF driveVars, IdsTypeOK
<1>3. ASSUME NEW x \in Executors, CreateFolder(x) PROVE IdsTypeOK'
  <2> DEFINE new == [id |-> nextId, parent |-> xparent[x],
                     name |-> Chain(xmail[x])[xi[x]]]
  <2>1. /\ folders' = folders \cup {new} /\ files' = files
        /\ Created(xparent[x]) /\ new.id = nextId
    BY <1>3 DEF CreateFolder
  <2> HIDE DEF new
  <2>2. folders' \cup files' = folders \cup files \cup {new}
    BY <2>1
  <2> QED BY <1>1, <2>1, <2>2, CreatedIds
<1>4. ASSUME NEW x \in Executors, PutFile(x) PROVE IdsTypeOK'
  <2> DEFINE new == [id |-> nextId, parent |-> xparent[x],
                     name |-> FileName(xmail[x], xi[x]), mail |-> xmail[x],
                     part |-> OnDisk(xmail[x], xi[x])]
  <2>1. /\ files' = files \cup {new} /\ folders' = folders
        /\ Created(xparent[x]) /\ new.id = nextId
    BY <1>4 DEF PutFile
  <2> HIDE DEF new
  <2>2. folders' \cup files' = folders \cup files \cup {new}
    BY <2>1
  <2> QED BY <1>1, <2>1, <2>2, CreatedIds
<1>5. ASSUME NEW f \in folders, UserTrashes(f) PROVE IdsTypeOK'
  BY <1>5 DEF UserTrashes, IdsTypeOK
<1>6. \/ UNCHANGED driveVars
      \/ \E x \in Executors : CreateFolder(x) \/ PutFile(x)
      \/ \E f \in folders : UserTrashes(f)
  BY DEF Next, vars, Take, Fetch, Render, WriteAttachment, WritePdf, WriteMeta,
         Return, Interrupted, Upload, CacheGet, ListFolders, CacheSet,
         FoldersReached, FindFile, CacheExpires
<1> QED BY <1>2, <1>3, <1>4, <1>5, <1>6

(* A folder in the trash that is not in use cannot come into use: it is    *)
(* not listed, its id is not given away again, and the cache is written    *)
(* with what a worker holds.                                               *)
LEMMA ForgottenStays ==
  ASSUME FilingInv, IdsTypeOK, [Next]_vars, NEW id \in trashed, ~InUse(id)
  PROVE  ~InUse(id)'
<1>1. id \in Nat /\ id # Root /\ id # None /\ id # nextId
  BY FilingAssumption DEF IdsTypeOK, FilingInv, WalkTypeOK, OutsideTypeOK
<1>2. /\ \A path \in Paths : cache[path] # id
      /\ \A x \in Executors : xparent[x] # id
  BY DEF InUse
<1>3. /\ xparent \in [Executors -> Nat \cup {Root, None}]
      /\ cache \in [Paths -> Nat \cup {Root, None}]
  BY DEF FilingInv, WalkTypeOK, ExecTypeOK, OutsideTypeOK
<1>4. ASSUME NEW x \in Executors, NEW pc, NEW i, NEW parent, parent # id,
             GoTo(x, pc, i, parent), UNCHANGED cache
      PROVE  ~InUse(id)'
  BY <1>2, <1>3, <1>4 DEF GoTo, InUse
<1>5. ASSUME NEW x \in Executors, Leave(x), UNCHANGED cache
      PROVE  ~InUse(id)'
  BY <1>1, <1>2, <1>3, <1>5 DEF Leave, InUse
<1>6. ASSUME NEW x \in Executors, NEW m \in Mails, Take(x, m) PROVE ~InUse(id)'
  BY <1>1, <1>2, <1>3, <1>6 DEF Take, InUse
<1>7. ASSUME NEW x \in Executors, Return(x) \/ Interrupted(x) PROVE ~InUse(id)'
  BY <1>5, <1>7 DEF Return, Interrupted
<1>8. ASSUME NEW x \in Executors, Fetch(x) \/ Render(x) PROVE ~InUse(id)'
  BY <1>1, <1>2, <1>4, <1>8 DEF Fetch, Render, WriteAttachment, WritePdf, WriteMeta
<1>9. ASSUME NEW x \in Executors, CacheGet(x) PROVE ~InUse(id)'
  <2>1. xmail[x] \in Mails /\ xi[x] \in 1..2 /\ UNCHANGED cache
    BY <1>9 DEF CacheGet, FilingInv, WalkTypeOK, ExecTypeOK, Typed, ParentSound,
                OnPath
  <2>2. Below(x) \in Paths
    BY <2>1, PathFacts DEF Below
  <2> QED BY <1>2, <1>4, <1>9, <2>1, <2>2 DEF CacheGet
<1>10. ASSUME NEW x \in Executors, ListFolders(x) PROVE ~InUse(id)'
  BY <1>2, <1>4, <1>10 DEF ListFolders, Subfolders
<1>11. ASSUME NEW x \in Executors, CreateFolder(x) PROVE ~InUse(id)'
  BY <1>1, <1>4, <1>11 DEF CreateFolder
<1>12. ASSUME NEW x \in Executors, CacheSet(x) PROVE ~InUse(id)'
  <2>1. /\ cache' = cache \/ cache' = [cache EXCEPT ![Below(x)] = xparent[x]]
        /\ GoTo(x, "lookup", xi[x] + 1, xparent[x])
    BY <1>12 DEF CacheSet
  <2>2. \A path \in Paths : cache'[path] # id
    BY <1>2, <1>3, <2>1
  <2>3. \A y \in Executors : xparent'[y] # id
    BY <1>2, <1>3, <2>1 DEF GoTo
  <2> QED BY <2>2, <2>3 DEF InUse
<1>13. ASSUME NEW x \in Executors, FoldersReached(x) \/ FindFile(x) \/ PutFile(x)
       PROVE  ~InUse(id)'
  BY <1>2, <1>4, <1>13 DEF FoldersReached, FindFile, PutFile, NextPart
<1>14. ASSUME NEW path \in Paths, CacheExpires(path) PROVE ~InUse(id)'
  BY <1>1, <1>2, <1>3, <1>14 DEF CacheExpires, execVars, InUse
<1>15. ASSUME NEW f \in folders, UserTrashes(f) PROVE ~InUse(id)'
  BY <1>2, <1>15 DEF UserTrashes, execVars, InUse
<1>16. CASE UNCHANGED vars
  BY <1>2, <1>16 DEF vars, execVars, InUse
<1> QED BY <1>6, <1>7, <1>8, <1>9, <1>10, <1>11, <1>12, <1>13, <1>14, <1>15,
           <1>16 DEF Next, Upload

-----------------------------------------------------------------------------
(* The variables keep their types; a worker on the walk is at one of the   *)
(* folders of its mail, and one that uploads at one of its parts           *)
(* (upload.go:95, upload.go:123).                                          *)
THEOREM FilingTypeCorrect == Spec => []TypeOK
<1>1. Init => IdsTypeOK
  BY DEF Init, IdsTypeOK
<1>2. FilingInv /\ IdsTypeOK => TypeOK
  BY DEF FilingInv, WalkTypeOK, TypeOK
<1> QED BY <1>1, <1>2, InitKeeps, NextKeeps, IdsKept, PTL DEF Spec

(* Whoever wins the race to create a folder, and whichever writes of the   *)
(* cache fail or expire, an entry names a folder at its path (upload.go:94,*)
(* cache.go:33).                                                           *)
THEOREM CacheTellsTruth == Spec => []CacheSound
<1>1. FilingInv => CacheSound
  BY DEF FilingInv
<1> QED BY <1>1, InitKeeps, NextKeeps, PTL DEF Spec

(* What a worker uploads goes to a folder at the path of its own mail      *)
(* (upload.go:94-128): the invariant couples it with CacheSound, since the *)
(* walk may take each of its steps from the cache.                         *)
THEOREM UploadsOnPath == Spec => []ParentSound
<1>1. FilingInv => ParentSound
  BY DEF FilingInv
<1> QED BY <1>1, InitKeeps, NextKeeps, PTL DEF Spec

(* A folder in the trash that has left the cache and the workers is never  *)
(* filed into again, nor cached (client.go:56, upload.go:101-109).         *)
THEOREM TrashStaysForgotten == Spec => TrashForgotten
<1>1. Init => IdsTypeOK
  BY DEF Init, IdsTypeOK
<1>2. FilingInv /\ IdsTypeOK /\ [Next]_vars =>
        [\A id \in trashed : ~InUse(id) => ~InUse(id)']_vars
  BY ForgottenStays
<1> QED BY <1>1, <1>2, InitKeeps, NextKeeps, IdsKept, PTL DEF Spec, TrashForgotten

-----------------------------------------------------------------------------
(* No file twice.                                                          *)

(* Each mail has a folder of its own: no two mails of a day have subject,  *)
(* sender and minute in common (paths.go:38).                              *)
OwnFolder == \A m, n \in Mails : Chain(m) = Chain(n) => m = n

OneHolder ==
  \A x, y \in Executors : xmail[x] # None /\ xmail[x] = xmail[y] => x = y

UniqueFolders == \A f, g \in folders : f.id = g.id => f = g

(* The worker about to upload has found no file of the name, and nobody    *)
(* has put one there since.                                                *)
EmptyAtPut ==
  \A x \in Executors :
    xpc[x] = "put" => Named(xparent[x], FileName(xmail[x], xi[x])) = {}

TwinInv == OneHolder /\ UniqueFolders /\ EmptyAtPut /\ NoTwinFiles

(* Every step moves at most one worker.                                    *)
Stays(y) == /\ xpc'[y] = xpc[y] /\ xmail'[y] = xmail[y]
            /\ xi'[y] = xi[y] /\ xparent'[y] = xparent[y]

LEMMA Moved ==
  ASSUME ExecTypeOK, NEW x \in Executors
  PROVE  /\ \A pc, i, parent : GoTo(x, pc, i, parent) =>
              /\ xpc'[x] = pc /\ xmail'[x] = xmail[x]
              /\ xi'[x] = i /\ xparent'[x] = parent
              /\ \A y \in Executors \ {x} : Stays(y)
         /\ Leave(x) => /\ xpc'[x] = "idle" /\ xmail'[x] = None
                        /\ \A y \in Executors \ {x} : Stays(y)
         /\ \A m : Take(x, m) => /\ xpc'[x] = FirstStep[stage[m]] /\ xmail'[x] = m
                                 /\ xi'[x] = 1
                                 /\ \A y \in Executors \ {x} : Stays(y)
  BY DEF ExecTypeOK, GoTo, Leave, Take, Stays

(* A worker takes a mail, keeps it or leaves it.                           *)
LEMMA StepShape ==
  ASSUME [Next]_vars
  PROVE  \/ UNCHANGED xmail
         \/ \E x \in Executors : Leave(x)
         \/ \E x \in Executors, m \in Mails : Take(x, m)
<1>1. CASE UNCHANGED vars
  BY <1>1 DEF vars, execVars
<1>2. ASSUME NEW x \in Executors, Fetch(x) \/ Render(x) \/ Upload(x)
      PROVE  UNCHANGED xmail
  BY <1>2 DEF Fetch, Render, WriteAttachment, WritePdf, WriteMeta, Upload, CacheGet,
              ListFolders, CreateFolder, CacheSet, FoldersReached, FindFile, PutFile,
              NextPart, GoTo
<1>3. ASSUME NEW path \in Paths, CacheExpires(path) PROVE UNCHANGED xmail
  BY <1>3 DEF CacheExpires, execVars
<1>4. ASSUME NEW f \in folders, UserTrashes(f) PROVE UNCHANGED xmail
  BY <1>4 DEF UserTrashes, execVars
<1>. QED
  BY <1>1, <1>2, <1>3, <1>4 DEF Next, Return, Interrupted

(* Two workers never hold one mail: it is taken only when nobody has it.   *)
LEMMA HolderStep ==
  ASSUME FilingInv, OneHolder, [Next]_vars
  PROVE  OneHolder'
<1>0. ExecTypeOK
  BY DEF FilingInv, WalkTypeOK
<1>1. CASE UNCHANGED xmail
  BY <1>1 DEF OneHolder
<1>2. ASSUME NEW x \in Executors, Leave(x) PROVE OneHolder'
  BY <1>0, <1>2, Moved DEF OneHolder, Stays
<1>3. ASSUME NEW x \in Executors, NEW m \in Mails, Take(x, m) PROVE OneHolder'
  <2>1. xmail'[x] = m /\ \A y \in Executors \ {x} : xmail'[y] = xmail[y] /\ xmail[y] # m
    BY <1>0, <1>3, Moved DEF Stays, Take
  <2>. QED
    BY <2>1 DEF OneHolder
<1>. QED
  BY <1>1, <1>2, <1>3, StepShape

(* An id names one folder: Drive gives none away twice.                    *)
LEMMA FoldersStep ==
  ASSUME FilingInv, IdsTypeOK, UniqueFolders, [Next]_vars
  PROVE  UniqueFolders' /\ folders \subseteq folders'
<1>1. CASE UNCHANGED folders
  BY <1>1 DEF UniqueFolders
<1>2. ASSUME NEW x \in Executors, CreateFolder(x)
      PROVE  UniqueFolders' /\ folders \subseteq folders'
  <2> DEFINE new == [id |-> nextId, parent |-> xparent[x],
                     name |-> Chain(xmail[x])[xi[x]]]
  <2>1. folders' = folders \cup {new} /\ new.id = nextId
    BY <1>2 DEF CreateFolder
  <2> HIDE DEF new
  <2>2. \A f \in folders : f.id # nextId
    BY DEF IdsTypeOK, FilingInv, WalkTypeOK, OutsideTypeOK
  <2>. QED
    BY <2>1, <2>2 DEF UniqueFolders
<1>. QED
  BY <1>1, <1>2
     DEF Next, vars, driveVars, Take, Fetch, Render, WriteAttachment, WritePdf,
         WriteMeta, Return, Interrupted, Upload, CacheGet, ListFolders, CacheSet,
         FoldersReached, FindFile, PutFile, CacheExpires, UserTrashes

(* A folder is at the path of one mail.                                    *)
LEMMA OnePlace ==
  ASSUME OwnFolder, UniqueFolders, NEW id, NEW m \in Mails, NEW n \in Mails,
         AtPath(id, PathTo(m, 2)), AtPath(id, PathTo(n, 2))
  PROVE  m = n
<1>1. PICK d \in folders, f \in folders :
        d.name = DayOf[m] /\ f.id = id /\ f.parent = d.id /\ f.name = FolderOf[m]
  BY PathFacts DEF AtPath
<1>2. PICK e \in folders, g \in folders :
        e.name = DayOf[n] /\ g.id = id /\ g.parent = e.id /\ g.name = FolderOf[n]
  BY PathFacts DEF AtPath
<1>3. f = g /\ d = e
  BY <1>1, <1>2 DEF UniqueFolders
<1>. QED
  BY <1>1, <1>2, <1>3 DEF OwnFolder, Chain

(* A step that puts nothing on Drive and sends nobody to.                  *)
LEMMA TwinQuiet ==
  ASSUME EmptyAtPut, NoTwinFiles, UNCHANGED files, trashed \subseteq trashed',
         \A y \in Executors : Stays(y) \/ xpc'[y] # "put"
  PROVE  EmptyAtPut' /\ NoTwinFiles'
<1>1. ASSUME NEW y \in Executors, xpc'[y] = "put"
      PROVE  Named(xparent[y], FileName(xmail[y], xi[y]))' = {}
  <2>1. /\ Stays(y) /\ xpc[y] = "put"
        /\ Named(xparent[y], FileName(xmail[y], xi[y])) = {}
    BY <1>1 DEF Stays, EmptyAtPut
  <2>2. FileName(xmail[y], xi[y])' = FileName(xmail[y], xi[y])
    BY <2>1 DEF Stays, FileName
  <2>. QED
    BY <2>1, <2>2 DEF Stays, Named
<1>2. EmptyAtPut'
  BY <1>1 DEF EmptyAtPut
<1>3. NoTwinFiles'
  BY DEF NoTwinFiles
<1>. QED
  BY <1>2, <1>3

(* An upload: nobody else is about to upload into this folder.             *)
LEMMA TwinPut ==
  ASSUME OwnFolder, FilingInv, TwinInv, NEW x \in Executors, PutFile(x)
  PROVE  EmptyAtPut' /\ NoTwinFiles'
<1> DEFINE new == [id |-> nextId, parent |-> xparent[x],
                   name |-> FileName(xmail[x], xi[x]), mail |-> xmail[x],
                   part |-> OnDisk(xmail[x], xi[x])]
<1>1. /\ files' = files \cup {new} /\ xpc[x] = "put" /\ NextPart(x)
      /\ trashed \subseteq trashed'
  BY DEF PutFile, Created
<1>2. new.parent = xparent[x] /\ new.name = FileName(xmail[x], xi[x])
  OBVIOUS
<1> HIDE DEF new
<1>3. ExecTypeOK /\ OneHolder /\ UniqueFolders /\ EmptyAtPut /\ NoTwinFiles
  BY DEF FilingInv, WalkTypeOK, TwinInv
<1>4. \A y \in Executors \ {x} : Stays(y)
  BY <1>1, <1>3, Moved DEF NextPart
<1>5. xpc'[x] # "put"
  <2>1. xpc'[x] = IF xi[x] = Len(Attachments[xmail[x]]) THEN "return" ELSE "find"
    BY <1>1, <1>3, Moved DEF NextPart
  <2>. QED
    BY <2>1
<1>6. ASSUME NEW y \in Executors, xpc'[y] = "put"
      PROVE  Named(xparent[y], FileName(xmail[y], xi[y]))' = {}
  <2>1. y # x /\ Stays(y) /\ xpc[y] = "put"
    BY <1>4, <1>5, <1>6 DEF Stays
  <2>2. /\ xmail[x] \in Mails /\ xmail[y] \in Mails
        /\ AtPath(xparent[x], PathTo(xmail[x], 2))
        /\ AtPath(xparent[y], PathTo(xmail[y], 2))
    BY <1>1, <1>3, <2>1 DEF ExecTypeOK, Typed, FilingInv, ParentSound, OnPath, Walked
  <2>3. xmail[x] # xmail[y]
    BY <1>3, <2>1, <2>2, FilingAssumption DEF OneHolder
  <2>4. xparent[x] # xparent[y]
    BY <1>3, <2>2, <2>3, OnePlace
  <2>5. Named(xparent[y], FileName(xmail[y], xi[y])) = {}
    BY <1>3, <2>1 DEF EmptyAtPut
  <2>6. FileName(xmail[y], xi[y])' = FileName(xmail[y], xi[y])
    BY <2>1 DEF Stays, FileName
  <2>. QED
    BY <1>1, <1>2, <2>1, <2>4, <2>5, <2>6 DEF Stays, Named
<1>7. Named(xparent[x], FileName(xmail[x], xi[x])) = {}
  BY <1>1, <1>3 DEF EmptyAtPut
<1>8. NoTwinFiles'
  BY <1>1, <1>2, <1>3, <1>7 DEF NoTwinFiles, Named
<1>. QED
  BY <1>6, <1>8 DEF EmptyAtPut

LEMMA TwinFind ==
  ASSUME FilingInv, TwinInv, NEW x \in Executors, FindFile(x)
  PROVE  EmptyAtPut' /\ NoTwinFiles'
<1>1. ExecTypeOK /\ EmptyAtPut /\ NoTwinFiles /\ UNCHANGED <<files, trashed>>
  BY DEF FilingInv, WalkTypeOK, TwinInv, FindFile, driveVars
<1>2. CASE NextPart(x)
  <2>1. xpc'[x] = IF xi[x] = Len(Attachments[xmail[x]]) THEN "return" ELSE "find"
    BY <1>1, <1>2, Moved DEF NextPart
  <2>2. xpc'[x] # "put"
    BY <2>1
  <2>3. \A y \in Executors \ {x} : Stays(y)
    BY <1>1, <1>2, Moved DEF NextPart
  <2>. QED
    BY <1>1, <2>2, <2>3, TwinQuiet
<1>3. CASE /\ Named(xparent[x], FileName(xmail[x], xi[x])) = {}
           /\ GoTo(x, "put", xi[x], xparent[x])
  <2>1. /\ xmail'[x] = xmail[x] /\ xi'[x] = xi[x] /\ xparent'[x] = xparent[x]
        /\ \A y \in Executors \ {x} : Stays(y)
    BY <1>1, <1>3, Moved
  <2>2. ASSUME NEW y \in Executors, xpc'[y] = "put"
        PROVE  Named(xparent[y], FileName(xmail[y], xi[y]))' = {}
    <3>1. /\ xmail'[y] = xmail[y] /\ xi'[y] = xi[y] /\ xparent'[y] = xparent[y]
          /\ Named(xparent[y], FileName(xmail[y], xi[y])) = {}
      BY <1>1, <1>3, <2>1, <2>2 DEF Stays, EmptyAtPut
    <3>2. FileName(xmail[y], xi[y])' = FileName(xmail[y], xi[y])
      BY <3>1 DEF FileName
    <3>. QED
      BY <1>1, <3>1, <3>2 DEF Named
  <2>. QED
    BY <1>1, <2>2 DEF EmptyAtPut, NoTwinFiles
<1>. QED
  BY <1>2, <1>3 DEF FindFile

LEMMA TwinStep ==
  ASSUME OwnFolder, FilingInv, IdsTypeOK, TwinInv, [Next]_vars
  PROVE  TwinInv'
<1>1. OneHolder' /\ UniqueFolders'
  BY HolderStep, FoldersStep DEF TwinInv
<1>2. /\ ExecTypeOK /\ EmptyAtPut /\ NoTwinFiles
      /\ stage \in [Mails -> {"fetch", "render", "upload", "done"}]
  BY DEF FilingInv, WalkTypeOK, OutsideTypeOK, TwinInv
<1>3. ASSUME NEW x \in Executors, NEW m \in Mails, Take(x, m)
      PROVE  EmptyAtPut' /\ NoTwinFiles'
  <2>1. FirstStep[stage[m]] # "put"
    BY <1>2, <1>3 DEF Take, FirstStep
  <2>2. xpc'[x] # "put" /\ \A y \in Executors \ {x} : Stays(y)
    BY <1>2, <1>3, <2>1, Moved
  <2>. QED
    BY <1>2, <1>3, <2>2, TwinQuiet DEF Take, driveVars
<1>4. ASSUME NEW x \in Executors, Return(x) \/ Interrupted(x)
      PROVE  EmptyAtPut' /\ NoTwinFiles'
  <2>1. xpc'[x] # "put" /\ \A y \in Executors \ {x} : Stays(y)
    BY <1>2, <1>4, Moved DEF Return, Interrupted
  <2>. QED
    BY <1>2, <1>4, <2>1, TwinQuiet DEF Return, Interrupted, driveVars
<1>5. ASSUME NEW x \in Executors,
             Fetch(x) \/ Render(x) \/ CacheGet(x) \/ ListFolders(x) \/ CreateFolder(x)
               \/ CacheSet(x) \/ FoldersReached(x)
      PROVE  EmptyAtPut' /\ NoTwinFiles'
  <2>1. xpc'[x] # "put" /\ \A y \in Executors \ {x} : Stays(y)
    BY <1>2, <1>5, Moved
       DEF Fetch, Render, WriteAttachment, WritePdf, WriteMeta, CacheGet, ListFolders,
           CreateFolder, CacheSet, FoldersReached
  <2>2. UNCHANGED files /\ trashed \subseteq trashed'
    BY <1>5 DEF Fetch, Render, WriteAttachment, WritePdf, WriteMeta, CacheGet,
                ListFolders, CreateFolder, Created, CacheSet, FoldersReached, driveVars
  <2>. QED
    BY <1>2, <2>1, <2>2, TwinQuiet
<1>6. ASSUME NEW x \in Executors, FindFile(x) \/ PutFile(x)
      PROVE  EmptyAtPut' /\ NoTwinFiles'
  BY <1>6, TwinFind, TwinPut
<1>7. ASSUME UNCHANGED <<execVars, files>>, trashed \subseteq trashed'
      PROVE  EmptyAtPut' /\ NoTwinFiles'
  <2>1. \A y \in Executors : Stays(y)
    BY <1>7 DEF execVars, Stays
  <2>. QED
    BY <1>2, <1>7, <2>1, TwinQuiet
<1>8. ASSUME NEW path \in Paths, CacheExpires(path) PROVE EmptyAtPut' /\ NoTwinFiles'
  BY <1>7, <1>8 DEF CacheExpires, driveVars
<1>9. ASSUME NEW f \in folders, UserTrashes(f) PROVE EmptyAtPut' /\ NoTwinFiles'
  <2>1. UNCHANGED <<execVars, files>> /\ trashed \subseteq trashed'
    BY <1>9 DEF UserTrashes
  <2>. QED
    BY <1>7, <2>1
<1>10. ASSUME UNCHANGED vars PROVE EmptyAtPut' /\ NoTwinFiles'
  BY <1>7, <1>10 DEF vars, driveVars
<1>11. EmptyAtPut' /\ NoTwinFiles'
  BY <1>3, <1>4, <1>5, <1>6, <1>8, <1>9, <1>10 DEF Next, Upload
<1>. QED
  BY <1>1, <1>11 DEF TwinInv

(* However often an upload is interrupted and repeated, and however the    *)
(* workers race for a folder, no folder gets two files of one name         *)
(* (client.go:76), if each mail has a folder of its own.                   *)
THEOREM NoFileTwice ==
  ASSUME OwnFolder
  PROVE  Spec => []NoTwinFiles
<1>1. Init => FilingInv /\ IdsTypeOK /\ TwinInv
  BY InitKeeps DEF Init, IdsTypeOK, TwinInv, OneHolder, UniqueFolders, EmptyAtPut,
                   NoTwinFiles
<1>2. FilingInv /\ IdsTypeOK /\ TwinInv /\ [Next]_vars
        => (FilingInv /\ IdsTypeOK /\ TwinInv)'
  BY NextKeeps, IdsKept, TwinStep
<1>3. TwinInv => NoTwinFiles
  BY DEF TwinInv
<1>. QED
  BY <1>1, <1>2, <1>3, PTL DEF Spec

-----------------------------------------------------------------------------
(* Everything is filed.                                                    *)

(* The parts of a mail have names of their own, "email.pdf" included.      *)
OwnNames ==
  \A m \in Mails : \A p, q \in Parts(m) : FileName(m, p) = FileName(m, q) => p = q

(* The attachments before the i-th are on disk, each under its name.       *)
AttachedTo(m, i) ==
  \A p \in 1..Len(Attachments[m]) : p < i => attached[m][FileName(m, p)] = p

(* The parts before the i-th are on Drive, at the path of the mail.        *)
StoredTo(m, i) ==
  \A p \in Parts(m) : p < i =>
    \E f \in files : /\ f.mail = m /\ f.part = p /\ f.name = FileName(m, p)
                     /\ AtPath(f.parent, PathTo(m, 2))

Total(m) == Len(Attachments[m]) + 1

(* Where a worker is tells the stage of its mail, and what is made of it.  *)
MadeSoFar(pc, m, i) ==
  /\ pc = "fetch" => stage[m] = "fetch"
  /\ pc \in {"attach", "meta"} => stage[m] = "render"
  /\ pc \in {"lookup", "list", "create", "set", "find", "put"} => stage[m] = "upload"
  /\ pc = "return" => stage[m] # "done"
  /\ pc = "attach" => AttachedTo(m, i)
  /\ pc = "meta" \/ (pc = "return" /\ stage[m] = "render") => AttachedTo(m, Total(m))
  /\ pc \in {"find", "put"} => StoredTo(m, i)
  /\ pc = "return" /\ stage[m] = "upload" => StoredTo(m, Total(m))

Made == \A x \in Executors : MadeSoFar(xpc[x], xmail[x], xi[x])

(* A finished stage has left behind what the next one needs.               *)
StagesMade ==
  \A m \in Mails : /\ stage[m] \in {"upload", "done"} => AttachedTo(m, Total(m))
                   /\ stage[m] = "done" => StoredTo(m, Total(m))

(* A file is what its name says, at the path of its mail.                  *)
FilesOwned ==
  \A f \in files :
    /\ f.mail \in Mails /\ f.part \in Parts(f.mail)
    /\ f.name = FileName(f.mail, f.part) /\ AtPath(f.parent, PathTo(f.mail, 2))

FiledInv == Made /\ StagesMade /\ FilesOwned

(* What is on Drive stays there.                                           *)
LEMMA StoredStays ==
  ASSUME files \subseteq files', folders \subseteq folders', NEW m, NEW i,
         StoredTo(m, i)
  PROVE  StoredTo(m, i)'
BY AtPathStays DEF StoredTo

LEMMA MadeStays ==
  ASSUME files \subseteq files', folders \subseteq folders', NEW pc, NEW m, NEW i,
         stage'[m] = stage[m], \A j : AttachedTo(m, j) => AttachedTo(m, j)',
         MadeSoFar(pc, m, i)
  PROVE  MadeSoFar(pc, m, i)'
<1>1. StoredTo(m, i) => StoredTo(m, i)'
  BY StoredStays
<1>2. StoredTo(m, Total(m)) => StoredTo(m, Total(m))'
  BY StoredStays
<1>. QED
  BY <1>1, <1>2 DEF MadeSoFar, Total

LEMMA OwnedStays ==
  ASSUME FilesOwned, folders \subseteq folders', UNCHANGED files
  PROVE  FilesOwned'
BY AtPathStays DEF FilesOwned

(* A step that leaves the stages and the attachments alone.                *)
LEMMA MadeMoves ==
  ASSUME FiledInv, FilesOwned', UNCHANGED <<stage, attached>>,
         files \subseteq files', folders \subseteq folders',
         \A y \in Executors :
           Stays(y) \/ MadeSoFar(xpc[y], xmail[y], xi[y])'
  PROVE  FiledInv'
<1>1. \A m, j : AttachedTo(m, j)' <=> AttachedTo(m, j)
  BY DEF AttachedTo
<1>2. ASSUME NEW y \in Executors PROVE MadeSoFar(xpc[y], xmail[y], xi[y])'
  <2>1. CASE Stays(y)
    <3>1. PICK pc, m, i : pc = xpc[y] /\ m = xmail[y] /\ i = xi[y]
      OBVIOUS
    <3>2. MadeSoFar(pc, m, i)
      BY <3>1 DEF FiledInv, Made
    <3>3. MadeSoFar(pc, m, i)'
      BY <1>1, <3>2, MadeStays
    <3>4. xpc'[y] = pc /\ xmail'[y] = m /\ xi'[y] = i
      BY <2>1, <3>1 DEF Stays
    <3>. QED
      BY <3>3, <3>4 DEF MadeSoFar, Total, AttachedTo, StoredTo, AtPath
  <2>. QED
    BY <2>1
<1>3. StagesMade'
  BY <1>1, StoredStays DEF FiledInv, StagesMade
<1>. QED
  BY <1>2, <1>3 DEF FiledInv, Made

LEMMA MadeGoTo ==
  ASSUME ExecTypeOK, FiledInv, FilesOwned', UNCHANGED <<stage, attached>>,
         files \subseteq files', folders \subseteq folders',
         NEW x \in Executors, NEW pc, NEW i, NEW parent, GoTo(x, pc, i, parent),
         NEW m, m = xmail[x], MadeSoFar(pc, m, i)'
  PROVE  FiledInv'
<1>1. /\ xpc'[x] = pc /\ xmail'[x] = m /\ xi'[x] = i
      /\ \A y \in Executors \ {x} : Stays(y)
  BY Moved
<1>2. MadeSoFar(xpc[x], xmail[x], xi[x])'
  BY <1>1 DEF MadeSoFar, Total, AttachedTo, StoredTo, AtPath
<1>. QED
  BY <1>1, <1>2, MadeMoves

(* The part is stored: it has been found, or put.                          *)
LEMMA OneMoreStored ==
  ASSUME ExecTypeOK, FiledInv, FilesOwned', UNCHANGED <<stage, attached>>,
         files \subseteq files', folders \subseteq folders',
         NEW x \in Executors, xpc[x] \in {"find", "put"}, NextPart(x),
         NEW f \in files', f.mail = xmail[x], f.part = xi[x]
  PROVE  FiledInv'
<1>1. PICK m, i : m = xmail[x] /\ i = xi[x]
  OBVIOUS
<1>2. m \in Mails /\ i \in Parts(m) /\ Len(Attachments[m]) \in Nat
  BY <1>1, PathFacts DEF ExecTypeOK, Typed
<1>3. stage[m] = "upload" /\ StoredTo(m, i)
  BY <1>1 DEF FiledInv, Made, MadeSoFar
<1>4. StoredTo(m, i + 1)'
  <2>1. StoredTo(m, i)'
    BY <1>3, StoredStays
  <2>2. f.name = FileName(m, i) /\ AtPath(f.parent, PathTo(m, 2))'
    BY <1>1 DEF FilesOwned, FileName, PathTo, Chain, AtPath
  <2>3. \A p \in Parts(m) : p < i + 1 => p < i \/ p = i
    BY <1>2 DEF Parts
  <2>4. f.mail = m /\ f.part = i
    BY <1>1
  <2>. QED
    BY <2>1, <2>2, <2>3, <2>4 DEF StoredTo
<1>5. CASE i = Len(Attachments[m])
  <2>1. GoTo(x, "return", i + 1, xparent[x])
    BY <1>1, <1>5 DEF NextPart
  <2>2. MadeSoFar("return", m, i + 1)'
    BY <1>3, <1>4, <1>5 DEF MadeSoFar, Total
  <2>. QED
    BY <1>1, <2>1, <2>2, MadeGoTo
<1>6. CASE i # Len(Attachments[m])
  <2>1. GoTo(x, "find", i + 1, xparent[x])
    BY <1>1, <1>6 DEF NextPart
  <2>2. MadeSoFar("find", m, i + 1)'
    BY <1>3, <1>4 DEF MadeSoFar
  <2>. QED
    BY <1>1, <2>1, <2>2, MadeGoTo
<1>. QED
  BY <1>5, <1>6

(* Finding a file of the name: it is this part of this mail.               *)
LEMMA FiledFind ==
  ASSUME OwnFolder, OwnNames, FilingInv, UniqueFolders, FiledInv,
         NEW x \in Executors, FindFile(x)
  PROVE  FiledInv'
<1>1. PICK m, i : m = xmail[x] /\ i = xi[x]
  OBVIOUS
<1>2. /\ ExecTypeOK /\ xpc[x] = "find" /\ m \in Mails /\ i \in Parts(m)
      /\ AtPath(xparent[x], PathTo(m, 2))
  BY <1>1 DEF FilingInv, WalkTypeOK, ExecTypeOK, Typed, FindFile, ParentSound, OnPath,
              Walked
<1>3. UNCHANGED <<stage, attached, files, folders>>
  BY DEF FindFile, diskVars, driveVars
<1>4. FilesOwned'
  BY <1>3, OwnedStays DEF FiledInv
<1>5. CASE GoTo(x, "put", i, xparent[x])
  <2>1. MadeSoFar("find", m, i)
    BY <1>1, <1>2 DEF FiledInv, Made
  <2>2. MadeSoFar("put", m, i)
    BY <2>1 DEF MadeSoFar
  <2>3. MadeSoFar("put", m, i)'
    BY <1>3, <2>2 DEF MadeSoFar, Total, AttachedTo, StoredTo, AtPath
  <2>. QED
    BY <1>1, <1>2, <1>3, <1>4, <1>5, <2>3, MadeGoTo
<1>6. CASE Named(xparent[x], FileName(m, i)) # {} /\ NextPart(x)
  <2>1. PICK f \in files : f.parent = xparent[x] /\ f.name = FileName(m, i)
    BY <1>6 DEF Named
  <2>2. /\ f.mail \in Mails /\ f.part \in Parts(f.mail)
        /\ f.name = FileName(f.mail, f.part) /\ AtPath(f.parent, PathTo(f.mail, 2))
    BY <2>1 DEF FiledInv, FilesOwned
  <2>3. f.mail = m
    BY <1>2, <2>1, <2>2, OnePlace
  <2>4. f.part = i
    BY <1>2, <2>1, <2>2, <2>3 DEF OwnNames
  <2>. QED
    BY <1>1, <1>2, <1>3, <1>4, <1>6, <2>1, <2>3, <2>4, OneMoreStored
<1>. QED
  BY <1>1, <1>5, <1>6 DEF FindFile

(* Putting it: what is on disk under the name is this part.                *)
LEMMA FiledPut ==
  ASSUME FilingInv, FiledInv, NEW x \in Executors, PutFile(x)
  PROVE  FiledInv'
<1>1. PICK m, i : m = xmail[x] /\ i = xi[x]
  OBVIOUS
<1>2. /\ ExecTypeOK /\ xpc[x] = "put" /\ m \in Mails /\ i \in Parts(m)
      /\ AtPath(xparent[x], PathTo(m, 2)) /\ Len(Attachments[m]) \in Nat
  BY <1>1, PathFacts
     DEF FilingInv, WalkTypeOK, ExecTypeOK, Typed, PutFile, ParentSound, OnPath, Walked
<1>3. OnDisk(m, i) = i
  <2>1. AttachedTo(m, Total(m))
    BY <1>1, <1>2 DEF FiledInv, Made, MadeSoFar, StagesMade
  <2>2. i # 0 => i \in 1..Len(Attachments[m]) /\ i < Total(m)
    BY <1>2 DEF Parts, Total
  <2>. QED
    BY <2>1, <2>2 DEF OnDisk, AttachedTo
<1> DEFINE new == [id |-> nextId, parent |-> xparent[x],
                   name |-> FileName(m, i), mail |-> m,
                   part |-> OnDisk(m, i)]
<1>4. /\ files' = files \cup {new} /\ NextPart(x)
      /\ UNCHANGED <<stage, attached, folders>>
  BY <1>1 DEF PutFile, diskVars
<1>5. /\ new.parent = xparent[x] /\ new.name = FileName(m, i) /\ new.mail = m
      /\ new.part = i
  BY <1>3
<1> HIDE DEF new
<1>6. FilesOwned'
  <2>1. ASSUME NEW f \in files'
        PROVE  /\ f.mail \in Mails /\ f.part \in Parts(f.mail)
               /\ f.name = FileName(f.mail, f.part)
               /\ AtPath(f.parent, PathTo(f.mail, 2))
    BY <1>2, <1>4, <1>5 DEF FiledInv, FilesOwned
  <2>2. \A id, path : AtPath(id, path)' <=> AtPath(id, path)
    BY <1>4 DEF AtPath
  <2>. QED
    BY <2>1, <2>2 DEF FilesOwned
<1>7. new \in files' /\ files \subseteq files'
  BY <1>4
<1>. QED
  BY <1>1, <1>2, <1>4, <1>5, <1>6, <1>7, OneMoreStored

(* An attachment is written: over none of the others, and no other mail's. *)
LEMMA FiledAttach ==
  ASSUME OwnNames, FilingInv, OneHolder, FiledInv,
         NEW x \in Executors, WriteAttachment(x)
  PROVE  FiledInv'
<1>1. PICK m, i : m = xmail[x] /\ i = xi[x]
  OBVIOUS
<1>2. /\ ExecTypeOK /\ xpc[x] = "attach" /\ m \in Mails /\ i \in Nat
      /\ Len(Attachments[m]) \in Nat /\ i <= Len(Attachments[m])
      /\ attached \in [Mails -> [Names -> Nat]]
  BY <1>1, PathFacts
     DEF FilingInv, WalkTypeOK, ExecTypeOK, OutsideTypeOK, Typed, WriteAttachment
<1>3. /\ attached' = [attached EXCEPT ![m][FileName(m, i)] = i]
      /\ GoTo(x, "attach", i + 1, xparent[x])
      /\ UNCHANGED <<stage, files, folders>>
  BY <1>1 DEF WriteAttachment, driveVars
<1>4. stage[m] = "render" /\ AttachedTo(m, i)
  BY <1>1, <1>2 DEF FiledInv, Made, MadeSoFar
<1>5. ASSUME NEW n \in Mails, n # m, NEW j PROVE AttachedTo(n, j)' <=> AttachedTo(n, j)
  <2>1. attached'[n] = attached[n]
    BY <1>2, <1>3, <1>5
  <2>. QED
    BY <2>1 DEF AttachedTo
<1>6. AttachedTo(m, i + 1)'
  <2> SUFFICES ASSUME NEW p \in 1..Len(Attachments[m]), p < i + 1
               PROVE  attached'[m][FileName(m, p)] = p
    BY DEF AttachedTo
  <2>1. FileName(m, p) \in Names /\ p \in Parts(m)
    BY <1>2, FilingAssumption DEF FileName, Parts
  <2>2. CASE p = i
    BY <1>2, <1>3, <2>1, <2>2
  <2>3. CASE p # i
    <3>1. p < i /\ i \in Parts(m)
      BY <1>2, <2>3 DEF Parts
    <3>2. FileName(m, p) # FileName(m, i)
      BY <1>2, <2>1, <2>3, <3>1 DEF OwnNames
    <3>3. attached[m][FileName(m, p)] = p
      BY <1>4, <3>1 DEF AttachedTo
    <3>. QED
      BY <1>2, <1>3, <2>1, <3>2, <3>3
  <2>. QED
    BY <2>2, <2>3
<1>7. /\ xpc'[x] = "attach" /\ xmail'[x] = m /\ xi'[x] = i + 1
      /\ \A y \in Executors \ {x} : Stays(y)
  BY <1>1, <1>2, <1>3, Moved
<1>8. ASSUME NEW y \in Executors PROVE MadeSoFar(xpc[y], xmail[y], xi[y])'
  <2>1. CASE y = x
    <3>1. xpc'[y] = "attach" /\ stage'[xmail'[y]] = "render"
          /\ AttachedTo(xmail[y], xi[y])'
      BY <1>3, <1>4, <1>6, <1>7, <2>1 DEF AttachedTo
    <3>. QED
      BY <3>1 DEF MadeSoFar
  <2>2. CASE y # x
    <3>1. PICK pc, n, j : pc = xpc[y] /\ n = xmail[y] /\ j = xi[y]
      OBVIOUS
    <3>2. xpc'[y] = pc /\ xmail'[y] = n /\ xi'[y] = j /\ n # m
      BY <1>1, <1>2, <1>7, <2>2, <3>1, FilingAssumption DEF Stays, OneHolder
    <3>3. MadeSoFar(pc, n, j)
      BY <3>1 DEF FiledInv, Made
    <3>4. MadeSoFar(pc, n, j)'
      <4>1. CASE pc = "idle"
        BY <4>1 DEF MadeSoFar
      <4>2. CASE pc # "idle"
        <5>1. n \in Mails
          BY <1>2, <3>1, <4>2 DEF ExecTypeOK, Typed
        <5>. QED
          BY <1>3, <1>5, <3>2, <3>3, <5>1, MadeStays
      <4>. QED
        BY <4>1, <4>2
    <3>. QED
      BY <3>2, <3>4 DEF MadeSoFar, Total, AttachedTo, StoredTo, AtPath
  <2>. QED
    BY <2>1, <2>2
<1>9. StagesMade'
  <2>1. \A n, j : StoredTo(n, j)' <=> StoredTo(n, j)
    BY <1>3 DEF StoredTo, AtPath
  <2>. QED
    BY <1>3, <1>4, <1>5, <2>1 DEF FiledInv, StagesMade
<1>10. FilesOwned'
  BY <1>3, OwnedStays DEF FiledInv
<1>. QED
  BY <1>8, <1>9, <1>10 DEF FiledInv, Made

(* A handler returns: its mail is at the next stage, with all it needs.    *)
LEMMA FiledReturn ==
  ASSUME FilingInv, OneHolder, FiledInv, NEW x \in Executors, Return(x)
  PROVE  FiledInv'
<1>1. PICK m : m = xmail[x]
  OBVIOUS
<1>2. /\ ExecTypeOK /\ xpc[x] = "return" /\ m \in Mails
      /\ stage \in [Mails -> {"fetch", "render", "upload", "done"}]
  BY <1>1 DEF FilingInv, WalkTypeOK, ExecTypeOK, OutsideTypeOK, Typed, Return
<1>3. /\ stage' = [stage EXCEPT ![m] = NextStage(stage[m])] /\ Leave(x)
      /\ UNCHANGED <<attached, files, folders>>
  BY <1>1 DEF Return, diskVars, driveVars
<1>4. MadeSoFar("return", m, xi[x])
  BY <1>1, <1>2 DEF FiledInv, Made
<1>5. /\ \A n, j : AttachedTo(n, j)' <=> AttachedTo(n, j)
      /\ \A n, j : StoredTo(n, j)' <=> StoredTo(n, j)
  BY <1>3 DEF AttachedTo, StoredTo, AtPath
<1>6. \/ stage[m] = "fetch" /\ stage'[m] = "render"
      \/ stage[m] = "render" /\ stage'[m] = "upload" /\ AttachedTo(m, Total(m))
      \/ /\ stage[m] = "upload" /\ stage'[m] = "done"
         /\ AttachedTo(m, Total(m)) /\ StoredTo(m, Total(m))
  BY <1>2, <1>3, <1>4 DEF NextStage, MadeSoFar, FiledInv, StagesMade
<1>7. \A n \in Mails \ {m} : stage'[n] = stage[n]
  BY <1>2, <1>3
<1>8. StagesMade'
  BY <1>5, <1>6, <1>7 DEF FiledInv, StagesMade, Total
<1>9. xpc'[x] = "idle" /\ \A y \in Executors \ {x} : Stays(y)
  BY <1>2, <1>3, Moved
<1>10. ASSUME NEW y \in Executors PROVE MadeSoFar(xpc[y], xmail[y], xi[y])'
  <2>1. CASE y = x
    BY <1>9, <2>1 DEF MadeSoFar
  <2>2. CASE y # x
    <3>1. PICK pc, n, j : pc = xpc[y] /\ n = xmail[y] /\ j = xi[y]
      OBVIOUS
    <3>2. xpc'[y] = pc /\ xmail'[y] = n /\ xi'[y] = j /\ n # m
      BY <1>1, <1>2, <1>9, <2>2, <3>1, FilingAssumption DEF Stays, OneHolder
    <3>3. MadeSoFar(pc, n, j)
      BY <3>1 DEF FiledInv, Made
    <3>4. MadeSoFar(pc, n, j)'
      <4>1. CASE pc = "idle"
        BY <4>1 DEF MadeSoFar
      <4>2. CASE pc # "idle"
        <5>1. n \in Mails
          BY <1>2, <3>1, <4>2 DEF ExecTypeOK, Typed
        <5>. QED
          BY <1>3, <1>5, <1>7, <3>2, <3>3, <5>1, MadeStays
      <4>. QED
        BY <4>1, <4>2
    <3>. QED
      BY <3>2, <3>4 DEF MadeSoFar, Total, AttachedTo, StoredTo, AtPath
  <2>. QED
    BY <2>1, <2>2
<1>11. FilesOwned'
  BY <1>3, OwnedStays DEF FiledInv
<1>. QED
  BY <1>8, <1>10, <1>11 DEF FiledInv, Made

(* The steps that write nothing a later stage needs.                       *)
LEMMA FiledWalk ==
  ASSUME FilingInv, FiledInv, folders \subseteq folders', NEW x \in Executors,
         Fetch(x) \/ WritePdf(x) \/ WriteMeta(x) \/ CacheGet(x) \/ ListFolders(x)
           \/ CreateFolder(x) \/ CacheSet(x) \/ FoldersReached(x)
  PROVE  FiledInv'
<1>1. PICK m, i : m = xmail[x] /\ i = xi[x]
  OBVIOUS
<1>2. /\ ExecTypeOK /\ xpc[x] # "idle" /\ m \in Mails /\ i \in Nat
      /\ Len(Attachments[m]) \in Nat
  <2>1. xpc[x] # "idle"
    BY DEF Fetch, WritePdf, WriteMeta, CacheGet, ListFolders, CreateFolder, CacheSet,
           FoldersReached
  <2>. QED
    BY <1>1, <2>1, PathFacts DEF FilingInv, WalkTypeOK, ExecTypeOK, Typed
<1>3. UNCHANGED <<stage, attached, files>>
  BY DEF Fetch, WritePdf, WriteMeta, CacheGet, ListFolders, CreateFolder, CacheSet,
         FoldersReached, diskVars, driveVars
<1>4. FilesOwned'
  BY <1>3, OwnedStays DEF FiledInv
<1>5. MadeSoFar(xpc[x], m, i)
  BY <1>1 DEF FiledInv, Made
<1>6. ASSUME NEW pc, NEW j, NEW parent, GoTo(x, pc, j, parent), MadeSoFar(pc, m, j)
      PROVE  FiledInv'
  <2>1. \A k : AttachedTo(m, k)' <=> AttachedTo(m, k)
    BY <1>3 DEF AttachedTo
  <2>2. MadeSoFar(pc, m, j)'
    BY <1>3, <1>6, <2>1, MadeStays
  <2>. QED
    BY <1>1, <1>2, <1>3, <1>4, <1>6, <2>2, MadeGoTo
<1>7. CASE Fetch(x)
  <2>1. GoTo(x, "return", 0, None) /\ xpc[x] = "fetch"
    BY <1>7 DEF Fetch
  <2>2. MadeSoFar("return", m, 0)
    BY <1>5, <2>1 DEF MadeSoFar
  <2>. QED
    BY <1>6, <2>1, <2>2
<1>8. CASE WritePdf(x)
  <2>1. /\ GoTo(x, "meta", 0, None) /\ xpc[x] = "attach"
        /\ i > Len(Attachments[m])
    BY <1>1, <1>8 DEF WritePdf
  <2>2. AttachedTo(m, Total(m))
    <3>1. AttachedTo(m, i)
      BY <1>5, <2>1 DEF MadeSoFar
    <3>. QED
      BY <1>2, <2>1, <3>1 DEF AttachedTo
  <2>3. MadeSoFar("meta", m, 0)
    BY <1>5, <2>1, <2>2 DEF MadeSoFar
  <2>. QED
    BY <1>6, <2>1, <2>3
<1>9. CASE WriteMeta(x)
  <2>1. GoTo(x, "return", 0, None) /\ xpc[x] = "meta"
    BY <1>9 DEF WriteMeta
  <2>2. MadeSoFar("return", m, 0)
    BY <1>5, <2>1 DEF MadeSoFar
  <2>. QED
    BY <1>6, <2>1, <2>2
<1>10. ASSUME xpc[x] \in {"lookup", "list", "create", "set"},
              NEW pc \in {"lookup", "list", "create", "set"}, NEW j
       PROVE  MadeSoFar(pc, m, j)
  BY <1>5, <1>10 DEF MadeSoFar
<1>11. CASE CacheGet(x) \/ ListFolders(x) \/ CreateFolder(x) \/ CacheSet(x)
  BY <1>6, <1>10, <1>11 DEF CacheGet, ListFolders, CreateFolder, CacheSet
<1>12. CASE FoldersReached(x)
  <2>1. GoTo(x, "find", 0, xparent[x]) /\ xpc[x] = "lookup"
    BY <1>12 DEF FoldersReached
  <2>2. StoredTo(m, 0)
    BY <1>2 DEF StoredTo, Parts
  <2>3. MadeSoFar("find", m, 0)
    BY <1>5, <2>1, <2>2 DEF MadeSoFar
  <2>. QED
    BY <1>6, <2>1, <2>3
<1>. QED
  BY <1>7, <1>8, <1>9, <1>11, <1>12

LEMMA FiledStep ==
  ASSUME OwnFolder, OwnNames, FilingInv, IdsTypeOK, OneHolder, UniqueFolders,
         FiledInv, [Next]_vars
  PROVE  FiledInv'
<1>1. ExecTypeOK /\ folders \subseteq folders'
  BY FoldersStep DEF FilingInv, WalkTypeOK
<1>2. ASSUME NEW x \in Executors, NEW m \in Mails, Take(x, m) PROVE FiledInv'
  <2>1. /\ stage[m] \in {"fetch", "render", "upload"}
        /\ UNCHANGED <<stage, attached, files>>
    BY <1>2 DEF Take, diskVars, driveVars, FilingInv, WalkTypeOK, OutsideTypeOK
  <2>2. /\ xpc'[x] = FirstStep[stage[m]] /\ xmail'[x] = m /\ xi'[x] = 1
        /\ \A y \in Executors \ {x} : Stays(y)
    BY <1>1, <1>2, Moved
  <2>3. AttachedTo(m, 1)'
    BY DEF AttachedTo
  <2>4. MadeSoFar(xpc[x], xmail[x], xi[x])'
    BY <2>1, <2>2, <2>3 DEF MadeSoFar, FirstStep, AttachedTo
  <2>5. FilesOwned'
    BY <1>1, <2>1, OwnedStays DEF FiledInv
  <2>. QED
    BY <1>1, <2>1, <2>2, <2>4, <2>5, MadeMoves
<1>3. ASSUME NEW x \in Executors, Interrupted(x) PROVE FiledInv'
  <2>1. UNCHANGED <<stage, attached, files>> /\ Leave(x)
    BY <1>3 DEF Interrupted, diskVars, driveVars
  <2>2. xpc'[x] = "idle" /\ \A y \in Executors \ {x} : Stays(y)
    BY <1>1, <2>1, Moved
  <2>3. MadeSoFar(xpc[x], xmail[x], xi[x])'
    BY <2>2 DEF MadeSoFar
  <2>4. FilesOwned'
    BY <1>1, <2>1, OwnedStays DEF FiledInv
  <2>. QED
    BY <1>1, <2>1, <2>2, <2>3, <2>4, MadeMoves
<1>4. ASSUME NEW x \in Executors,
             Fetch(x) \/ Render(x) \/ Upload(x) \/ Return(x)
      PROVE  FiledInv'
  BY <1>1, <1>4, FiledWalk, FiledAttach, FiledFind, FiledPut, FiledReturn
     DEF Render, Upload
<1>5. ASSUME UNCHANGED <<stage, attached, files, xpc, xmail, xi, xparent>> PROVE FiledInv'
  <2>1. \A y \in Executors : Stays(y)
    BY <1>5 DEF Stays
  <2>2. FilesOwned'
    BY <1>1, <1>5, OwnedStays DEF FiledInv
  <2>. QED
    BY <1>1, <1>5, <2>1, <2>2, MadeMoves
<1>6. ASSUME NEW path \in Paths, CacheExpires(path) PROVE FiledInv'
  BY <1>5, <1>6 DEF CacheExpires, diskVars, driveVars, execVars
<1>7. ASSUME NEW f \in folders, UserTrashes(f) PROVE FiledInv'
  <2>1. UNCHANGED <<stage, attached, files, xpc, xmail, xi, xparent>>
    BY <1>7 DEF UserTrashes, diskVars, execVars
  <2>. QED
    BY <1>5, <2>1
<1>8. CASE UNCHANGED vars
  BY <1>5, <1>8 DEF vars, diskVars, driveVars, execVars
<1>. QED
  BY <1>2, <1>3, <1>4, <1>6, <1>7, <1>8 DEF Next

(* The invariant of the theorem below.                                     *)
ArchiveInv == FilingInv /\ IdsTypeOK /\ TwinInv /\ FiledInv

LEMMA ArchiveInit == ASSUME Init PROVE ArchiveInv
<1>1. FilingInv /\ IdsTypeOK /\ TwinInv
  BY InitKeeps DEF Init, IdsTypeOK, TwinInv, OneHolder, UniqueFolders, EmptyAtPut,
                   NoTwinFiles
<1>2. FiledInv
  BY DEF Init, FiledInv, Made, MadeSoFar, StagesMade, FilesOwned
<1>. QED
  BY <1>1, <1>2 DEF ArchiveInv

LEMMA ArchiveStep ==
  ASSUME OwnFolder, OwnNames, ArchiveInv, [Next]_vars
  PROVE  ArchiveInv'
BY NextKeeps, IdsKept, TwinStep, FiledStep DEF TwinInv, ArchiveInv

(* A finished job has stored every part of its mail.                       *)
LEMMA AllStored ==
  ASSUME ArchiveInv, NEW m \in Mails, stage[m] = "done", NEW p \in Parts(m)
  PROVE  \E f \in files : /\ f.mail = m /\ f.part = p /\ f.name = FileName(m, p)
                          /\ AtPath(f.parent, Chain(m))
<1>1. StoredTo(m, Total(m))
  BY DEF ArchiveInv, FiledInv, StagesMade
<1>2. p < Total(m)
  BY PathFacts DEF Parts, Total
<1>. QED
  BY <1>1, <1>2 DEF StoredTo, PathTo

(* A job that is done has its mail on Drive, every part of it at the path  *)
(* of the mail (upload.go:94-131), whatever was interrupted, repeated,     *)
(* raced for or lost from the cache -- if each mail has a folder and each  *)
(* part a name of its own.  The code sees to neither (paths.go:38,         *)
(* render.go:60): that is what the two provisos are about.                 *)
THEOREM DoneIsFiled ==
  ASSUME OwnFolder, OwnNames
  PROVE  Spec => []Filed
<1>1. Init => ArchiveInv
  BY ArchiveInit
<1>2. ArchiveInv /\ [Next]_vars => ArchiveInv'
  BY ArchiveStep
<1>3. ArchiveInv => Filed
  BY AllStored DEF Filed
<1>. QED
  BY <1>1, <1>2, <1>3, PTL DEF Spec

-----------------------------------------------------------------------------
(* By their names the documents are complete even if attachments share a   *)
(* name: what is lost then is content.                                     *)

(* There are files of the names of the parts before the i-th.              *)
NamedTo(m, i) ==
  \A p \in Parts(m) : p < i => \E f \in files : f.mail = m /\ f.name = FileName(m, p)

(* Where a worker is tells the stage, and which names have been filed.     *)
NamedSoFar(pc, m, i) ==
  /\ pc \in {"fetch", "attach", "meta"} => stage[m] \in {"fetch", "render"}
  /\ pc \in {"lookup", "list", "create", "set", "find", "put"} => stage[m] = "upload"
  /\ pc = "return" => stage[m] # "done"
  /\ pc \in {"find", "put"} => NamedTo(m, i)
  /\ pc = "return" /\ stage[m] = "upload" => NamedTo(m, Total(m))

WorkersNamed == \A x \in Executors : NamedSoFar(xpc[x], xmail[x], xi[x])

DoneNamed == \A m \in Mails : stage[m] = "done" => NamedTo(m, Total(m))

(* A file has the name of a part of its mail, and is at the mail's path.   *)
FilesNamed ==
  \A f \in files :
    /\ f.mail \in Mails /\ \E p \in Parts(f.mail) : f.name = FileName(f.mail, p)
    /\ AtPath(f.parent, PathTo(f.mail, 2))

NamesInv == WorkersNamed /\ DoneNamed /\ FilesNamed

(* What has been named stays so.                                           *)
LEMMA NamedStays ==
  ASSUME files \subseteq files', NEW m, NEW i, NamedTo(m, i)
  PROVE  NamedTo(m, i)'
BY DEF NamedTo

LEMMA FilesNamedStays ==
  ASSUME FilesNamed, folders \subseteq folders', UNCHANGED files
  PROVE  FilesNamed'
BY AtPathStays DEF FilesNamed

(* A step that leaves the stages alone and moves one worker, or none.      *)
LEMMA NamesMove ==
  ASSUME NamesInv, FilesNamed', UNCHANGED stage, files \subseteq files',
         \A y \in Executors : Stays(y) \/ NamedSoFar(xpc[y], xmail[y], xi[y])'
  PROVE  NamesInv'
<1>1. ASSUME NEW y \in Executors PROVE NamedSoFar(xpc[y], xmail[y], xi[y])'
  <2>1. CASE Stays(y)
    <3>1. PICK pc, m, i : pc = xpc[y] /\ m = xmail[y] /\ i = xi[y]
      OBVIOUS
    <3>2. NamedSoFar(pc, m, i)
      BY <3>1 DEF NamesInv, WorkersNamed
    <3>3. /\ NamedTo(m, i) => NamedTo(m, i)'
          /\ NamedTo(m, Total(m)) => NamedTo(m, Total(m))'
      BY NamedStays
    <3>4. NamedSoFar(pc, m, i)'
      BY <3>2, <3>3 DEF NamedSoFar, Total
    <3>5. xpc'[y] = pc /\ xmail'[y] = m /\ xi'[y] = i
      BY <2>1, <3>1 DEF Stays
    <3>. QED
      BY <3>4, <3>5 DEF NamedSoFar, Total, NamedTo
  <2>. QED
    BY <2>1
<1>2. DoneNamed'
  BY NamedStays DEF NamesInv, DoneNamed, Total
<1>. QED
  BY <1>1, <1>2 DEF NamesInv, WorkersNamed

LEMMA NamesGoTo ==
  ASSUME ExecTypeOK, NamesInv, FilesNamed', UNCHANGED stage, files \subseteq files',
         NEW x \in Executors, NEW pc, NEW i, NEW parent, GoTo(x, pc, i, parent),
         NEW m, m = xmail[x], NamedSoFar(pc, m, i)'
  PROVE  NamesInv'
<1>1. /\ xpc'[x] = pc /\ xmail'[x] = m /\ xi'[x] = i
      /\ \A y \in Executors \ {x} : Stays(y)
  BY Moved
<1>2. NamedSoFar(xpc[x], xmail[x], xi[x])'
  BY <1>1 DEF NamedSoFar, Total, NamedTo
<1>. QED
  BY <1>1, <1>2, NamesMove

(* There is a file of the part's name: it has been found, or put.          *)
LEMMA OneMoreNamed ==
  ASSUME ExecTypeOK, NamesInv, FilesNamed', UNCHANGED stage, files \subseteq files',
         NEW x \in Executors, xpc[x] \in {"find", "put"}, NextPart(x),
         NEW f \in files', f.mail = xmail[x], f.name = FileName(xmail[x], xi[x])
  PROVE  NamesInv'
<1>1. PICK m, i : m = xmail[x] /\ i = xi[x]
  OBVIOUS
<1>2. m \in Mails /\ i \in Parts(m) /\ Len(Attachments[m]) \in Nat
  BY <1>1, PathFacts DEF ExecTypeOK, Typed
<1>3. stage[m] = "upload" /\ NamedTo(m, i)
  BY <1>1 DEF NamesInv, WorkersNamed, NamedSoFar
<1>4. NamedTo(m, i + 1)'
  <2>1. NamedTo(m, i)'
    BY <1>3, NamedStays
  <2>2. f.mail = m /\ f.name = FileName(m, i)
    BY <1>1
  <2>3. \A p \in Parts(m) : p < i + 1 => p < i \/ p = i
    BY <1>2 DEF Parts
  <2>. QED
    BY <2>1, <2>2, <2>3 DEF NamedTo
<1>5. CASE i = Len(Attachments[m])
  <2>1. GoTo(x, "return", i + 1, xparent[x])
    BY <1>1, <1>5 DEF NextPart
  <2>2. NamedSoFar("return", m, i + 1)'
    BY <1>3, <1>4, <1>5 DEF NamedSoFar, Total
  <2>. QED
    BY <1>1, <2>1, <2>2, NamesGoTo
<1>6. CASE i # Len(Attachments[m])
  <2>1. GoTo(x, "find", i + 1, xparent[x])
    BY <1>1, <1>6 DEF NextPart
  <2>2. NamedSoFar("find", m, i + 1)'
    BY <1>3, <1>4 DEF NamedSoFar
  <2>. QED
    BY <1>1, <2>1, <2>2, NamesGoTo
<1>. QED
  BY <1>5, <1>6

(* A file found under the name, in a folder that is only this mail's, is   *)
(* the mail's own.                                                         *)
LEMMA NamesFind ==
  ASSUME OwnFolder, FilingInv, UniqueFolders, NamesInv,
         NEW x \in Executors, FindFile(x)
  PROVE  NamesInv'
<1>1. PICK m, i : m = xmail[x] /\ i = xi[x]
  OBVIOUS
<1>2. /\ ExecTypeOK /\ xpc[x] = "find" /\ m \in Mails
      /\ AtPath(xparent[x], PathTo(m, 2))
  BY <1>1 DEF FilingInv, WalkTypeOK, ExecTypeOK, Typed, FindFile, ParentSound, OnPath,
              Walked
<1>3. UNCHANGED <<stage, files, folders>>
  BY DEF FindFile, driveVars
<1>4. FilesNamed'
  BY <1>3, FilesNamedStays DEF NamesInv
<1>5. CASE GoTo(x, "put", i, xparent[x])
  <2>1. NamedSoFar("find", m, i)
    BY <1>1, <1>2 DEF NamesInv, WorkersNamed
  <2>2. NamedSoFar("put", m, i)'
    BY <1>3, <2>1 DEF NamedSoFar, NamedTo
  <2>. QED
    BY <1>1, <1>2, <1>3, <1>4, <1>5, <2>2, NamesGoTo
<1>6. CASE Named(xparent[x], FileName(m, i)) # {} /\ NextPart(x)
  <2>1. PICK f \in files : f.parent = xparent[x] /\ f.name = FileName(m, i)
    BY <1>6 DEF Named
  <2>2. f.mail \in Mails /\ AtPath(f.parent, PathTo(f.mail, 2))
    BY <2>1 DEF NamesInv, FilesNamed
  <2>3. f.mail = m
    BY <1>2, <2>1, <2>2, OnePlace
  <2>. QED
    BY <1>1, <1>2, <1>3, <1>4, <1>6, <2>1, <2>3, OneMoreNamed
<1>. QED
  BY <1>1, <1>5, <1>6 DEF FindFile

LEMMA NamesPut ==
  ASSUME FilingInv, NamesInv, NEW x \in Executors, PutFile(x)
  PROVE  NamesInv'
<1>1. PICK m, i : m = xmail[x] /\ i = xi[x]
  OBVIOUS
<1>2. /\ ExecTypeOK /\ xpc[x] = "put" /\ m \in Mails /\ i \in Parts(m)
      /\ AtPath(xparent[x], PathTo(m, 2))
  BY <1>1
     DEF FilingInv, WalkTypeOK, ExecTypeOK, Typed, PutFile, ParentSound, OnPath, Walked
<1> DEFINE new == [id |-> nextId, parent |-> xparent[x],
                   name |-> FileName(m, i), mail |-> m,
                   part |-> OnDisk(m, i)]
<1>3. /\ files' = files \cup {new} /\ NextPart(x) /\ UNCHANGED <<stage, folders>>
  BY <1>1 DEF PutFile
<1>4. new.parent = xparent[x] /\ new.name = FileName(m, i) /\ new.mail = m
  OBVIOUS
<1> HIDE DEF new
<1>5. FilesNamed'
  <2>1. ASSUME NEW f \in files'
        PROVE  /\ f.mail \in Mails
               /\ \E p \in Parts(f.mail) : f.name = FileName(f.mail, p)
               /\ AtPath(f.parent, PathTo(f.mail, 2))
    BY <1>2, <1>3, <1>4 DEF NamesInv, FilesNamed
  <2>2. \A id, path : AtPath(id, path)' <=> AtPath(id, path)
    BY <1>3 DEF AtPath
  <2>. QED
    BY <2>1, <2>2 DEF FilesNamed
<1>6. new \in files' /\ files \subseteq files'
  BY <1>3
<1>. QED
  BY <1>1, <1>2, <1>3, <1>4, <1>5, <1>6, OneMoreNamed

(* A handler returns: only the upload finishes the mail, with every name.  *)
LEMMA NamesReturn ==
  ASSUME FilingInv, OneHolder, NamesInv, NEW x \in Executors, Return(x)
  PROVE  NamesInv'
<1>1. PICK m : m = xmail[x]
  OBVIOUS
<1>2. /\ ExecTypeOK /\ xpc[x] = "return" /\ m \in Mails
      /\ stage \in [Mails -> {"fetch", "render", "upload", "done"}]
  BY <1>1 DEF FilingInv, WalkTypeOK, ExecTypeOK, OutsideTypeOK, Typed, Return
<1>3. /\ stage' = [stage EXCEPT ![m] = NextStage(stage[m])] /\ Leave(x)
      /\ UNCHANGED <<files, folders>>
  BY <1>1 DEF Return, driveVars
<1>4. \A n, j : NamedTo(n, j)' <=> NamedTo(n, j)
  BY <1>3 DEF NamedTo
<1>5. stage[m] # "done" /\ (stage[m] = "upload" => NamedTo(m, Total(m)))
  BY <1>1, <1>2 DEF NamesInv, WorkersNamed, NamedSoFar
<1>6. /\ stage'[m] = "done" => NamedTo(m, Total(m))
      /\ \A n \in Mails \ {m} : stage'[n] = stage[n]
  BY <1>2, <1>3, <1>5 DEF NextStage
<1>7. DoneNamed'
  BY <1>4, <1>6 DEF NamesInv, DoneNamed, Total
<1>8. xpc'[x] = "idle" /\ \A y \in Executors \ {x} : Stays(y)
  BY <1>2, <1>3, Moved
<1>9. ASSUME NEW y \in Executors PROVE NamedSoFar(xpc[y], xmail[y], xi[y])'
  <2>1. CASE xpc'[y] = "idle"
    BY <2>1 DEF NamedSoFar
  <2>2. CASE xpc'[y] # "idle"
    <3>1. PICK pc, n, j : pc = xpc[y] /\ n = xmail[y] /\ j = xi[y]
      OBVIOUS
    <3>2. xpc'[y] = pc /\ xmail'[y] = n /\ xi'[y] = j /\ n # m
      BY <1>1, <1>2, <1>8, <2>2, <3>1, FilingAssumption DEF Stays, OneHolder
    <3>3. NamedSoFar(pc, n, j) /\ n \in Mails
      BY <1>2, <2>2, <3>1, <3>2 DEF NamesInv, WorkersNamed, ExecTypeOK, Typed
    <3>. QED
      BY <1>3, <1>4, <1>6, <3>2, <3>3 DEF NamedSoFar, Total
  <2>. QED
    BY <2>1, <2>2
<1>10. FilesNamed'
  BY <1>3, FilesNamedStays DEF NamesInv
<1>. QED
  BY <1>7, <1>9, <1>10 DEF NamesInv, WorkersNamed

(* The steps before the upload, and those on the way to the folder.        *)
LEMMA NamesWalk ==
  ASSUME FilingInv, NamesInv, folders \subseteq folders', NEW x \in Executors,
         Fetch(x) \/ Render(x) \/ CacheGet(x) \/ ListFolders(x)
           \/ CreateFolder(x) \/ CacheSet(x) \/ FoldersReached(x)
  PROVE  NamesInv'
<1>1. PICK m, i : m = xmail[x] /\ i = xi[x]
  OBVIOUS
<1>2. ExecTypeOK /\ UNCHANGED <<stage, files>>
  BY DEF Fetch, Render, WriteAttachment, WritePdf, WriteMeta, CacheGet, ListFolders,
         CreateFolder, CacheSet, FoldersReached, driveVars, FilingInv, WalkTypeOK
<1>3. FilesNamed'
  BY <1>2, FilesNamedStays DEF NamesInv
<1>4. NamedSoFar(xpc[x], m, i)
  BY <1>1 DEF NamesInv, WorkersNamed
<1>5. ASSUME NEW pc, NEW j, NEW parent, GoTo(x, pc, j, parent), NamedSoFar(pc, m, j)
      PROVE  NamesInv'
  <2>1. NamedSoFar(pc, m, j)'
    BY <1>2, <1>5 DEF NamedSoFar, NamedTo, Total
  <2>. QED
    BY <1>1, <1>2, <1>3, <1>5, <2>1, NamesGoTo
<1>6. CASE Fetch(x) \/ Render(x)
  <2>1. /\ xpc[x] \in {"fetch", "attach", "meta"}
        /\ \E pc \in {"attach", "meta", "return"} :
             \E j, parent : GoTo(x, pc, j, parent)
    BY <1>6 DEF Fetch, Render, WriteAttachment, WritePdf, WriteMeta
  <2>2. \A pc \in {"attach", "meta", "return"} : \A j : NamedSoFar(pc, m, j)
    BY <1>4, <2>1 DEF NamedSoFar
  <2>. QED
    BY <1>5, <2>1, <2>2
<1>7. CASE CacheGet(x) \/ ListFolders(x) \/ CreateFolder(x) \/ CacheSet(x)
  <2>1. /\ xpc[x] \in {"lookup", "list", "create", "set"}
        /\ \E pc \in {"lookup", "list", "create", "set"} :
             \E j, parent : GoTo(x, pc, j, parent)
    BY <1>7 DEF CacheGet, ListFolders, CreateFolder, CacheSet
  <2>2. \A pc \in {"lookup", "list", "create", "set"} : \A j : NamedSoFar(pc, m, j)
    BY <1>4, <2>1 DEF NamedSoFar
  <2>. QED
    BY <1>5, <2>1, <2>2
<1>8. CASE FoldersReached(x)
  <2>1. GoTo(x, "find", 0, xparent[x]) /\ xpc[x] = "lookup"
    BY <1>8 DEF FoldersReached
  <2>2. m \in Mails
    BY <1>1, <1>2, <2>1 DEF ExecTypeOK, Typed
  <2>3. NamedTo(m, 0)
    BY <2>2, PathFacts DEF NamedTo, Parts
  <2>4. NamedSoFar("find", m, 0)
    BY <1>4, <2>1, <2>3 DEF NamedSoFar
  <2>. QED
    BY <1>5, <2>1, <2>4
<1>. QED
  BY <1>6, <1>7, <1>8

LEMMA NamesStep ==
  ASSUME OwnFolder, FilingInv, IdsTypeOK, OneHolder, UniqueFolders, NamesInv, [Next]_vars
  PROVE  NamesInv'
<1>1. ExecTypeOK /\ folders \subseteq folders'
  BY FoldersStep DEF FilingInv, WalkTypeOK
<1>2. ASSUME NEW x \in Executors, NEW m \in Mails, Take(x, m) PROVE NamesInv'
  <2>1. /\ stage[m] \in {"fetch", "render", "upload"} /\ UNCHANGED <<stage, files>>
    BY <1>2 DEF Take, driveVars, FilingInv, WalkTypeOK, OutsideTypeOK
  <2>2. /\ xpc'[x] = FirstStep[stage[m]] /\ xmail'[x] = m
        /\ \A y \in Executors \ {x} : Stays(y)
    BY <1>1, <1>2, Moved
  <2>3. NamedSoFar(xpc[x], xmail[x], xi[x])'
    BY <2>1, <2>2 DEF NamedSoFar, FirstStep
  <2>4. FilesNamed'
    BY <1>1, <2>1, FilesNamedStays DEF NamesInv
  <2>. QED
    BY <2>1, <2>2, <2>3, <2>4, NamesMove
<1>3. ASSUME NEW x \in Executors, Interrupted(x) PROVE NamesInv'
  <2>1. UNCHANGED <<stage, files>> /\ Leave(x)
    BY <1>3 DEF Interrupted, driveVars
  <2>2. xpc'[x] = "idle" /\ \A y \in Executors \ {x} : Stays(y)
    BY <1>1, <2>1, Moved
  <2>3. NamedSoFar(xpc[x], xmail[x], xi[x])'
    BY <2>2 DEF NamedSoFar
  <2>4. FilesNamed'
    BY <1>1, <2>1, FilesNamedStays DEF NamesInv
  <2>. QED
    BY <2>1, <2>2, <2>3, <2>4, NamesMove
<1>4. ASSUME NEW x \in Executors,
             Fetch(x) \/ Render(x) \/ Upload(x) \/ Return(x)
      PROVE  NamesInv'
  BY <1>1, <1>4, NamesWalk, NamesFind, NamesPut, NamesReturn DEF Upload
<1>5. ASSUME UNCHANGED <<stage, files, xpc, xmail, xi, xparent>> PROVE NamesInv'
  <2>1. \A y \in Executors : Stays(y)
    BY <1>5 DEF Stays
  <2>2. FilesNamed'
    BY <1>1, <1>5, FilesNamedStays DEF NamesInv
  <2>. QED
    BY <1>5, <2>1, <2>2, NamesMove
<1>6. ASSUME NEW path \in Paths, CacheExpires(path) PROVE NamesInv'
  BY <1>5, <1>6 DEF CacheExpires, driveVars, execVars
<1>7. ASSUME NEW f \in folders, UserTrashes(f) PROVE NamesInv'
  <2>1. UNCHANGED <<stage, files, xpc, xmail, xi, xparent>>
    BY <1>7 DEF UserTrashes, execVars
  <2>. QED
    BY <1>5, <2>1
<1>8. CASE UNCHANGED vars
  BY <1>5, <1>8 DEF vars, driveVars, execVars
<1>. QED
  BY <1>2, <1>3, <1>4, <1>6, <1>7, <1>8 DEF Next

(* The invariant of the theorem below, and of those on the archive.        *)
ExactInv == FilingInv /\ IdsTypeOK /\ OneHolder /\ UniqueFolders /\ NamesInv

LEMMA ExactInit == ASSUME Init PROVE ExactInv
<1>1. FilingInv /\ IdsTypeOK /\ OneHolder /\ UniqueFolders
  BY InitKeeps DEF Init, IdsTypeOK, OneHolder, UniqueFolders
<1>2. NamesInv
  BY DEF Init, NamesInv, WorkersNamed, NamedSoFar, DoneNamed, FilesNamed
<1>. QED
  BY <1>1, <1>2 DEF ExactInv

LEMMA ExactStep ==
  ASSUME OwnFolder, ExactInv, [Next]_vars
  PROVE  ExactInv'
BY NextKeeps, IdsKept, HolderStep, FoldersStep, NamesStep DEF ExactInv

(* Of a finished mail every part's name is on Drive.                       *)
LEMMA AllNamed ==
  ASSUME ExactInv, NEW m \in Mails, stage[m] = "done", NEW p \in Parts(m)
  PROVE  \E f \in files : f.mail = m /\ f.name = FileName(m, p)
<1>1. NamedTo(m, Total(m))
  BY DEF ExactInv, NamesInv, DoneNamed
<1>2. p < Total(m)
  BY PathFacts DEF Parts, Total
<1>. QED
  BY <1>1, <1>2 DEF NamedTo

(* What is on Drive of the mail of a finished job, by its names, is its    *)
(* PDF and its attachments, nothing missing and nothing else               *)
(* (upload.go:112-131).                                                    *)
ExactlyItsParts ==
  \A m \in Mails : stage[m] = "done" =>
    {f.name : f \in {g \in files : g.mail = m}} = {FileName(m, p) : p \in Parts(m)}

(* That holds for every mailbox and any attachments, also where two have   *)
(* one name (render.go:60), if each mail has a folder of its own.          *)
THEOREM ArchiveIsExact ==
  ASSUME OwnFolder
  PROVE  Spec => []ExactlyItsParts
<1>1. Init => ExactInv
  BY ExactInit
<1>2. ExactInv /\ [Next]_vars => ExactInv'
  BY ExactStep
<1>3. ExactInv => ExactlyItsParts
  <2> SUFFICES ASSUME ExactInv, NEW m \in Mails, stage[m] = "done"
               PROVE  {f.name : f \in {g \in files : g.mail = m}}
                        = {FileName(m, p) : p \in Parts(m)}
    BY DEF ExactlyItsParts
  <2>1. \A f \in files : f.mail = m => \E p \in Parts(m) : f.name = FileName(m, p)
    BY DEF ExactInv, NamesInv, FilesNamed
  <2>2. \A p \in Parts(m) : \E f \in files : f.mail = m /\ f.name = FileName(m, p)
    BY AllNamed
  <2>. QED
    BY <2>1, <2>2
<1>. QED
  BY <1>1, <1>2, <1>3, PTL DEF Spec
=============================================================================
