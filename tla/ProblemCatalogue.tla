-------------------------- MODULE ProblemCatalogue --------------------------
(***************************************************************************)
(* The testcases of one problem: rows in the database, two files each in   *)
(* the storage, the list of them in a cache of the API (invalidated when a *)
(* testcase changes) and in a cache of the judge worker (never            *)
(* invalidated). Editors change testcases and import whole problems while  *)
(* submissions are created, queued, judged and rejudged. No handler uses a *)
(* transaction.                                                            *)
(*                                                                         *)
(* The content of a file is the name of the request that wrote it. A list  *)
(* carries of each testcase its id and its place; scores change with the   *)
(* place. Of the assets of the problem there is one, told apart by whether  *)
(* it has a row and a file. The other fields of a problem are left out.    *)
(***************************************************************************)
EXTENDS Integers, FiniteSetsExt

CONSTANTS
  Requests,     \* requests of editors, each served once
  Subs,         \* submissions to the problem
  Old, Absent,  \* content of the first testcase; of a file that is not there
  NoList,       \* of a cache without an entry for the problem
  MaxIds,       \* bound: testcases ever created
  MaxOrdinal,   \* bound: largest place an editor asks for
  ImportSizes,  \* numbers of testcases in an imported archive
  MaxFaults,    \* bound: errors of the storage or the database, restarts
  MaxRejudges   \* bound: rejudges of a submission

Ids == 1..MaxIds
Contents == Requests \union {Old, Absent}
Sides == {"in", "out"}

ASSUME CatalogueAssumption ==
  /\ MaxIds \in Nat \ {0} /\ MaxOrdinal \in Nat /\ MaxFaults \in Nat /\ MaxRejudges \in Nat
  /\ ImportSizes \subseteq 0..100 /\ Old # Absent /\ {Old, Absent} \cap Requests = {}

VARIABLES
  rows,       \* table problem_testcases: [id, ord, sum]
  file,       \* the files of every testcase
  asset,      \* table problem_assets and its file: [row, file]
  given,      \* number of testcase ids given
  cache,      \* ProblemTestcasesCacheService: a list, or NoList
  cacheLate,  \* ghost: the rows changed between the reading and the caching of it,
              \* or an import that changed them failed before it invalidated
  torn,       \* ghost: testcases with an update that overlapped or failed
  dropped,    \* ghost: testcases whose deletion has begun
  crossed,    \* ghost: an import has met another in the assets, or stopped after
              \* removing the file and before the row
  req,        \* the state of every request
  workerCache,\* the LRU cache of the judge worker: a list, or NoList
  sub,        \* the state of every submission
  results,    \* table submission_testcase_results: testcases of a submission
  judged,     \* the testcases a submission has been judged on
  faults      \* number of faults so far

assetVars == <<asset, crossed>>
editorVars == <<rows, file, given, torn, dropped, req, assetVars>>
judgeVars == <<workerCache, sub, results, judged>>
vars == <<editorVars, cache, cacheLate, judgeVars, faults>>

RowIds == {row.id : row \in rows}
Entry(row) == [id |-> row.id, ord |-> row.ord]
List == {Entry(row) : row \in rows}     \* ordered by ord
RowOf(i) == CHOOSE row \in rows : row.id = i
Ordinals == {row.ord : row \in rows}

NewRequest == [pc |-> "new", op |-> "create", id |-> 1, ord |-> 0, sides |-> {}, sum |-> Old,
               left |-> 0, size |-> 0, found |-> FALSE]
NewSub == [pc |-> "none", list |-> {}, late |-> FALSE, again |-> 0]

Init ==
  /\ rows = {[id |-> 1, ord |-> 0, sum |-> Old]} /\ given = 1
  /\ file = [i \in Ids |-> [side \in Sides |-> IF i = 1 THEN Old ELSE Absent]]
  /\ asset = [row |-> TRUE, file |-> TRUE] /\ crossed = FALSE
  /\ cache = NoList /\ cacheLate = FALSE
  /\ torn = {} /\ dropped = {}
  /\ req = [r \in Requests |-> NewRequest]
  /\ workerCache = NoList
  /\ sub = [s \in Subs |-> NewSub]
  /\ results = [s \in Subs |-> {}] /\ judged = [s \in Subs |-> {}]
  /\ faults = 0

-----------------------------------------------------------------------------
(* Editors. A request goes through its places "conflict", "clear", "in",   *)
(* "out", "row", those of the assets, and "invalidate", as far as its      *)
(* operation has them.                                                     *)

GoTo(r, pc) == req' = [req EXCEPT ![r].pc = pc]
Updating(i) == {r \in Requests : req[r].op = "update" /\ req[r].id = i
                                 /\ req[r].pc \notin {"new", "ok", "refused"}}

(* createTestcase asks for a place, or takes the one after the last.       *)
StartCreate(r, ord) ==
  /\ req[r].pc = "new" /\ given < MaxIds
  /\ given' = given + 1
  /\ req' = [req EXCEPT ![r] = [NewRequest EXCEPT !.pc = "in", !.id = given + 1,
                                !.sides = Sides, !.sum = r, !.ord = ord]]
  /\ UNCHANGED <<rows, file, torn, dropped, assetVars, cache, cacheLate, judgeVars, faults>>

NextOrdinal == Max(Ordinals \union {-1}) + 1

SumOfOutput(r, i, sides) ==     \* mutant: the checksum is taken of the output
  IF "out" \in sides THEN r ELSE RowOf(i).sum

Sum(r, i, sides) == IF "in" \in sides THEN r ELSE RowOf(i).sum

(* updateTestcase may change the place, the input and the output; what it  *)
(* does not change it writes back as it has read it.                       *)
StartUpdate(r, i, ord, sides) ==
  /\ req[r].pc = "new" /\ i \in RowIds
  /\ req' = [req EXCEPT ![r] =
       [NewRequest EXCEPT !.pc = IF ord # RowOf(i).ord THEN "conflict" ELSE "in",
                          !.op = "update", !.id = i, !.ord = ord, !.sides = sides,
                          !.sum = Sum(r, i, sides)]]
  /\ torn' = IF Updating(i) # {} THEN torn \union {i} ELSE torn
  /\ UNCHANGED <<rows, file, given, dropped, assetVars, cache, cacheLate, judgeVars, faults>>

Conflict(r) ==
  /\ req[r].pc = "conflict"
  /\ GoTo(r, IF \E row \in rows : row.ord = req[r].ord /\ row.id # req[r].id
             THEN "refused" ELSE "in")
  /\ UNCHANGED <<rows, file, given, torn, dropped, assetVars, cache, cacheLate, judgeVars, faults>>

StartDelete(r, i) ==
  /\ req[r].pc = "new" /\ i \in RowIds
  /\ req' = [req EXCEPT ![r] = [NewRequest EXCEPT !.pc = "in", !.op = "delete", !.id = i,
                                !.sides = Sides]]
  /\ dropped' = dropped \union {i}
  /\ UNCHANGED <<rows, file, given, torn, assetVars, cache, cacheLate, judgeVars, faults>>

(* importFromManifest, and what follows in it: one testcase after another. *)
StartImport(r, n) ==
  /\ req[r].pc = "new" /\ n \in ImportSizes
  /\ req' = [req EXCEPT ![r] = [NewRequest EXCEPT !.pc = "clear", !.op = "import",
                                !.sides = Sides, !.sum = r, !.left = n, !.size = n]]
  /\ UNCHANGED <<rows, file, given, torn, dropped, assetVars, cache, cacheLate, judgeVars, faults>>

NextOfImport(r, n) ==
  IF n = 0
  THEN /\ req' = [req EXCEPT ![r].pc = "assetFind", ![r].left = 0]
       /\ UNCHANGED given
  ELSE /\ given < MaxIds
       /\ given' = given + 1
       /\ req' = [req EXCEPT ![r].pc = "in", ![r].id = given + 1, ![r].left = n,
                             ![r].ord = req[r].size - n]

(* What an import that fails has changed is not invalidated.               *)
CutOff(r) == cacheLate' = (cacheLate \/ (req[r].op = "import" /\ cache # NoList))

(* A changed row makes late every list read before and not cached yet.     *)
Late == sub' = [s \in Subs |-> [sub[s] EXCEPT !.late = @ \/ sub[s].pc = "put"]]
Referenced == UNION {results[s] : s \in Subs}

Clear(r) ==
  /\ req[r].pc = "clear"
  /\ IF RowIds \cap Referenced # {}
     THEN GoTo(r, "refused") /\ UNCHANGED <<rows, given, sub>>
     ELSE rows' = {} /\ NextOfImport(r, req[r].left) /\ Late
  /\ UNCHANGED <<file, torn, dropped, assetVars, cache, cacheLate, workerCache, results,
                 judged, faults>>

PutFile(r, side) ==
  IF req[r].op = "delete" THEN Absent
  ELSE IF side \in req[r].sides THEN r ELSE file[req[r].id][side]

AfterFile(side) == IF side = "in" THEN "out" ELSE "row"

WriteFileUnawaited(r, side) ==  \* mutant: the handler goes on before the file is written
  /\ req[r].pc = side
  /\ file' \in {file, [file EXCEPT ![req[r].id][side] = PutFile(r, side)]}
  /\ GoTo(r, AfterFile(side))
  /\ UNCHANGED <<rows, given, torn, dropped, assetVars, cache, cacheLate, judgeVars, faults>>

WriteFile(r, side) ==
  /\ req[r].pc = side
  /\ file' = [file EXCEPT ![req[r].id][side] = PutFile(r, side)]
  /\ GoTo(r, AfterFile(side))
  /\ UNCHANGED <<rows, given, torn, dropped, assetVars, cache, cacheLate, judgeVars, faults>>

(* The scores of an imported archive are 100 / size; the column takes      *)
(* integers only.                                                          *)
WholeScores(size) == 100 % size = 0

Refused(r) ==
  LET q == req[r] IN
  CASE q.op = "delete" -> q.id \notin RowIds \/ q.id \in Referenced
    [] q.op = "update" -> \/ q.id \notin RowIds
                          \/ \E row \in rows : row.ord = q.ord /\ row.id # q.id
    [] q.op = "create" -> q.ord \in Ordinals
    [] q.op = "import" -> q.ord \in Ordinals \/ ~WholeScores(q.size)

WriteRow(r) ==
  LET q == req[r]
      others == {row \in rows : row.id # q.id}
  IN
  /\ q.pc = "row"
  /\ IF Refused(r)
     THEN /\ GoTo(r, "refused")
          /\ CutOff(r)
          /\ torn' = IF q.op = "update" THEN torn \union {q.id} ELSE torn
          /\ UNCHANGED <<rows, given, sub>>
     ELSE /\ rows' = IF q.op = "delete" THEN others
                     ELSE others \union {[id |-> q.id, ord |-> q.ord, sum |-> q.sum]}
          /\ IF q.op = "import" THEN NextOfImport(r, q.left - 1)
             ELSE GoTo(r, "invalidate") /\ UNCHANGED given
          /\ Late
          /\ UNCHANGED <<torn, cacheLate>>
  /\ UNCHANGED <<file, dropped, assetVars, cache, workerCache, results, judged, faults>>

(* syncAssets, at the end of an import: find the row of the asset, remove  *)
(* its file, then the row; write the file of the archive, if it has one,   *)
(* and create its row, which there must not be yet.                        *)
AssetPlaces == {"assetFind", "assetDrop", "assetClear", "assetWrite", "assetRow"}
notAssets == <<rows, file, given, torn, dropped, cache, cacheLate, judgeVars, faults>>

FindAsset(r) ==
  /\ req[r].pc = "assetFind"
  /\ req' = [req EXCEPT ![r].found = asset.row,
                        ![r].pc = IF asset.row THEN "assetDrop" ELSE "assetClear"]
  /\ crossed' = (crossed \/ \E x \in Requests \ {r} : req[x].pc \in AssetPlaces)
  /\ UNCHANGED <<asset, notAssets>>

DropAsset(r) ==
  /\ req[r].pc = "assetDrop"
  /\ asset' = [asset EXCEPT !.file = FALSE]
  /\ GoTo(r, "assetClear")
  /\ UNCHANGED <<crossed, notAssets>>

ClearAsset(r, has) ==
  /\ req[r].pc = "assetClear"
  /\ asset' = [asset EXCEPT !.row = FALSE]
  /\ GoTo(r, IF has THEN "assetWrite" ELSE "invalidate")
  /\ UNCHANGED <<crossed, notAssets>>

WriteAsset(r) ==
  /\ req[r].pc = "assetWrite"
  /\ asset' = [asset EXCEPT !.file = TRUE]
  /\ GoTo(r, "assetRow")
  /\ UNCHANGED <<crossed, notAssets>>

CreateAsset(r) ==
  /\ req[r].pc = "assetRow"
  /\ IF asset.row
     THEN GoTo(r, "refused") /\ CutOff(r) /\ UNCHANGED asset
     ELSE GoTo(r, "invalidate") /\ asset' = [asset EXCEPT !.row = TRUE] /\ UNCHANGED cacheLate
  /\ UNCHANGED <<rows, file, given, torn, dropped, crossed, cache, judgeVars, faults>>

InvalidateNotDeletes(r) ==      \* mutant: deleteTestcase does not invalidate
  /\ req[r].pc = "invalidate"
  /\ GoTo(r, "ok")
  /\ cache' = IF req[r].op = "delete" THEN cache ELSE NoList
  /\ cacheLate' = (cacheLate /\ cache' # NoList)
  /\ UNCHANGED <<rows, file, given, torn, dropped, assetVars, judgeVars, faults>>

Invalidate(r) ==
  /\ req[r].pc = "invalidate"
  /\ GoTo(r, "ok")
  /\ cache' = NoList /\ cacheLate' = FALSE
  /\ UNCHANGED <<rows, file, given, torn, dropped, assetVars, judgeVars, faults>>

-----------------------------------------------------------------------------
(* Submissions. *)

(* create makes a result row for every testcase.                           *)
Submit(s) ==
  /\ sub[s].pc = "none"
  /\ sub' = [sub EXCEPT ![s].pc = "created"]
  /\ results' = [results EXCEPT ![s] = RowIds]
  /\ UNCHANGED <<editorVars, cache, cacheLate, workerCache, judged, faults>>

(* loadSubmission takes the list from the cache, or reads it.              *)
Load(s) ==
  /\ sub[s].pc = "created"
  /\ sub' = [sub EXCEPT ![s].pc = IF cache = NoList THEN "put" ELSE "sync",
                        ![s].list = IF cache = NoList THEN List ELSE cache,
                        ![s].late = FALSE]
  /\ UNCHANGED <<editorVars, cache, cacheLate, workerCache, results, judged, faults>>

PutInCache(s) ==
  /\ sub[s].pc = "put"
  /\ cache' = sub[s].list /\ cacheLate' = sub[s].late
  /\ sub' = [sub EXCEPT ![s].pc = "sync"]
  /\ UNCHANGED <<editorVars, workerCache, results, judged, faults>>

(* syncTestcaseResults deletes the results of testcases that are not on    *)
(* the list and creates those that are missing, which fails for one that   *)
(* has been deleted. The task that is queued does not carry the list.      *)
Sync(s) ==
  LET listed == {e.id : e \in sub[s].list} IN
  /\ sub[s].pc = "sync"
  /\ IF listed \subseteq RowIds
     THEN /\ results' = [results EXCEPT ![s] = listed]
          /\ sub' = [sub EXCEPT ![s].pc = "queued"]
     ELSE /\ results' = [results EXCEPT ![s] = @ \cap listed]
          /\ sub' = [sub EXCEPT ![s].pc = "failed"]
  /\ judged' = [judged EXCEPT ![s] = {}]
  /\ UNCHANGED <<editorVars, cache, cacheLate, workerCache, faults>>

(* The worker looks into its own cache, and reads the rows once for all.   *)
ResolveTestcases(s) ==
  /\ sub[s].pc = "queued"
  /\ workerCache' = IF workerCache = NoList THEN List ELSE workerCache
  /\ sub' = [sub EXCEPT ![s].pc = "running", ![s].list = workerCache']
  /\ UNCHANGED <<editorVars, cache, cacheLate, results, judged, faults>>

Readable(i) == \A side \in Sides : file[i][side] # Absent

JudgeAnyway(s) ==               \* mutant: a result row that is missing is created
  LET listed == {e.id : e \in sub[s].list} IN
  /\ sub[s].pc = "running"
  /\ IF \A i \in listed : Readable(i)
     THEN /\ judged' = [judged EXCEPT ![s] = listed]
          /\ sub' = [sub EXCEPT ![s].pc = "judged"]
     ELSE judged' = judged /\ sub' = [sub EXCEPT ![s].pc = "failed"]
  /\ UNCHANGED <<editorVars, cache, cacheLate, workerCache, results, faults>>

(* The loop over the testcases: reading the files and updating the result  *)
(* of each fails when they are not there, and SYSTEM_ERROR is the verdict. *)
Judge(s) ==
  LET listed == {e.id : e \in sub[s].list} IN
  /\ sub[s].pc = "running"
  /\ IF \A i \in listed : Readable(i) /\ i \in results[s]
     THEN /\ judged' = [judged EXCEPT ![s] = listed]
          /\ sub' = [sub EXCEPT ![s].pc = "judged"]
     ELSE judged' = judged /\ sub' = [sub EXCEPT ![s].pc = "failed"]
  /\ UNCHANGED <<editorVars, cache, cacheLate, workerCache, results, faults>>

Rejudge(s) ==
  /\ sub[s].pc \in {"judged", "failed"} /\ sub[s].again < MaxRejudges
  /\ sub' = [sub EXCEPT ![s].pc = "created", ![s].again = @ + 1]
  /\ UNCHANGED <<editorVars, cache, cacheLate, workerCache, results, judged, faults>>

-----------------------------------------------------------------------------
(* Faults. *)

Active(r) == req[r].pc \in {"conflict", "clear", "in", "out", "row", "invalidate"} \union AssetPlaces
Torn(rs) == torn \union {req[r].id : r \in {x \in rs : req[x].op = "update"}}

(* deleteTestcase and syncAssets ignore a file that cannot be deleted, and *)
(* go on.                                                                  *)
DeleteIgnored(r, side) ==
  /\ faults < MaxFaults /\ req[r].pc = side /\ req[r].op = "delete"
  /\ faults' = faults + 1
  /\ GoTo(r, AfterFile(side))
  /\ UNCHANGED <<rows, file, given, torn, dropped, assetVars, cache, cacheLate, judgeVars>>

DropIgnored(r) ==
  /\ faults < MaxFaults /\ req[r].pc = "assetDrop"
  /\ faults' = faults + 1
  /\ GoTo(r, "assetClear")
  /\ UNCHANGED <<rows, file, given, torn, dropped, assetVars, cache, cacheLate, judgeVars>>

Stopped(rs) == crossed' = (crossed \/ \E x \in rs : req[x].pc = "assetClear" /\ req[x].found)

(* A statement or a call of the storage fails, and the handler with it.    *)
Fail(r) ==
  /\ faults < MaxFaults /\ Active(r) /\ req[r].pc # "invalidate"
  /\ ~(req[r].op = "delete" /\ req[r].pc \in Sides) /\ req[r].pc # "assetDrop"
  /\ faults' = faults + 1
  /\ GoTo(r, "refused")
  /\ torn' = Torn({r}) /\ Stopped({r})
  /\ IF req[r].pc = "clear" THEN UNCHANGED cacheLate ELSE CutOff(r)
  /\ UNCHANGED <<rows, file, given, dropped, asset, cache, judgeVars>>

(* The API restarts: its handlers and its cache are gone; what was being   *)
(* queued is recovered.                                                    *)
RestartApi ==
  /\ faults < MaxFaults
  /\ faults' = faults + 1
  /\ req' = [r \in Requests |-> IF Active(r) THEN [req[r] EXCEPT !.pc = "refused"] ELSE req[r]]
  /\ torn' = Torn({r \in Requests : Active(r)}) /\ Stopped(Requests)
  /\ cache' = NoList /\ cacheLate' = FALSE
  /\ sub' = [s \in Subs |-> IF sub[s].pc \in {"put", "sync"}
                            THEN [sub[s] EXCEPT !.pc = "created"] ELSE sub[s]]
  /\ UNCHANGED <<rows, file, given, dropped, asset, workerCache, results, judged>>

RestartWorker ==
  /\ faults < MaxFaults
  /\ faults' = faults + 1
  /\ workerCache' = NoList
  /\ sub' = [s \in Subs |-> IF sub[s].pc = "running" THEN [sub[s] EXCEPT !.pc = "queued"]
                            ELSE sub[s]]
  /\ UNCHANGED <<editorVars, cache, cacheLate, results, judged>>

-----------------------------------------------------------------------------
Edit(r) ==
  \/ \E ord \in 0..MaxOrdinal \union {NextOrdinal} : StartCreate(r, ord)
  \/ \E i \in Ids : \/ StartDelete(r, i)
                    \/ \E ord \in 0..MaxOrdinal, sides \in SUBSET Sides :
                         StartUpdate(r, i, ord, sides)
  \/ \E n \in ImportSizes : StartImport(r, n)
  \/ Conflict(r) \/ Clear(r) \/ WriteRow(r) \/ Invalidate(r)
  \/ \E side \in Sides : WriteFile(r, side)
  \/ FindAsset(r) \/ DropAsset(r) \/ WriteAsset(r) \/ CreateAsset(r)
  \/ \E has \in BOOLEAN : ClearAsset(r, has)

Next ==
  \/ \E r \in Requests : Edit(r) \/ Fail(r) \/ DropIgnored(r) \/ \E side \in Sides : DeleteIgnored(r, side)
  \/ \E s \in Subs : \/ Submit(s) \/ Load(s) \/ PutInCache(s) \/ Sync(s)
                     \/ ResolveTestcases(s) \/ Judge(s) \/ Rejudge(s)
  \/ RestartApi \/ RestartWorker

Spec == Init /\ [][Next]_vars

-----------------------------------------------------------------------------
(* The type of every variable. *)
Entries == [id : Ids, ord : Nat]
TypeOK ==
  /\ rows \subseteq [id : Ids, ord : Nat, sum : Contents]
  /\ file \in [Ids -> [Sides -> Contents]]
  /\ given \in Ids
  /\ cache = NoList \/ cache \subseteq Entries
  /\ workerCache = NoList \/ workerCache \subseteq Entries
  /\ cacheLate \in BOOLEAN
  /\ torn \subseteq Ids /\ dropped \subseteq Ids
  /\ results \in [Subs -> SUBSET Ids] /\ judged \in [Subs -> SUBSET Ids]
  /\ asset \in [row : BOOLEAN, file : BOOLEAN] /\ crossed \in BOOLEAN
  /\ faults \in 0..MaxFaults

(* The list in the cache of the API is that of the database as soon as the *)
(* handlers that change it have finished, except in two cases: it was read *)
(* before a change and cached after the invalidation, or an import that    *)
(* had changed rows failed.                                                *)
Changing(r) == \/ req[r].pc = "invalidate"
               \/ req[r].op = "import" /\ req[r].pc \in {"in", "out", "row"} \union AssetPlaces
CacheAgrees ==
  cache # NoList /\ ~cacheLate /\ (\A r \in Requests : ~Changing(r)) => cache = List

(* Whatever fails or restarts in the middle of a handler, a testcase has   *)
(* both its files unless its own deletion has begun (which takes the files *)
(* away even when the database then keeps the row). An asset has its file, *)
(* unless an import is about to remove its row, has stopped there, or has  *)
(* met another import.                                                     *)
RowHasFiles ==
  /\ \A row \in rows : Readable(row.id) \/ row.id \in dropped
  /\ asset.row => \/ asset.file \/ crossed
                  \/ \E r \in Requests : req[r].pc = "assetClear" /\ req[r].found

(* The checksum of a row is that of its input, unless an update of the     *)
(* testcase is under way, has failed, or overlapped another.               *)
ChecksumAgrees ==
  \A row \in rows :
    row.sum = file[row.id]["in"] \/ row.id \in torn \union dropped \/ Updating(row.id) # {}

(* However stale the two caches are, a verdict rests on testcases that     *)
(* exist and that the submission has a result for.                         *)
StaleNeverScores ==
  \A s \in Subs : sub[s].pc = "judged" =>
    judged[s] \subseteq results[s] /\ judged[s] \subseteq RowIds
=============================================================================
