----------------------- MODULE ProblemCatalogueProofs -----------------------
(***************************************************************************)
(* Proofs about ProblemCatalogue for every set of requests and submissions, *)
(* every size of an archive and every number of testcases and faults.      *)
(***************************************************************************)
EXTENDS ProblemCatalogue, FiniteSetTheorems, WellFoundedInduction, TLAPS

Places == {"conflict", "clear", "in", "out", "row", "invalidate"} \union AssetPlaces
Pcs == Places \union {"new", "ok", "refused"}
ListEntries == [id : Ids, ord : Int]
RowType == [id : Ids, ord : Int, sum : Contents]
RequestType ==
  [pc : Pcs, op : {"create", "update", "delete", "import"},
   id : Ids, ord : Int, sides : SUBSET Sides, sum : Contents, left : Int, size : Int,
   found : BOOLEAN]
SubType ==
  [pc : {"none", "created", "put", "sync", "queued", "running", "judged", "failed"},
   list : SUBSET ListEntries, late : BOOLEAN, again : Int]

CatalogueTypes ==
  /\ rows \subseteq RowType /\ IsFiniteSet(rows)
  /\ file \in [Ids -> [Sides -> Contents]]
  /\ given \in Ids
  /\ cache = NoList \/ cache \subseteq ListEntries
  /\ workerCache = NoList \/ workerCache \subseteq ListEntries
  /\ torn \subseteq Ids /\ dropped \subseteq Ids
  /\ req \in [Requests -> RequestType] /\ sub \in [Subs -> SubType]
  /\ results \in [Subs -> SUBSET Ids] /\ judged \in [Subs -> SUBSET Ids]
  /\ asset \in [row : BOOLEAN, file : BOOLEAN]
  /\ crossed \in BOOLEAN /\ cacheLate \in BOOLEAN

(* Ids are given once: a row has an id of its own, and a testcase that is  *)
(* being created is nobody else's.                                         *)
Creating(r) == req[r].op \in {"create", "import"} /\ req[r].pc \in {"in", "out", "row"}
IdInv ==
  /\ \A a, b \in rows : a.id = b.id => a = b
  /\ \A row \in rows : row.id <= given
  /\ \A r \in Requests : req[r].id <= given
  /\ \A r \in Requests : Creating(r) =>
       /\ req[r].id \notin RowIds /\ req[r].id # 1
       /\ \A x \in Requests \ {r} : req[x].id # req[r].id
  /\ \A r \in Requests : req[r].pc \in {"clear"} \union AssetPlaces => req[r].op = "import"
  /\ \A r \in Requests : req[r].pc = "conflict" => req[r].op = "update"

(* The caches. *)
CacheInv ==
  /\ CacheAgrees
  /\ \A s \in Subs : sub[s].pc = "put" /\ ~sub[s].late => sub[s].list = List

(* The results of a submission are of testcases that have a row.           *)
ResultInv ==
  /\ \A s \in Subs : results[s] \subseteq RowIds
  /\ \A s \in Subs : sub[s].pc = "judged" => judged[s] \subseteq results[s]

(* The files. *)
FileInv ==
  /\ \A row \in rows : Readable(row.id) \/ row.id \in dropped
  /\ \A r \in Requests : req[r].op = "delete" /\ req[r].pc \in {"in", "out"} =>
       req[r].id \in dropped
  /\ \A r \in Requests : req[r].op = "import" \/ Creating(r) =>
       req[r].sum = r /\ req[r].sides = Sides
  /\ \A r \in Requests : Creating(r) =>
       /\ req[r].pc \in {"out", "row"} => file[req[r].id]["in"] = r
       /\ req[r].pc = "row" => file[req[r].id]["out"] = r

(* The asset: as long as no two imports meet, one is past its search.      *)
AfterFind(r) == req[r].pc \in AssetPlaces \ {"assetFind"}
AssetInv ==
  /\ \A r \in Requests : req[r].pc = "assetDrop" => req[r].found
  /\ \/ crossed
     \/ /\ asset.row => \/ asset.file
                        \/ \E r \in Requests : req[r].pc = "assetClear" /\ req[r].found
        /\ \A r, x \in Requests : AfterFind(r) /\ AfterFind(x) => r = x
        /\ \A r \in Requests : req[r].pc = "assetRow" => asset.file

(* A testcase whose updates neither overlap nor fail has one at most, and  *)
(* the checksum that this will write is that of the input it has written.  *)
Settled(row) == row.sum = file[row.id]["in"]
SumAt(row) ==
  row.id \notin torn \union dropped =>
    /\ \A r, x \in Updating(row.id) : r = x
    /\ Updating(row.id) = {} => Settled(row)
    /\ \A r \in Updating(row.id) :
         /\ req[r].pc \in {"conflict", "in"} =>
              Settled(row) /\ req[r].sum = IF "in" \in req[r].sides THEN r ELSE row.sum
         /\ req[r].pc \in {"out", "row"} => req[r].sum = file[row.id]["in"]
         /\ req[r].pc = "invalidate" => Settled(row)
SumInv == \A row \in rows : SumAt(row)

CatalogueInv ==
  /\ CatalogueTypes /\ IdInv /\ CacheInv /\ ResultInv /\ FileInv /\ AssetInv /\ SumInv

(* A finite set of integers has a maximum.                                 *)
LessNat == {p \in Nat \X Nat : p[1] < p[2]}

LEMMA LeastNat ==
  ASSUME NEW S \in SUBSET Nat, S # {} PROVE \E n \in S : \A m \in S : n <= m
<1>1. OpToRel(<, Nat) = LessNat
  BY DEF OpToRel, LessNat
<1>2. IsWellFoundedOn(LessNat, Nat)
  BY <1>1, NatLessThanWellFounded
<1>3. PICK n \in S : \A m \in S : ~(<<m, n>> \in LessNat)
  BY <1>2, WFMin
<1>4. ASSUME NEW m \in S, m < n PROVE FALSE
  <2>1. <<m, n>> \in Nat \X Nat /\ <<m, n>>[1] < <<m, n>>[2]
    BY <1>4
  <2>2. QED BY <1>3, <2>1 DEF LessNat
<1>5. QED BY <1>4

LEMMA Greatest ==
  ASSUME NEW S \in SUBSET Int, IsFiniteSet(S), S # {}
  PROVE  Max(S) \in S
<1> DEFINE Above(x) == {y \in S : y > x}
           Counts == {Cardinality(Above(x)) : x \in S}
<1>1. ASSUME NEW x \in S PROVE IsFiniteSet(Above(x)) /\ Cardinality(Above(x)) \in Nat
  BY FS_Subset, FS_CardinalityType
<1>2. PICK x \in S : \A y \in S : Cardinality(Above(x)) <= Cardinality(Above(y))
  <2>1. Counts \in SUBSET Nat /\ Counts # {}
    BY <1>1
  <2>2. PICK n \in Counts : \A m \in Counts : n <= m
    BY <2>1, LeastNat
  <2>3. QED BY <2>2
<1>3. ASSUME NEW y \in S, y > x PROVE FALSE
  <2>1. Above(y) \subseteq Above(x) /\ y \in Above(x) /\ y \notin Above(y)
    <3>1. \A z \in S : z \in Int
      OBVIOUS
    <3>2. x \in Int /\ y \in Int
      BY <3>1
    <3>3. ASSUME NEW z \in Above(y) PROVE z \in Above(x)
      BY <1>3, <3>1, <3>2
    <3>4. Above(y) \subseteq Above(x)
      <4> HIDE DEF Above
      <4>1. QED BY <3>3
    <3>5. y \in Above(x)
      BY <1>3
    <3>6. y \notin Above(y)
      BY <3>2
    <3>7. QED BY <3>4, <3>5, <3>6
  <2>2. Cardinality(Above(y)) < Cardinality(Above(x))
    <3> HIDE DEF Above
    <3>1. QED BY <1>1, <2>1, FS_Subset
  <2>3. QED BY <1>1, <1>2, <2>2
<1>4. \E z \in S : \A y \in S : z >= y
  BY <1>3
<1>5. QED BY <1>4 DEF Max

-----------------------------------------------------------------------------
(* Types. *)

LEMMA PcFacts ==
  /\ "new" \in Pcs /\ "ok" \in Pcs /\ "refused" \in Pcs /\ "conflict" \in Pcs
  /\ "clear" \in Pcs /\ "in" \in Pcs /\ "out" \in Pcs /\ "row" \in Pcs
  /\ "invalidate" \in Pcs /\ "assetFind" \in Pcs /\ "assetDrop" \in Pcs
  /\ "assetClear" \in Pcs /\ "assetWrite" \in Pcs /\ "assetRow" \in Pcs
BY DEF Pcs, Places, AssetPlaces

(* What a request keeps when it goes on to another place.                  *)
Same(r) ==
  /\ req'[r].op = req[r].op /\ req'[r].id = req[r].id /\ req'[r].ord = req[r].ord
  /\ req'[r].sides = req[r].sides /\ req'[r].sum = req[r].sum /\ req'[r].left = req[r].left
  /\ req'[r].size = req[r].size /\ req'[r].found = req[r].found

LEMMA GoToFacts ==
  ASSUME CatalogueTypes, NEW r \in Requests, NEW pc \in Pcs, GoTo(r, pc)
  PROVE  /\ req' \in [Requests -> RequestType]
         /\ \A x \in Requests \ {r} : req'[x] = req[x]
         /\ req'[r].pc = pc /\ Same(r)
BY DEF CatalogueTypes, RequestType, GoTo, Same

LEMMA OrdinalsAreInts ==
  ASSUME CatalogueTypes PROVE Ordinals \subseteq Int /\ NextOrdinal \in Int
<1>1. Ordinals \subseteq Int
  BY DEF CatalogueTypes, Ordinals, RowType
<1>2. IsFiniteSet(Ordinals \union {-1})
  <2>1. IsFiniteSet(Ordinals)
    <3> DEFINE f == [row \in rows |-> row.ord]
    <3>1. f \in Surjection(rows, Ordinals)
      BY DEF Surjection, Ordinals
    <3>2. QED BY <3>1, FS_Surjection DEF CatalogueTypes
  <2>2. QED BY <2>1, FS_AddElement
<1>3. Max(Ordinals \union {-1}) \in Int
  <2> DEFINE S == Ordinals \union {-1}
  <2>1. S \in SUBSET Int /\ S # {}
    BY <1>1
  <2> HIDE DEF S
  <2>2. Max(S) \in S
    BY <1>2, <2>1, Greatest DEF S
  <2>3. QED BY <2>1, <2>2 DEF S
<1>4. QED BY <1>1, <1>3 DEF NextOrdinal

LEMMA NewRequestType == NewRequest \in RequestType
BY CatalogueAssumption, PcFacts DEF NewRequest, RequestType, Ids, Contents, Sides

(* A request that changes its place, and one that goes to a testcase.      *)
LEMMA ChangedPlace ==
  ASSUME NEW q \in RequestType, NEW pc \in Pcs, NEW left \in Int
  PROVE  [q EXCEPT !.pc = pc, !.left = left] \in RequestType
<1>1. [q EXCEPT !.pc = pc] \in RequestType
  BY DEF RequestType
<1>2. \A z \in RequestType : [z EXCEPT !.left = left] \in RequestType
  BY DEF RequestType
<1>3. [q EXCEPT !.pc = pc, !.left = left] = [[q EXCEPT !.pc = pc] EXCEPT !.left = left]
  OBVIOUS
<1>4. QED BY <1>1, <1>2, <1>3

LEMMA ChangedTestcase ==
  ASSUME NEW q \in RequestType, NEW pc \in Pcs, NEW id \in Ids, NEW left \in Int, NEW ord \in Int
  PROVE  [q EXCEPT !.pc = pc, !.id = id, !.left = left, !.ord = ord] \in RequestType
<1>1. \A z \in RequestType, x \in Pcs : [z EXCEPT !.pc = x] \in RequestType
  BY DEF RequestType
<1>2. \A z \in RequestType, x \in Int : [z EXCEPT !.left = x] \in RequestType
  BY DEF RequestType
<1>3. \A z \in RequestType, x \in Int : [z EXCEPT !.ord = x] \in RequestType
  BY DEF RequestType
<1>4. \A z \in RequestType, x \in Ids : [z EXCEPT !.id = x] \in RequestType
  BY DEF RequestType
<1>5. [q EXCEPT !.pc = pc, !.id = id, !.left = left, !.ord = ord] =
        [[[[q EXCEPT !.pc = pc] EXCEPT !.id = id] EXCEPT !.left = left] EXCEPT !.ord = ord]
  OBVIOUS
<1>6. [[[q EXCEPT !.pc = pc] EXCEPT !.id = id] EXCEPT !.left = left] \in RequestType
  BY <1>1, <1>2, <1>4
<1>7. QED BY <1>3, <1>5, <1>6

LEMMA StartFacts ==
  ASSUME CatalogueTypes, NEW r \in Requests, NEW q \in RequestType, req' = [req EXCEPT ![r] = q]
  PROVE  /\ req' \in [Requests -> RequestType]
         /\ \A x \in Requests \ {r} : req'[x] = req[x]
         /\ req'[r] = q
BY DEF CatalogueTypes

LEMMA SubFacts ==
  ASSUME CatalogueTypes, NEW s \in Subs, NEW e \in SubType, sub' = [sub EXCEPT ![s] = e]
  PROVE  /\ sub' \in [Subs -> SubType]
         /\ \A x \in Subs \ {s} : sub'[x] = sub[x]
         /\ sub'[s] = e
BY DEF CatalogueTypes

LEMMA LateFacts ==
  ASSUME CatalogueTypes, Late
  PROVE  /\ sub' \in [Subs -> SubType]
         /\ \A s \in Subs : /\ sub'[s].pc = sub[s].pc /\ sub'[s].list = sub[s].list
                            /\ sub'[s].pc = "put" => sub'[s].late
<1>1. \A s \in Subs : sub[s] \in SubType
  BY DEF CatalogueTypes
<1>2. \A s \in Subs : [sub[s] EXCEPT !.late = @ \/ sub[s].pc = "put"] \in SubType
  BY <1>1 DEF SubType
<1>3. \A s \in Subs : sub'[s] = [sub[s] EXCEPT !.late = @ \/ sub[s].pc = "put"]
  BY DEF Late
<1>4. \A s \in Subs : sub'[s].pc = sub[s].pc /\ sub'[s].list = sub[s].list
  BY <1>1, <1>3 DEF SubType
<1>5. \A s \in Subs : sub'[s].late = (sub[s].late \/ sub[s].pc = "put")
  BY <1>1, <1>3 DEF SubType
<1>6. sub' \in [Subs -> SubType]
  BY <1>2 DEF Late
<1>7. QED BY <1>4, <1>5, <1>6

LEMMA ListType == CatalogueTypes => List \subseteq ListEntries
BY DEF CatalogueTypes, List, Entry, ListEntries, RowType

(* The next testcase of an import, or its assets.                          *)
LEMMA NextOfImportFacts ==
  ASSUME CatalogueTypes, NEW r \in Requests, NEW n \in Int, NextOfImport(r, n)
  PROVE  /\ req' \in [Requests -> RequestType]
         /\ \A x \in Requests \ {r} : req'[x] = req[x]
         /\ req'[r].op = req[r].op /\ req'[r].sum = req[r].sum /\ req'[r].sides = req[r].sides
         /\ given' \in Ids /\ given <= given'
         /\ \/ req'[r].pc = "assetFind" /\ req'[r].id = req[r].id /\ given' = given
            \/ req'[r].pc = "in" /\ req'[r].id = given + 1 /\ given' = given + 1
<1>1. req[r] \in RequestType
  BY DEF CatalogueTypes
<1>2. CASE n = 0
  <2>1. req' = [req EXCEPT ![r] = [req[r] EXCEPT !.pc = "assetFind", !.left = 0]]
    BY <1>2 DEF NextOfImport, CatalogueTypes, RequestType
  <2>2. [req[r] EXCEPT !.pc = "assetFind", !.left = 0] \in RequestType
    <3>1. \A pc \in Pcs, left \in Int : [req[r] EXCEPT !.pc = pc, !.left = left] \in RequestType
      BY <1>1, ChangedPlace
    <3>2. "assetFind" \in Pcs /\ 0 \in Int
      BY PcFacts
    <3>3. QED BY <3>1, <3>2, Zenon
  <2>3. QED BY <1>1, <1>2, <2>1, <2>2, StartFacts, CatalogueAssumption
            DEF NextOfImport, RequestType, CatalogueTypes, Ids
<1>3. CASE n # 0
  <2> DEFINE q == [req[r] EXCEPT !.pc = "in", !.id = given + 1, !.left = n,
                                 !.ord = req[r].size - n]
  <2>1. req' = [req EXCEPT ![r] = q]
    BY <1>1, <1>3 DEF NextOfImport, CatalogueTypes, RequestType
  <2>2. given \in Int /\ given + 1 \in Ids /\ given' = given + 1
    BY <1>3, CatalogueAssumption DEF NextOfImport, CatalogueTypes, Ids
  <2>3. q \in RequestType
    <3>1. n \in Int /\ req[r].size - n \in Int
      BY <1>1 DEF RequestType
    <3>2. QED BY <1>1, <2>2, <3>1, PcFacts, ChangedTestcase
  <2>4. q.op = req[r].op /\ q.sum = req[r].sum /\ q.sides = req[r].sides /\ q.pc = "in"
        /\ q.id = given + 1
    BY <1>1 DEF RequestType
  <2> HIDE DEF q
  <2>5. req' \in [Requests -> RequestType] /\ req'[r] = q
        /\ \A x \in Requests \ {r} : req'[x] = req[x]
    BY <2>1, <2>3, StartFacts
  <2>6. QED BY <2>2, <2>4, <2>5
<1>4. QED BY <1>2, <1>3

LEMMA RowOfFacts ==
  ASSUME CatalogueTypes, NEW i \in RowIds
  PROVE  RowOf(i) \in rows /\ RowOf(i).id = i /\ i \in Ids
<1>1. PICK row \in rows : row.id = i
  BY DEF RowIds
<1>2. RowOf(i) \in rows /\ RowOf(i).id = i
  BY <1>1 DEF RowOf
<1>3. QED BY <1>2 DEF CatalogueTypes, RowType

LEMMA StartTypes ==
  ASSUME CatalogueTypes, NEW r \in Requests,
         \/ \E ord \in Int : StartCreate(r, ord)
         \/ \E i \in Ids, ord \in Int, sides \in SUBSET Sides : StartUpdate(r, i, ord, sides)
         \/ \E i \in Ids : StartDelete(r, i)
         \/ \E n \in ImportSizes : StartImport(r, n)
  PROVE  CatalogueTypes'
<1> USE NewRequestType, PcFacts
<1>0. r \in Contents
  BY DEF Contents
<1>1. ASSUME NEW ord \in Int, StartCreate(r, ord) PROVE CatalogueTypes'
  <2> DEFINE q == [NewRequest EXCEPT !.pc = "in", !.id = given + 1, !.sides = Sides,
                                     !.sum = r, !.ord = ord]
  <2>1. given' \in Ids /\ given' = given + 1
    <3>1. given \in 1..MaxIds /\ MaxIds \in Nat
      BY CatalogueAssumption DEF CatalogueTypes, Ids
    <3>2. given < MaxIds /\ given' = given + 1
      BY <1>1 DEF StartCreate
    <3>3. QED BY <3>1, <3>2 DEF Ids
  <2>2. q \in RequestType
    BY <1>0, <2>1 DEF NewRequest, RequestType
  <2>3. req' = [req EXCEPT ![r] = q]
    BY <1>1 DEF StartCreate
  <2> HIDE DEF q
  <2>4. QED BY <1>1, <2>1, <2>2, <2>3, StartFacts
            DEF StartCreate, CatalogueTypes, assetVars, judgeVars
<1>2. ASSUME NEW i \in Ids, NEW ord \in Int, NEW sides \in SUBSET Sides, StartUpdate(r, i, ord, sides)
      PROVE  CatalogueTypes'
  <2> DEFINE pc == IF ord # RowOf(i).ord THEN "conflict" ELSE "in"
             q == [NewRequest EXCEPT !.pc = pc, !.op = "update", !.id = i, !.ord = ord,
                                     !.sides = sides, !.sum = Sum(r, i, sides)]
  <2>1. pc \in Pcs
    OBVIOUS
  <2>2. Sum(r, i, sides) \in Contents
    <3>1. RowOf(i) \in rows
      BY <1>2, RowOfFacts DEF StartUpdate
    <3>2. QED BY <1>0, <3>1 DEF Sum, CatalogueTypes, RowType
  <2>3. req' = [req EXCEPT ![r] = q]
    BY <1>2 DEF StartUpdate
  <2> HIDE DEF pc
  <2>4. q \in RequestType
    BY <2>1, <2>2 DEF NewRequest, RequestType
  <2> HIDE DEF q
  <2>5. torn' \subseteq Ids
    BY <1>2 DEF StartUpdate, CatalogueTypes
  <2>6. QED BY <1>2, <2>3, <2>4, <2>5, StartFacts
            DEF StartUpdate, CatalogueTypes, assetVars, judgeVars
<1>3. ASSUME NEW i \in Ids, StartDelete(r, i) PROVE CatalogueTypes'
  <2> DEFINE q == [NewRequest EXCEPT !.pc = "in", !.op = "delete", !.id = i, !.sides = Sides]
  <2>1. q \in RequestType
    BY DEF NewRequest, RequestType
  <2>2. req' = [req EXCEPT ![r] = q]
    BY <1>3 DEF StartDelete
  <2> HIDE DEF q
  <2>3. QED BY <1>3, <2>1, <2>2, StartFacts
            DEF StartDelete, CatalogueTypes, assetVars, judgeVars
<1>4. ASSUME NEW n \in ImportSizes, StartImport(r, n) PROVE CatalogueTypes'
  <2> DEFINE q == [NewRequest EXCEPT !.pc = "clear", !.op = "import", !.sides = Sides, !.sum = r,
                                     !.left = n, !.size = n]
  <2>1. n \in Int
    BY CatalogueAssumption
  <2>2. q \in RequestType
    BY <1>0, <2>1 DEF NewRequest, RequestType
  <2>3. req' = [req EXCEPT ![r] = q]
    BY <1>4 DEF StartImport
  <2> HIDE DEF q
  <2>4. QED BY <1>4, <2>2, <2>3, StartFacts
            DEF StartImport, CatalogueTypes, assetVars, judgeVars
<1>5. QED BY <1>1, <1>2, <1>3, <1>4

LEMMA PutFileType ==
  ASSUME CatalogueTypes, NEW r \in Requests, NEW side \in Sides PROVE PutFile(r, side) \in Contents
BY DEF CatalogueTypes, RequestType, PutFile, Contents

LEMMA FileFacts ==
  ASSUME CatalogueTypes, NEW r \in Requests, NEW side \in Sides, WriteFile(r, side)
  PROVE  /\ file' \in [Ids -> [Sides -> Contents]]
         /\ \A i \in Ids, k \in Sides :
              file'[i][k] = IF i = req[r].id /\ k = side THEN PutFile(r, side) ELSE file[i][k]
<1>1. req[r].id \in Ids
  BY DEF CatalogueTypes, RequestType
<1> DEFINE p == PutFile(r, side)
<1>2. p \in Contents
  BY PutFileType
<1>3. file' = [file EXCEPT ![req[r].id][side] = p]
  BY DEF WriteFile
<1> HIDE DEF p
<1>4. QED BY <1>1, <1>2, <1>3 DEF CatalogueTypes, p

LEMMA EditTypes ==
  ASSUME CatalogueTypes, NEW r \in Requests,
         \/ Conflict(r) \/ Clear(r) \/ WriteRow(r) \/ Invalidate(r)
         \/ \E side \in Sides : WriteFile(r, side) \/ DeleteIgnored(r, side)
  PROVE  CatalogueTypes'
<1> USE PcFacts
<1>1. CASE Conflict(r)
  <2>1. PICK pc \in {"refused", "in"} : GoTo(r, pc)
    BY <1>1 DEF Conflict
  <2>2. QED BY <1>1, <2>1, GoToFacts DEF Conflict, CatalogueTypes, assetVars, judgeVars
<1>2. CASE Clear(r)
  <2>1. CASE GoTo(r, "refused") /\ UNCHANGED <<rows, given, sub>>
    BY <1>2, <2>1, GoToFacts DEF Clear, CatalogueTypes, assetVars
  <2>2. CASE rows' = {} /\ NextOfImport(r, req[r].left) /\ Late
    <3>1. req[r].left \in Int
      BY DEF CatalogueTypes, RequestType
    <3>2. req' \in [Requests -> RequestType] /\ given' \in Ids
      BY <2>2, <3>1, NextOfImportFacts
    <3>3. sub' \in [Subs -> SubType]
      BY <2>2, LateFacts
    <3>4. IsFiniteSet(rows')
      BY <2>2, FS_EmptySet
    <3>5. QED BY <1>2, <2>2, <3>2, <3>3, <3>4 DEF Clear, CatalogueTypes, assetVars
  <2>3. QED BY <1>2, <2>1, <2>2 DEF Clear
<1>3. CASE WriteRow(r)
  <2> DEFINE q == req[r]
             others == {row \in rows : row.id # q.id}
             new == [id |-> q.id, ord |-> q.ord, sum |-> q.sum]
  <2>0. /\ q.id \in Ids /\ q.left \in Int /\ new \in RowType
    BY DEF CatalogueTypes, RequestType, RowType
  <2>1. CASE Refused(r)
    <3>1. GoTo(r, "refused") /\ torn' \subseteq Ids /\ UNCHANGED <<rows, given, sub>>
      BY <1>3, <2>0, <2>1 DEF WriteRow, CatalogueTypes
    <3>2. cacheLate' \in BOOLEAN
      BY <1>3, <2>1, Zenon DEF WriteRow, CutOff, CatalogueTypes
    <3>3. QED BY <1>3, <3>1, <3>2, GoToFacts DEF WriteRow, CatalogueTypes, assetVars
  <2>2. CASE ~Refused(r)
    <3>1. others \subseteq RowType /\ IsFiniteSet(others)
      BY FS_Subset DEF CatalogueTypes
    <3>2. rows' = others \/ rows' = others \union {new}
      BY <1>3, <2>2 DEF WriteRow
    <3>3. rows' \subseteq RowType /\ IsFiniteSet(rows')
      <4> HIDE DEF others, new
      <4>1. IsFiniteSet(others \union {new})
        BY <3>1, FS_AddElement
      <4>2. QED BY <2>0, <3>1, <3>2, <4>1
    <3>4. req' \in [Requests -> RequestType] /\ given' \in Ids
      <4>1. \/ NextOfImport(r, q.left - 1)
            \/ GoTo(r, "invalidate") /\ UNCHANGED given
        BY <1>3, <2>2 DEF WriteRow
      <4>2. q.left - 1 \in Int
        BY <2>0
      <4>3. QED BY <4>1, <4>2, NextOfImportFacts, GoToFacts DEF CatalogueTypes
    <3>5. sub' \in [Subs -> SubType]
      BY <1>3, <2>2, LateFacts DEF WriteRow
    <3>6. UNCHANGED <<torn, cacheLate, file, dropped, assetVars, cache, workerCache, results,
                      judged, faults>>
      BY <1>3, <2>2 DEF WriteRow
    <3>7. QED BY <3>3, <3>4, <3>5, <3>6 DEF CatalogueTypes, assetVars
  <2>3. QED BY <2>1, <2>2
<1>4. CASE Invalidate(r)
  BY <1>4, GoToFacts DEF Invalidate, CatalogueTypes, assetVars, judgeVars
<1>5. ASSUME NEW side \in Sides, WriteFile(r, side) PROVE CatalogueTypes'
  <2>1. PICK pc \in {"row", "out"} : GoTo(r, pc)
    BY <1>5 DEF WriteFile, AfterFile
  <2>2. file' \in [Ids -> [Sides -> Contents]]
    BY <1>5, FileFacts
  <2>3. QED BY <1>5, <2>1, <2>2, GoToFacts DEF WriteFile, CatalogueTypes, assetVars, judgeVars
<1>6. ASSUME NEW side \in Sides, DeleteIgnored(r, side) PROVE CatalogueTypes'
  <2>1. PICK pc \in {"row", "out"} : GoTo(r, pc)
    BY <1>6 DEF DeleteIgnored, AfterFile
  <2>2. QED BY <1>6, <2>1, GoToFacts DEF DeleteIgnored, CatalogueTypes, assetVars, judgeVars
<1>7. QED BY <1>1, <1>2, <1>3, <1>4, <1>5, <1>6

LEMMA AssetTypes ==
  ASSUME CatalogueTypes, NEW r \in Requests,
         \/ FindAsset(r) \/ DropAsset(r) \/ WriteAsset(r) \/ CreateAsset(r) \/ DropIgnored(r)
         \/ \E has \in BOOLEAN : ClearAsset(r, has)
  PROVE  CatalogueTypes'
<1> USE PcFacts
<1>0. asset = [row |-> asset.row, file |-> asset.file] /\ asset.row \in BOOLEAN /\ asset.file \in BOOLEAN
  BY DEF CatalogueTypes
<1>1. \A b \in BOOLEAN : /\ [asset EXCEPT !.row = b] \in [row : BOOLEAN, file : BOOLEAN]
                         /\ [asset EXCEPT !.file = b] \in [row : BOOLEAN, file : BOOLEAN]
  BY DEF CatalogueTypes
<1>2. CASE FindAsset(r)
  <2> DEFINE pc == IF asset.row THEN "assetDrop" ELSE "assetClear"
             q == [req[r] EXCEPT !.found = asset.row, !.pc = pc]
  <2>1. req' = [req EXCEPT ![r] = q]
    BY <1>2 DEF FindAsset
  <2>2. q \in RequestType
    <3>1. req[r] \in RequestType /\ pc \in Pcs
      BY DEF CatalogueTypes
    <3>2. \A b \in BOOLEAN, k \in Pcs : [req[r] EXCEPT !.found = b, !.pc = k] \in RequestType
      <4>1. \A z \in RequestType, b \in BOOLEAN : [z EXCEPT !.found = b] \in RequestType
        BY DEF RequestType
      <4>2. \A z \in RequestType, k \in Pcs : [z EXCEPT !.pc = k] \in RequestType
        BY DEF RequestType
      <4>3. \A b \in BOOLEAN, k \in Pcs : [req[r] EXCEPT !.found = b, !.pc = k] =
              [[req[r] EXCEPT !.found = b] EXCEPT !.pc = k]
        OBVIOUS
      <4>4. QED BY <3>1, <4>1, <4>2, <4>3
    <3> HIDE DEF pc
    <3>3. QED BY <1>0, <3>1, <3>2, Zenon
  <2> HIDE DEF q
  <2>3. req' \in [Requests -> RequestType]
    BY <2>1, <2>2, StartFacts
  <2>4. crossed' \in BOOLEAN
    BY <1>2, Zenon DEF FindAsset, CatalogueTypes
  <2>5. QED BY <1>2, <2>3, <2>4 DEF FindAsset, CatalogueTypes, notAssets, judgeVars
<1>3. CASE DropAsset(r)
  BY <1>1, <1>3, GoToFacts DEF DropAsset, CatalogueTypes, notAssets, judgeVars
<1>4. CASE WriteAsset(r)
  BY <1>1, <1>4, GoToFacts DEF WriteAsset, CatalogueTypes, notAssets, judgeVars
<1>5. CASE CreateAsset(r)
  <2>1. PICK pc \in {"refused", "invalidate"} : GoTo(r, pc)
    BY <1>5 DEF CreateAsset
  <2>2. cacheLate' \in BOOLEAN
    BY <1>5, Zenon DEF CreateAsset, CutOff, CatalogueTypes
  <2>3. asset' \in [row : BOOLEAN, file : BOOLEAN]
    BY <1>1, <1>5 DEF CreateAsset, CatalogueTypes
  <2>4. QED BY <1>5, <2>1, <2>2, <2>3, GoToFacts DEF CreateAsset, CatalogueTypes, judgeVars
<1>6. CASE DropIgnored(r)
  BY <1>6, GoToFacts DEF DropIgnored, CatalogueTypes, assetVars, judgeVars
<1>7. ASSUME NEW has \in BOOLEAN, ClearAsset(r, has) PROVE CatalogueTypes'
  <2>1. PICK pc \in {"assetWrite", "invalidate"} : GoTo(r, pc)
    BY <1>7 DEF ClearAsset
  <2>2. QED BY <1>1, <1>7, <2>1, GoToFacts DEF ClearAsset, CatalogueTypes, notAssets, judgeVars
<1>8. QED BY <1>2, <1>3, <1>4, <1>5, <1>6, <1>7

SubPcs == {"none", "created", "put", "sync", "queued", "running", "judged", "failed"}
LEMMA ChangedSub ==
  /\ \A e \in SubType, pc \in SubPcs : [e EXCEPT !.pc = pc] \in SubType
  /\ \A e \in SubType, pc \in SubPcs, list \in SUBSET ListEntries :
       [e EXCEPT !.pc = pc, !.list = list] \in SubType
BY DEF SubType, SubPcs

LEMMA SubPcFacts ==
  "none" \in SubPcs /\ "created" \in SubPcs /\ "put" \in SubPcs /\ "sync" \in SubPcs
  /\ "queued" \in SubPcs /\ "running" \in SubPcs /\ "judged" \in SubPcs /\ "failed" \in SubPcs
BY DEF SubPcs

LEMMA SubGoes ==
  ASSUME CatalogueTypes, NEW s \in Subs, NEW pc \in SubPcs, sub' = [sub EXCEPT ![s].pc = pc]
  PROVE  /\ sub' \in [Subs -> SubType]
         /\ \A x \in Subs \ {s} : sub'[x] = sub[x]
         /\ sub'[s].pc = pc /\ sub'[s].list = sub[s].list /\ sub'[s].late = sub[s].late
BY DEF CatalogueTypes, SubType, SubPcs

LEMMA LoadFacts ==
  ASSUME CatalogueTypes, NEW s \in Subs, Load(s)
  PROVE  /\ sub' \in [Subs -> SubType]
         /\ \A x \in Subs \ {s} : sub'[x] = sub[x]
         /\ sub'[s].pc = "put" => sub'[s].list = List
         /\ sub'[s].pc \in {"put", "sync"}
<1> DEFINE e == [sub[s] EXCEPT !.pc = IF cache = NoList THEN "put" ELSE "sync",
                               !.list = IF cache = NoList THEN List ELSE cache,
                               !.late = FALSE]
<1>0. sub[s] \in SubType /\ (cache # NoList => cache \in SUBSET ListEntries) /\ List \in SUBSET ListEntries
  BY ListType DEF CatalogueTypes
<1>1. sub' = [sub EXCEPT ![s] = e]
  BY DEF Load
<1>2. CASE cache = NoList
  <2>1. e = [sub[s] EXCEPT !.pc = "put", !.list = List, !.late = FALSE]
    BY <1>2
  <2>2. e \in SubType /\ e.pc = "put" /\ e.list = List
    <3> HIDE DEF e
    <3>1. QED BY <1>0, <2>1 DEF SubType
  <2> HIDE DEF e
  <2>3. QED BY <1>1, <2>2, SubFacts
<1>3. CASE cache # NoList
  <2>1. e = [sub[s] EXCEPT !.pc = "sync", !.list = cache, !.late = FALSE]
    BY <1>3
  <2>2. e \in SubType /\ e.pc = "sync"
    <3> HIDE DEF e
    <3>1. QED BY <1>0, <1>3, <2>1 DEF SubType
  <2> HIDE DEF e
  <2>3. QED BY <1>1, <2>2, SubFacts
<1>4. QED BY <1>2, <1>3

LEMMA SubTypes ==
  ASSUME CatalogueTypes, NEW s \in Subs,
         \/ Submit(s) \/ Load(s) \/ PutInCache(s) \/ Sync(s) \/ ResolveTestcases(s)
         \/ Judge(s) \/ Rejudge(s)
  PROVE  CatalogueTypes'
<1> USE SubPcFacts
<1> DEFINE listed == {e.id : e \in sub[s].list}
<1>0. sub[s] \in SubType /\ sub[s].list \subseteq ListEntries /\ listed \subseteq Ids
  BY DEF CatalogueTypes, SubType, ListEntries
<1>r. RowIds \subseteq Ids
  BY DEF CatalogueTypes, RowType, RowIds
<1>1. CASE Submit(s)
  BY <1>1, <1>r, SubGoes DEF Submit, CatalogueTypes, editorVars, assetVars
<1>2. CASE Load(s)
  BY <1>2, LoadFacts DEF Load, CatalogueTypes, editorVars, assetVars
<1>3. CASE PutInCache(s)
  <2>1. cache' \subseteq ListEntries /\ cacheLate' \in BOOLEAN
    BY <1>0, <1>3 DEF PutInCache, SubType
  <2>2. sub' \in [Subs -> SubType]
    BY <1>3, SubGoes DEF PutInCache
  <2>3. QED BY <1>3, <2>1, <2>2 DEF PutInCache, CatalogueTypes, editorVars, assetVars, judgeVars
<1>4. CASE Sync(s)
  <2>1. sub' \in [Subs -> SubType]
    BY <1>4, SubGoes DEF Sync
  <2>2. results' \in [Subs -> SUBSET Ids] /\ judged' \in [Subs -> SUBSET Ids]
    <3>1. results[s] \subseteq Ids
      BY DEF CatalogueTypes
    <3>2. results' = [results EXCEPT ![s] = listed] \/ results' = [results EXCEPT ![s] = @ \cap listed]
      BY <1>4 DEF Sync
    <3>3. judged' = [judged EXCEPT ![s] = {}]
      BY <1>4 DEF Sync
    <3> HIDE DEF listed
    <3>4. QED BY <1>0, <3>1, <3>2, <3>3 DEF CatalogueTypes
  <2>3. QED BY <1>4, <2>1, <2>2 DEF Sync, CatalogueTypes, editorVars, assetVars
<1>5. CASE ResolveTestcases(s)
  <2>1. workerCache' \subseteq ListEntries
    BY <1>5, ListType DEF ResolveTestcases, CatalogueTypes
  <2> DEFINE e == [sub[s] EXCEPT !.pc = "running", !.list = workerCache']
  <2>2. sub' = [sub EXCEPT ![s] = e]
    BY <1>5 DEF ResolveTestcases
  <2>3. e \in SubType
    BY <1>0, <2>1, ChangedSub
  <2> HIDE DEF e
  <2>4. sub' \in [Subs -> SubType]
    BY <2>2, <2>3, SubFacts
  <2>5. QED BY <1>5, <2>1, <2>4 DEF ResolveTestcases, CatalogueTypes, editorVars, assetVars
<1>6. CASE Judge(s)
  <2>1. sub' \in [Subs -> SubType]
    BY <1>6, SubGoes DEF Judge
  <2>2. judged' = judged \/ judged' = [judged EXCEPT ![s] = listed]
    BY <1>6 DEF Judge
  <2> HIDE DEF listed
  <2>3. judged' \in [Subs -> SUBSET Ids]
    BY <1>0, <2>2 DEF CatalogueTypes
  <2>4. QED BY <1>6, <2>1, <2>3 DEF Judge, CatalogueTypes, editorVars, assetVars
<1>7. CASE Rejudge(s)
  <2> DEFINE e == [sub[s] EXCEPT !.pc = "created", !.again = @ + 1]
  <2>1. sub' = [sub EXCEPT ![s] = e]
    BY <1>7 DEF Rejudge, CatalogueTypes
  <2>2. e \in SubType
    <3>1. [sub[s] EXCEPT !.pc = "created"] \in SubType /\ sub[s].again + 1 \in Int
      BY <1>0 DEF SubType
    <3>2. \A z \in SubType, n \in Int : [z EXCEPT !.again = n] \in SubType
      BY DEF SubType
    <3>3. e = [[sub[s] EXCEPT !.pc = "created"] EXCEPT !.again = sub[s].again + 1]
      BY <1>0 DEF SubType
    <3>4. QED BY <3>1, <3>2, <3>3
  <2> HIDE DEF e
  <2>3. sub' \in [Subs -> SubType]
    BY <2>1, <2>2, SubFacts
  <2>4. QED BY <1>7, <2>3 DEF Rejudge, CatalogueTypes, editorVars, assetVars
<1>8. QED BY <1>1, <1>2, <1>3, <1>4, <1>5, <1>6, <1>7

(* What a restart of the API leaves of the requests and the submissions.   *)
LEMMA RestartApiFacts ==
  ASSUME CatalogueTypes, RestartApi
  PROVE  /\ req' \in [Requests -> RequestType] /\ sub' \in [Subs -> SubType]
         /\ \A r \in Requests : /\ req'[r].pc = IF Active(r) THEN "refused" ELSE req[r].pc
                                /\ Same(r)
         /\ \A s \in Subs : /\ sub'[s].pc = IF sub[s].pc \in {"put", "sync"}
                                            THEN "created" ELSE sub[s].pc
                            /\ sub'[s].list = sub[s].list
<1>1. \A r \in Requests : req[r] \in RequestType
  BY DEF CatalogueTypes
<1>2. \A r \in Requests : req'[r] = IF Active(r) THEN [req[r] EXCEPT !.pc = "refused"] ELSE req[r]
  BY DEF RestartApi
<1>3. \A r \in Requests : [req[r] EXCEPT !.pc = "refused"] \in RequestType
  BY <1>1, PcFacts DEF RequestType
<1>4. req' \in [Requests -> RequestType]
  BY <1>1, <1>3 DEF RestartApi
<1>5. ASSUME NEW r \in Requests
      PROVE  req'[r].pc = (IF Active(r) THEN "refused" ELSE req[r].pc) /\ Same(r)
  <2>1. CASE Active(r)
    <3>1. req'[r] = [req[r] EXCEPT !.pc = "refused"] /\ req[r] \in RequestType
      BY <1>1, <1>2, <2>1
    <3>2. QED BY <2>1, <3>1 DEF RequestType, Same
  <2>2. CASE ~Active(r)
    BY <1>2, <2>2 DEF Same
  <2>3. QED BY <2>1, <2>2
<1>6. \A s \in Subs : sub[s] \in SubType
  BY DEF CatalogueTypes
<1>7. \A s \in Subs : sub'[s] = IF sub[s].pc \in {"put", "sync"}
                                THEN [sub[s] EXCEPT !.pc = "created"] ELSE sub[s]
  BY DEF RestartApi
<1>8. \A s \in Subs : [sub[s] EXCEPT !.pc = "created"] \in SubType
  BY <1>6, ChangedSub, SubPcFacts
<1>9. sub' \in [Subs -> SubType]
  BY <1>6, <1>8 DEF RestartApi
<1>10. ASSUME NEW s \in Subs
       PROVE  /\ sub'[s].pc = IF sub[s].pc \in {"put", "sync"} THEN "created" ELSE sub[s].pc
              /\ sub'[s].list = sub[s].list
  BY <1>6, <1>7 DEF SubType
<1>11. QED BY <1>4, <1>5, <1>9, <1>10

LEMMA RestartWorkerFacts ==
  ASSUME CatalogueTypes, RestartWorker
  PROVE  /\ sub' \in [Subs -> SubType]
         /\ \A s \in Subs : /\ sub'[s].pc = IF sub[s].pc = "running" THEN "queued" ELSE sub[s].pc
                            /\ sub'[s].list = sub[s].list /\ sub'[s].late = sub[s].late
<1>1. \A s \in Subs : sub[s] \in SubType
  BY DEF CatalogueTypes
<1>2. \A s \in Subs : sub'[s] = IF sub[s].pc = "running"
                                THEN [sub[s] EXCEPT !.pc = "queued"] ELSE sub[s]
  BY DEF RestartWorker
<1>3. \A s \in Subs : [sub[s] EXCEPT !.pc = "queued"] \in SubType
  BY <1>1, ChangedSub, SubPcFacts
<1>4. sub' \in [Subs -> SubType]
  BY <1>1, <1>3 DEF RestartWorker
<1>5. QED BY <1>1, <1>2, <1>4 DEF SubType

LEMMA FaultTypes ==
  ASSUME CatalogueTypes, RestartApi \/ RestartWorker \/ \E r \in Requests : Fail(r)
  PROVE  CatalogueTypes'
<1>0. \A rs \in SUBSET Requests : Torn(rs) \subseteq Ids
  BY DEF Torn, CatalogueTypes, RequestType
<1>1. CASE RestartApi
  <2>1. torn' \subseteq Ids
    BY <1>0, <1>1 DEF RestartApi
  <2>2. crossed' \in BOOLEAN
    BY <1>1, Zenon DEF RestartApi, Stopped, CatalogueTypes
  <2>3. QED BY <1>1, <2>1, <2>2, RestartApiFacts DEF RestartApi, CatalogueTypes
<1>2. CASE RestartWorker
  BY <1>2, RestartWorkerFacts DEF RestartWorker, CatalogueTypes, editorVars, assetVars
<1>3. ASSUME NEW r \in Requests, Fail(r) PROVE CatalogueTypes'
  <2>1. torn' \subseteq Ids
    BY <1>0, <1>3 DEF Fail
  <2>2. crossed' \in BOOLEAN
    BY <1>3, Zenon DEF Fail, Stopped, CatalogueTypes
  <2>3. cacheLate' \in BOOLEAN
    BY <1>3, Zenon DEF Fail, CutOff, CatalogueTypes
  <2>4. QED BY <1>3, <2>1, <2>2, <2>3, GoToFacts, PcFacts DEF Fail, CatalogueTypes, judgeVars
<1>4. QED BY <1>1, <1>2, <1>3

LEMMA TypesKept == ASSUME CatalogueTypes, [Next]_vars PROVE CatalogueTypes'
<1>1. CASE UNCHANGED vars
  BY <1>1 DEF vars, editorVars, assetVars, judgeVars, CatalogueTypes
<1>2. ASSUME NEW r \in Requests, Edit(r) \/ Fail(r) \/ DropIgnored(r) \/ \E side \in Sides : DeleteIgnored(r, side)
      PROVE  CatalogueTypes'
  <2>1. NextOrdinal \in Int /\ 0..MaxOrdinal \subseteq Int
    BY OrdinalsAreInts, CatalogueAssumption
  <2>2. CASE \E ord \in 0..MaxOrdinal \union {NextOrdinal} : StartCreate(r, ord)
    <3>1. \E ord \in Int : StartCreate(r, ord)
      BY <2>1, <2>2
    <3>2. QED BY <3>1, StartTypes
  <2>3. CASE \E i \in Ids : \/ StartDelete(r, i)
                            \/ \E ord \in 0..MaxOrdinal, sides \in SUBSET Sides :
                                 StartUpdate(r, i, ord, sides)
    <3>1. \/ \E i \in Ids, ord \in Int, sides \in SUBSET Sides : StartUpdate(r, i, ord, sides)
          \/ \E i \in Ids : StartDelete(r, i)
      BY <2>1, <2>3, Zenon
    <3>2. QED BY <3>1, StartTypes
  <2>4. CASE \E n \in ImportSizes : StartImport(r, n)
    BY <2>4, StartTypes
  <2>5. QED BY <1>2, <2>2, <2>3, <2>4, EditTypes, AssetTypes, FaultTypes DEF Edit
<1>3. ASSUME NEW s \in Subs, \/ Submit(s) \/ Load(s) \/ PutInCache(s) \/ Sync(s)
                             \/ ResolveTestcases(s) \/ Judge(s) \/ Rejudge(s)
      PROVE  CatalogueTypes'
  BY <1>3, SubTypes
<1>4. CASE RestartApi \/ RestartWorker
  BY <1>4, FaultTypes
<1>5. QED BY <1>1, <1>2, <1>3, <1>4 DEF Next

-----------------------------------------------------------------------------
(* The results of a submission are of testcases that have a row.           *)

(* What an editor does without touching the table of the testcases.        *)
Starting(r) ==
  \/ \E ord \in 0..MaxOrdinal \union {NextOrdinal} : StartCreate(r, ord)
  \/ \E i \in Ids : \/ StartDelete(r, i)
                    \/ \E ord \in 0..MaxOrdinal, sides \in SUBSET Sides :
                         StartUpdate(r, i, ord, sides)
  \/ \E n \in ImportSizes : StartImport(r, n)
Walking(r) ==
  \/ Conflict(r) \/ Invalidate(r) \/ Fail(r) \/ DropIgnored(r)
  \/ \E side \in Sides : WriteFile(r, side) \/ DeleteIgnored(r, side)
  \/ FindAsset(r) \/ DropAsset(r) \/ WriteAsset(r) \/ CreateAsset(r)
  \/ \E has \in BOOLEAN : ClearAsset(r, has)
Judging(s) ==
  \/ Submit(s) \/ Load(s) \/ PutInCache(s) \/ Sync(s) \/ ResolveTestcases(s) \/ Judge(s)
  \/ Rejudge(s)

LEMMA NextCases ==
  Next => \/ \E r \in Requests : Starting(r) \/ Walking(r) \/ Clear(r) \/ WriteRow(r)
          \/ \E s \in Subs : Judging(s)
          \/ RestartApi \/ RestartWorker
BY Zenon DEF Next, Edit, Starting, Walking, Judging

LEMMA EditorFrame ==
  ASSUME NEW r \in Requests, Starting(r) \/ Walking(r) PROVE UNCHANGED <<rows, judgeVars>>
<1>1. CASE Starting(r)
  BY <1>1 DEF Starting, StartCreate, StartUpdate, StartDelete, StartImport
<1>2. CASE Walking(r)
  BY <1>2 DEF Walking, Conflict, Invalidate, Fail, DropIgnored, WriteFile, DeleteIgnored, FindAsset,
              DropAsset, WriteAsset, CreateAsset, ClearAsset, notAssets
<1>3. QED BY <1>1, <1>2

LEMMA JudgingFrame == ASSUME NEW s \in Subs, Judging(s) PROVE UNCHANGED editorVars
BY DEF Judging, Submit, Load, PutInCache, Sync, ResolveTestcases, Judge, Rejudge

LEMMA ResultsKept ==
  ASSUME CatalogueTypes, ResultInv, [Next]_vars PROVE ResultInv'
<1> USE SubPcFacts
<1>1. CASE UNCHANGED vars
  BY <1>1 DEF vars, editorVars, judgeVars, ResultInv, RowIds
<1>2. ASSUME NEW r \in Requests, Starting(r) \/ Walking(r) PROVE ResultInv'
  BY <1>2, EditorFrame DEF judgeVars, ResultInv, RowIds
<1>3. ASSUME NEW r \in Requests, Clear(r) PROVE ResultInv'
  <2>1. CASE UNCHANGED <<rows, sub>>
    BY <1>3, <2>1 DEF Clear, ResultInv, RowIds
  <2>2. CASE RowIds \cap Referenced = {} /\ rows' = {} /\ Late
    <3>1. \A s \in Subs : results[s] = {}
      BY <2>2 DEF ResultInv, Referenced
    <3>2. \A s \in Subs : sub'[s].pc = sub[s].pc
      BY <2>2, LateFacts
    <3>3. QED BY <1>3, <3>1, <3>2 DEF Clear, ResultInv
  <2>3. QED BY <1>3, <2>1, <2>2 DEF Clear
<1>4. ASSUME NEW r \in Requests, WriteRow(r) PROVE ResultInv'
  <2>1. CASE Refused(r)
    BY <1>4, <2>1 DEF WriteRow, ResultInv, RowIds
  <2>2. CASE ~Refused(r)
    <3> DEFINE others == {row \in rows : row.id # req[r].id}
    <3>1. \A s \in Subs : sub'[s].pc = sub[s].pc
      BY <1>4, <2>2, LateFacts DEF WriteRow
    <3>2. RowIds \ {req[r].id} \subseteq RowIds'
      <4>1. others \subseteq rows'
        BY <1>4, <2>2 DEF WriteRow
      <4>2. QED BY <4>1 DEF RowIds
    <3>3. \A s \in Subs : results[s] \subseteq RowIds'
      <4>1. CASE req[r].op = "delete"
        <5>1. \A s \in Subs : req[r].id \notin results[s]
          BY <2>2, <4>1 DEF Refused, Referenced
        <5>2. QED BY <3>2, <5>1 DEF ResultInv
      <4>2. CASE req[r].op # "delete"
        <5>1. [id |-> req[r].id, ord |-> req[r].ord, sum |-> req[r].sum] \in rows'
          BY <1>4, <2>2, <4>2 DEF WriteRow
        <5>2. req[r].id \in RowIds'
          BY <5>1 DEF RowIds
        <5>3. QED BY <3>2, <5>2 DEF ResultInv
      <4>3. QED BY <4>1, <4>2
    <3>4. QED BY <1>4, <3>1, <3>3 DEF WriteRow, ResultInv
  <2>3. QED BY <2>1, <2>2
<1>5. ASSUME NEW s \in Subs, Judging(s) PROVE ResultInv'
  <2>0. RowIds' = RowIds
    BY <1>5, JudgingFrame DEF editorVars, RowIds
  <2> DEFINE listed == {e.id : e \in sub[s].list}
  <2>1. CASE Submit(s)
    <3>1. results' = [results EXCEPT ![s] = RowIds] /\ judged' = judged
      BY <2>1 DEF Submit
    <3>2. sub'[s].pc = "created" /\ \A x \in Subs \ {s} : sub'[x] = sub[x]
      BY <2>1, SubGoes DEF Submit
    <3>3. QED BY <2>0, <3>1, <3>2 DEF ResultInv, CatalogueTypes
  <2>2. CASE Load(s)
    BY <2>0, <2>2, LoadFacts DEF Load, ResultInv
  <2>3. CASE PutInCache(s)
    <3>1. sub'[s].pc = "sync" /\ \A x \in Subs \ {s} : sub'[x] = sub[x]
      BY <2>3, SubGoes DEF PutInCache
    <3>2. QED BY <2>0, <2>3, <3>1 DEF PutInCache, ResultInv
  <2>4. CASE Sync(s)
    <3>1. sub'[s].pc # "judged" /\ \A x \in Subs \ {s} : sub'[x] = sub[x]
      BY <2>4, SubGoes DEF Sync
    <3>2. results'[s] \subseteq RowIds /\ \A x \in Subs \ {s} : results'[x] = results[x]
      BY <2>4 DEF Sync, CatalogueTypes, ResultInv
    <3>3. \A x \in Subs \ {s} : judged'[x] = judged[x]
      BY <2>4 DEF Sync, CatalogueTypes
    <3>4. QED BY <2>0, <3>1, <3>2, <3>3 DEF ResultInv
  <2>5. CASE ResolveTestcases(s)
    <3>1. workerCache' \in SUBSET ListEntries
      BY <2>5, ListType DEF ResolveTestcases, CatalogueTypes
    <3> DEFINE e == [sub[s] EXCEPT !.pc = "running", !.list = workerCache']
    <3>2. sub' = [sub EXCEPT ![s] = e]
      BY <2>5 DEF ResolveTestcases
    <3>3. e \in SubType /\ e.pc = "running"
      <4>1. sub[s] \in SubType
        BY DEF CatalogueTypes
      <4>2. e \in SubType
        BY <3>1, <4>1, ChangedSub
      <4>3. e.pc = "running"
        BY <4>1 DEF SubType
      <4>4. QED BY <4>2, <4>3
    <3> HIDE DEF e
    <3>4. sub'[s].pc = "running" /\ \A x \in Subs \ {s} : sub'[x] = sub[x]
      BY <3>2, <3>3, SubFacts
    <3>5. QED BY <2>0, <2>5, <3>4 DEF ResolveTestcases, ResultInv
  <2>6. CASE Judge(s)
    <3>1. \A x \in Subs \ {s} : sub'[x] = sub[x]
      BY <2>6, SubGoes DEF Judge
    <3>2. \A x \in Subs \ {s} : judged'[x] = judged[x]
      BY <2>6 DEF Judge, CatalogueTypes
    <3>3. CASE sub' = [sub EXCEPT ![s].pc = "judged"]
      <4>1. judged'[s] \subseteq results[s]
        <5>1. sub'[s].pc = "judged"
          BY <3>3, SubGoes
        <5>2. CASE \A i \in listed : Readable(i) /\ i \in results[s]
          <6>1. judged' = [judged EXCEPT ![s] = listed]
            BY <2>6, <5>2 DEF Judge
          <6> HIDE DEF listed
          <6>2. judged'[s] = listed
            BY <6>1 DEF CatalogueTypes
          <6>3. QED BY <5>2, <6>2
        <5>3. CASE ~\A i \in listed : Readable(i) /\ i \in results[s]
          <6>1. sub' = [sub EXCEPT ![s].pc = "failed"]
            BY <2>6, <5>3 DEF Judge
          <6>2. QED BY <5>1, <6>1, SubGoes
        <5>4. QED BY <5>2, <5>3
      <4>2. QED BY <2>0, <2>6, <3>1, <3>2, <4>1 DEF Judge, ResultInv
    <3>4. CASE sub' = [sub EXCEPT ![s].pc = "failed"]
      <4>1. sub'[s].pc = "failed"
        BY <3>4, SubGoes
      <4>2. QED BY <2>0, <2>6, <3>1, <3>2, <4>1 DEF Judge, ResultInv
    <3>5. QED BY <2>6, <3>3, <3>4 DEF Judge
  <2>7. CASE Rejudge(s)
    <3>1. sub'[s].pc = "created" /\ \A x \in Subs \ {s} : sub'[x] = sub[x]
      BY <2>7 DEF Rejudge, CatalogueTypes, SubType
    <3>2. QED BY <2>0, <2>7, <3>1 DEF Rejudge, ResultInv
  <2>8. QED BY <1>5, <2>1, <2>2, <2>3, <2>4, <2>5, <2>6, <2>7 DEF Judging
<1>6. CASE RestartApi
  BY <1>6, RestartApiFacts DEF RestartApi, ResultInv, RowIds
<1>7. CASE RestartWorker
  BY <1>7, RestartWorkerFacts DEF RestartWorker, ResultInv, RowIds, editorVars
<1>8. QED BY <1>1, <1>2, <1>3, <1>4, <1>5, <1>6, <1>7, NextCases

-----------------------------------------------------------------------------
(* Ids are given once. *)

Others(r) == \A x \in Requests \ {r} : req'[x] = req[x]
Keeps(r) == /\ req'[r].op = req[r].op /\ req'[r].id = req[r].id
            /\ req'[r].sum = req[r].sum /\ req'[r].sides = req[r].sides

(* From which place to which a request goes.                               *)
Walks(r, from, to) == req[r].pc \in from /\ req'[r].pc \in to

LEMMA FindFacts ==
  ASSUME CatalogueTypes, NEW r \in Requests, FindAsset(r)
  PROVE  /\ Others(r) /\ Keeps(r)
         /\ req'[r].pc = (IF asset.row THEN "assetDrop" ELSE "assetClear")
         /\ req'[r].found = asset.row
<1>1. req[r] \in RequestType
  BY DEF CatalogueTypes
<1> DEFINE pc == IF asset.row THEN "assetDrop" ELSE "assetClear"
<1> HIDE DEF pc
<1>2. req' = [req EXCEPT ![r].found = asset.row, ![r].pc = pc]
  BY DEF FindAsset, pc
<1>3. Others(r)
  BY <1>2 DEF Others, CatalogueTypes
<1>4. req'[r] = [req[r] EXCEPT !.found = asset.row, !.pc = pc]
  BY <1>2 DEF CatalogueTypes
<1>5. Keeps(r) /\ req'[r].pc = pc /\ req'[r].found = asset.row
  BY <1>1, <1>4 DEF Keeps, RequestType
<1>6. QED BY <1>3, <1>5 DEF pc

LEMMA WalkFacts ==
  ASSUME CatalogueTypes, NEW r \in Requests, Walking(r)
  PROVE  /\ Others(r) /\ Keeps(r)
         /\ UNCHANGED <<given, dropped>>
         /\ \/ Walks(r, {"conflict"}, {"refused", "in"})
            \/ Walks(r, {"invalidate"}, {"ok"})
            \/ Walks(r, Places \ {"invalidate", "assetDrop"}, {"refused"})
            \/ Walks(r, {"in"}, {"out"}) \/ Walks(r, {"out"}, {"row"})
            \/ Walks(r, {"assetFind"}, {"assetDrop", "assetClear"})
            \/ Walks(r, {"assetDrop"}, {"assetClear"})
            \/ Walks(r, {"assetClear"}, {"assetWrite", "invalidate"})
            \/ Walks(r, {"assetWrite"}, {"assetRow"})
            \/ Walks(r, {"assetRow"}, {"refused", "invalidate"})
<1> USE PcFacts
<1>1. ASSUME NEW pc \in Pcs, GoTo(r, pc) PROVE Others(r) /\ Keeps(r) /\ req'[r].pc = pc
  BY <1>1, GoToFacts DEF Others, Keeps, Same
<1>2. CASE Conflict(r)
  <2>1. PICK pc \in {"refused", "in"} : GoTo(r, pc)
    BY <1>2 DEF Conflict
  <2>2. QED BY <1>1, <1>2, <2>1 DEF Conflict, Walks
<1>3. CASE Invalidate(r)
  BY <1>1, <1>3 DEF Invalidate, Walks
<1>4. CASE Fail(r)
  BY <1>1, <1>4 DEF Fail, Active, Walks, Places
<1>5. CASE DropIgnored(r) \/ DropAsset(r)
  BY <1>1, <1>5 DEF DropIgnored, DropAsset, notAssets, Walks
<1>6. ASSUME NEW side \in Sides, WriteFile(r, side) \/ DeleteIgnored(r, side)
      PROVE  /\ Others(r) /\ Keeps(r) /\ UNCHANGED <<given, dropped>>
             /\ Walks(r, {"in"}, {"out"}) \/ Walks(r, {"out"}, {"row"})
  <2>1. side \in {"in", "out"} /\ req[r].pc = side /\ GoTo(r, AfterFile(side))
    BY <1>6 DEF WriteFile, DeleteIgnored, Sides
  <2>2. QED BY <1>1, <1>6, <2>1 DEF WriteFile, DeleteIgnored, AfterFile, Walks
<1>7. CASE FindAsset(r)
  BY <1>7, FindFacts DEF FindAsset, notAssets, Walks
<1>8. CASE WriteAsset(r)
  BY <1>1, <1>8 DEF WriteAsset, notAssets, Walks
<1>9. CASE CreateAsset(r)
  <2>1. PICK pc \in {"refused", "invalidate"} : GoTo(r, pc)
    BY <1>9 DEF CreateAsset
  <2>2. QED BY <1>1, <1>9, <2>1 DEF CreateAsset, Walks
<1>10. ASSUME NEW has \in BOOLEAN, ClearAsset(r, has)
       PROVE  /\ Others(r) /\ Keeps(r) /\ UNCHANGED <<given, dropped>>
              /\ Walks(r, {"assetClear"}, {"assetWrite", "invalidate"})
  <2>1. PICK pc \in {"assetWrite", "invalidate"} : GoTo(r, pc)
    BY <1>10 DEF ClearAsset
  <2>2. QED BY <1>1, <1>10, <2>1 DEF ClearAsset, notAssets, Walks
<1>11. QED BY <1>2, <1>3, <1>4, <1>5, <1>6, <1>7, <1>8, <1>9, <1>10 DEF Walking

LEMMA StartingFacts ==
  ASSUME CatalogueTypes, NEW r \in Requests, Starting(r)
  PROVE  /\ Others(r) /\ req[r].pc = "new"
         /\ \/ /\ given < MaxIds /\ given' = given + 1 /\ dropped' = dropped
               /\ req'[r].op = "create" /\ req'[r].pc = "in" /\ req'[r].id = given + 1
               /\ req'[r].sum = r /\ req'[r].sides = Sides
            \/ /\ given' = given /\ dropped' = dropped
               /\ req'[r].op = "update" /\ req'[r].pc \in {"conflict", "in"}
               /\ req'[r].id \in RowIds
            \/ /\ given' = given /\ req'[r].op = "delete" /\ req'[r].pc = "in"
               /\ req'[r].id \in RowIds /\ dropped' = dropped \union {req'[r].id}
            \/ /\ given' = given /\ dropped' = dropped
               /\ req'[r].op = "import" /\ req'[r].pc = "clear" /\ req'[r].id = 1
               /\ req'[r].sum = r /\ req'[r].sides = Sides
<1>1. ASSUME NEW q, req' = [req EXCEPT ![r] = q] PROVE Others(r) /\ req'[r] = q
  BY <1>1 DEF CatalogueTypes, Others
<1>2. ASSUME NEW ord, StartCreate(r, ord)
      PROVE  /\ Others(r) /\ req[r].pc = "new"
             /\ given < MaxIds /\ given' = given + 1 /\ dropped' = dropped
             /\ req'[r].op = "create" /\ req'[r].pc = "in" /\ req'[r].id = given + 1
             /\ req'[r].sum = r /\ req'[r].sides = Sides
  BY <1>1, <1>2 DEF StartCreate, NewRequest
<1>3. ASSUME NEW i, NEW ord, NEW sides, StartUpdate(r, i, ord, sides)
      PROVE  /\ Others(r) /\ req[r].pc = "new" /\ given' = given /\ dropped' = dropped
             /\ req'[r].op = "update" /\ req'[r].pc \in {"conflict", "in"}
             /\ req'[r].id \in RowIds
  <2> DEFINE pc == IF ord # RowOf(i).ord THEN "conflict" ELSE "in"
             sum == Sum(r, i, sides)
             q == [NewRequest EXCEPT !.pc = pc, !.op = "update", !.id = i, !.ord = ord,
                                     !.sides = sides, !.sum = sum]
  <2>1. req' = [req EXCEPT ![r] = q]
    BY <1>3 DEF StartUpdate
  <2>2. pc \in {"conflict", "in"}
    OBVIOUS
  <2> HIDE DEF pc, sum
  <2>3. q.op = "update" /\ q.pc = pc /\ q.id = i
    BY DEF NewRequest
  <2> HIDE DEF q
  <2>4. Others(r) /\ req'[r] = q
    BY <1>1, <2>1
  <2>5. QED BY <1>3, <2>2, <2>3, <2>4 DEF StartUpdate
<1>4. ASSUME NEW i, StartDelete(r, i)
      PROVE  /\ Others(r) /\ req[r].pc = "new" /\ given' = given /\ req'[r].op = "delete"
             /\ req'[r].pc = "in" /\ req'[r].id \in RowIds
             /\ dropped' = dropped \union {req'[r].id}
  BY <1>1, <1>4 DEF StartDelete, NewRequest
<1>5. ASSUME NEW n, StartImport(r, n)
      PROVE  /\ Others(r) /\ req[r].pc = "new" /\ given' = given /\ dropped' = dropped
             /\ req'[r].op = "import" /\ req'[r].pc = "clear" /\ req'[r].id = 1
             /\ req'[r].sum = r /\ req'[r].sides = Sides
  BY <1>1, <1>5 DEF StartImport, NewRequest
<1>6. QED BY <1>2, <1>3, <1>4, <1>5, Zenon DEF Starting

LEMMA IdFrame ==
  ASSUME IdInv, UNCHANGED <<rows, given>>,
         \A x \in Requests :
           /\ req'[x].id = req[x].id /\ req'[x].op = req[x].op
           /\ Creating(x)' => Creating(x)
           /\ req'[x].pc \in {"clear"} \union AssetPlaces =>
                req[x].pc \in {"clear"} \union AssetPlaces
           /\ req'[x].pc = "conflict" => req[x].pc = "conflict"
  PROVE  IdInv'
BY DEF IdInv, RowIds

LEMMA IdWalk ==
  ASSUME CatalogueTypes, IdInv, NEW r \in Requests, Walking(r) PROVE IdInv'
<1>1. UNCHANGED <<rows, given>>
  BY EditorFrame, WalkFacts
<1>2. \A x \in Requests \ {r} : req'[x] = req[x] /\ (Creating(x)' <=> Creating(x))
  BY WalkFacts DEF Others, Creating
<1>3. req'[r].id = req[r].id /\ req'[r].op = req[r].op
  BY WalkFacts DEF Keeps
<1>4. Creating(r)' => Creating(r)
  BY <1>3, WalkFacts DEF Walks, Creating, IdInv, AssetPlaces
<1>5. req'[r].pc \in {"clear"} \union AssetPlaces => req[r].pc \in {"clear"} \union AssetPlaces
  BY WalkFacts DEF Walks, AssetPlaces
<1>6. req'[r].pc # "conflict"
  BY WalkFacts DEF Walks
<1>7. QED BY <1>1, <1>2, <1>3, <1>4, <1>5, <1>6, IdFrame

LEMMA IdStart ==
  ASSUME CatalogueTypes, IdInv, NEW r \in Requests, Starting(r) PROVE IdInv'
<1>1. rows' = rows /\ RowIds' = RowIds
  BY EditorFrame DEF RowIds
<1>2. \A x \in Requests \ {r} : req'[x] = req[x] /\ (Creating(x)' <=> Creating(x))
  BY StartingFacts DEF Others, Creating
<1>3. given \in Int /\ given' \in Int /\ given <= given' /\ given >= 1
      /\ \A x \in Requests : req[x].id \in Int
  BY StartingFacts DEF CatalogueTypes, Ids, RequestType
<1>4. \A i \in RowIds : i <= given /\ i \in Int
  BY DEF IdInv, RowIds, CatalogueTypes, RowType, Ids
<1>5. req'[r].id <= given' /\ req'[r].id \in Int
  BY <1>3, <1>4, StartingFacts
<1>6. \A x \in Requests \ {r} : Creating(x) => req'[x].id # req'[r].id
  <2>1. \A x \in Requests \ {r} : Creating(x) => req[x].id \notin RowIds /\ req[x].id # 1
    BY DEF IdInv
  <2>2. \A x \in Requests : req[x].id # given + 1
    BY <1>3 DEF IdInv
  <2>3. QED BY <1>2, <2>1, <2>2, StartingFacts
<1>7. Creating(r)' => /\ req'[r].id \notin RowIds /\ req'[r].id # 1
                      /\ \A x \in Requests \ {r} : req[x].id # req'[r].id
  <2>1. SUFFICES ASSUME Creating(r)'
                 PROVE  /\ req'[r].id \notin RowIds /\ req'[r].id # 1
                        /\ \A x \in Requests \ {r} : req[x].id # req'[r].id
    OBVIOUS
  <2>2. req'[r].id = given + 1
    BY <2>1, StartingFacts DEF Creating
  <2>3. QED BY <1>3, <1>4, <2>2 DEF IdInv
<1>8. /\ req'[r].pc \in {"clear"} \union AssetPlaces => req'[r].op = "import"
      /\ req'[r].pc = "conflict" => req'[r].op = "update"
  BY StartingFacts DEF AssetPlaces
<1>a. \A row \in rows' : row.id <= given'
  BY <1>1, <1>3, <1>4 DEF RowIds
<1>b. \A x \in Requests : req'[x].id <= given'
  BY <1>2, <1>3, <1>5 DEF IdInv
<1>c. \A x \in Requests : Creating(x)' =>
        /\ req'[x].id \notin RowIds' /\ req'[x].id # 1
        /\ \A y \in Requests \ {x} : req'[y].id # req'[x].id
  BY <1>1, <1>2, <1>6, <1>7 DEF IdInv
<1>9. QED BY <1>1, <1>2, <1>8, <1>a, <1>b, <1>c DEF IdInv

(* The rows after a testcase was written, deleted, or all were.            *)
LEMMA IdWrite ==
  ASSUME CatalogueTypes, IdInv, NEW r \in Requests, CatalogueTypes',
         RowIds' \subseteq RowIds \union {req[r].id},
         \A a, b \in rows' : a.id = b.id => a = b,
         Others(r), req'[r].op = req[r].op, given <= given',
         \/ req'[r].pc \in {"assetFind"} /\ req'[r].id = req[r].id /\ req[r].op = "import"
         \/ req'[r].pc = "invalidate" /\ req'[r].id = req[r].id
         \/ req'[r].pc = "in" /\ req'[r].id = given + 1 /\ given' = given + 1
  PROVE  IdInv'
<1>1. \A x \in Requests \ {r} : req'[x] = req[x] /\ (Creating(x)' <=> Creating(x))
  BY DEF Others, Creating
<1>2. given \in Int /\ given' \in Int /\ given <= given' /\ given >= 1
      /\ \A x \in Requests : req[x].id \in Int /\ req[x].id <= given
  BY DEF CatalogueTypes, Ids, RequestType, IdInv
<1>3. \A i \in RowIds : i <= given /\ i \in Int
  BY DEF IdInv, RowIds, CatalogueTypes, RowType, Ids
<1>4. \A i \in RowIds' : i <= given /\ i \in Int
  BY <1>2, <1>3
<1>5. \A row \in rows' : row.id \in RowIds'
  BY DEF RowIds
<1>6. \A row \in rows' : row.id <= given'
  BY <1>2, <1>4, <1>5
<1>7. \A x \in Requests : req'[x].id <= given'
  BY <1>1, <1>2
<1>8. ASSUME NEW x \in Requests \ {r}, Creating(x)
      PROVE  /\ req'[x].id \notin RowIds' /\ req'[x].id # 1
             /\ \A y \in Requests \ {x} : req'[y].id # req'[x].id
  <2>1. req[x].id \notin RowIds /\ req[x].id # 1 /\ \A y \in Requests \ {x} : req[y].id # req[x].id
    BY <1>8 DEF IdInv
  <2>2. req'[r].id # req[x].id
    BY <1>2, <2>1
  <2>3. QED BY <1>1, <2>1, <2>2
<1>9. ASSUME Creating(r)'
      PROVE  /\ req'[r].id \notin RowIds' /\ req'[r].id # 1
             /\ \A y \in Requests \ {r} : req'[y].id # req'[r].id
  <2>1. req'[r].id = given + 1
    BY <1>9 DEF Creating
  <2>2. QED BY <1>1, <1>2, <1>4, <2>1
<1>10. \A x \in Requests : req'[x].pc \in {"clear"} \union AssetPlaces => req'[x].op = "import"
  BY <1>1 DEF IdInv, AssetPlaces
<1>11. \A x \in Requests : req'[x].pc = "conflict" => req'[x].op = "update"
  BY <1>1 DEF IdInv
<1>c. \A x \in Requests : Creating(x)' =>
        /\ req'[x].id \notin RowIds' /\ req'[x].id # 1
        /\ \A y \in Requests \ {x} : req'[y].id # req'[x].id
  BY <1>1, <1>8, <1>9
<1>12. QED BY <1>6, <1>7, <1>c, <1>10, <1>11 DEF IdInv

(* Clear and WriteRow either stop, with nothing written, or go on.         *)
LEMMA ClearFacts ==
  ASSUME CatalogueTypes, IdInv, NEW r \in Requests, Clear(r)
  PROVE  /\ Others(r) /\ req[r].op = "import"
         /\ \/ req'[r].pc = "refused" /\ Keeps(r) /\ UNCHANGED <<rows, given, sub>>
            \/ /\ rows' = {} /\ Late /\ given <= given' /\ req'[r].op = "import"
               /\ req'[r].sum = req[r].sum /\ req'[r].sides = req[r].sides
               /\ \/ req'[r].pc = "assetFind" /\ req'[r].id = req[r].id /\ given' = given
                  \/ req'[r].pc = "in" /\ req'[r].id = given + 1 /\ given' = given + 1
<1>0. req[r].op = "import" /\ req[r].left \in Int
  BY DEF Clear, IdInv, CatalogueTypes, RequestType
<1>1. CASE GoTo(r, "refused") /\ UNCHANGED <<rows, given, sub>>
  BY <1>0, <1>1, GoToFacts, PcFacts DEF Same, Others, Keeps
<1>2. CASE rows' = {} /\ NextOfImport(r, req[r].left) /\ Late
  <2>1. /\ \A x \in Requests \ {r} : req'[x] = req[x]
        /\ req'[r].op = req[r].op /\ req'[r].sum = req[r].sum /\ req'[r].sides = req[r].sides
        /\ given' \in Ids /\ given <= given'
        /\ \/ req'[r].pc = "assetFind" /\ req'[r].id = req[r].id /\ given' = given
           \/ req'[r].pc = "in" /\ req'[r].id = given + 1 /\ given' = given + 1
    BY <1>0, <1>2, NextOfImportFacts
  <2>2. QED BY <1>0, <1>2, <2>1 DEF Others
<1>3. QED BY <1>1, <1>2 DEF Clear

OtherRows(i) == {row \in rows : row.id # i}
NewRow(r) == [id |-> req[r].id, ord |-> req[r].ord, sum |-> req[r].sum]

LEMMA WriteRowFacts ==
  ASSUME CatalogueTypes, NEW r \in Requests, WriteRow(r)
  PROVE  /\ Others(r) /\ req[r].pc = "row" /\ UNCHANGED <<file, dropped, asset, crossed, cache>>
         /\ req'[r].op = req[r].op /\ req'[r].sum = req[r].sum /\ req'[r].sides = req[r].sides
         /\ \/ /\ Refused(r) /\ req'[r].pc = "refused" /\ UNCHANGED <<rows, given, sub>>
               /\ req'[r].id = req[r].id /\ CutOff(r)
               /\ torn' = IF req[r].op = "update" THEN torn \union {req[r].id} ELSE torn
            \/ /\ ~Refused(r) /\ Late /\ given <= given' /\ UNCHANGED <<torn, cacheLate>>
               /\ rows' = IF req[r].op = "delete" THEN OtherRows(req[r].id)
                          ELSE OtherRows(req[r].id) \union {NewRow(r)}
               /\ \/ /\ req[r].op = "import"
                     /\ \/ req'[r].pc = "assetFind" /\ req'[r].id = req[r].id /\ given' = given
                        \/ req'[r].pc = "in" /\ req'[r].id = given + 1 /\ given' = given + 1
                  \/ /\ req[r].op # "import" /\ req'[r].pc = "invalidate"
                     /\ req'[r].id = req[r].id /\ given' = given
<1>0. req[r].left - 1 \in Int
  BY DEF CatalogueTypes, RequestType
<1>f. req[r].pc = "row" /\ UNCHANGED <<file, dropped, asset, crossed, cache>>
  BY DEF WriteRow, assetVars
<1>1. CASE Refused(r)
  <2>1. GoTo(r, "refused") /\ UNCHANGED <<rows, given, sub>> /\ CutOff(r)
        /\ torn' = IF req[r].op = "update" THEN torn \union {req[r].id} ELSE torn
    BY <1>1, Zenon DEF WriteRow
  <2>2. Others(r) /\ Keeps(r) /\ req'[r].pc = "refused"
    BY <2>1, GoToFacts, PcFacts DEF Others, Keeps, Same
  <2>3. QED BY <1>1, <1>f, <2>1, <2>2 DEF Keeps
<1>2. CASE ~Refused(r)
  <2>1. /\ rows' = IF req[r].op = "delete" THEN OtherRows(req[r].id)
                   ELSE OtherRows(req[r].id) \union {NewRow(r)}
        /\ Late /\ UNCHANGED <<torn, cacheLate>>
    BY <1>2 DEF WriteRow, OtherRows, NewRow
  <2>2. CASE req[r].op = "import"
    <3>1. NextOfImport(r, req[r].left - 1)
      BY <1>2, <2>2 DEF WriteRow
    <3>2. /\ \A x \in Requests \ {r} : req'[x] = req[x]
          /\ req'[r].op = req[r].op /\ req'[r].sum = req[r].sum /\ req'[r].sides = req[r].sides
          /\ given <= given'
          /\ \/ req'[r].pc = "assetFind" /\ req'[r].id = req[r].id /\ given' = given
             \/ req'[r].pc = "in" /\ req'[r].id = given + 1 /\ given' = given + 1
      BY <1>0, <3>1, NextOfImportFacts
    <3>3. QED BY <1>2, <1>f, <2>1, <2>2, <3>2 DEF Others
  <2>3. CASE req[r].op # "import"
    <3>1. GoTo(r, "invalidate") /\ given' = given
      BY <1>2, <2>3 DEF WriteRow
    <3>2. Others(r) /\ Keeps(r) /\ req'[r].pc = "invalidate" /\ given <= given'
      BY <3>1, GoToFacts, PcFacts DEF Others, Keeps, Same, CatalogueTypes, Ids
    <3>3. QED BY <1>2, <1>f, <2>1, <2>3, <3>1, <3>2 DEF Keeps
  <2>4. QED BY <2>2, <2>3
<1>3. QED BY <1>1, <1>2

LEMMA IdKept == ASSUME CatalogueTypes, IdInv, [Next]_vars PROVE IdInv'
<1>0. CatalogueTypes'
  BY TypesKept
<1>1. CASE UNCHANGED vars
  BY <1>1 DEF vars, editorVars, IdInv, RowIds, Creating
<1>2. ASSUME NEW r \in Requests, Starting(r) \/ Walking(r) PROVE IdInv'
  BY <1>2, IdStart, IdWalk
<1>3. ASSUME NEW r \in Requests, req'[r].pc = "refused", UNCHANGED <<rows, given>>, Others(r),
             req'[r].op = req[r].op, req'[r].id = req[r].id
      PROVE  IdInv'
  <2>1. \A x \in Requests : /\ req'[x].id = req[x].id /\ req'[x].op = req[x].op
                            /\ Creating(x)' => Creating(x)
                            /\ req'[x].pc \in {"clear"} \union AssetPlaces =>
                                 req[x].pc \in {"clear"} \union AssetPlaces
                            /\ req'[x].pc = "conflict" => req[x].pc = "conflict"
    BY <1>3 DEF Others, Creating, AssetPlaces
  <2>2. QED BY <1>3, <2>1, IdFrame
<1>4. ASSUME NEW r \in Requests, Clear(r) PROVE IdInv'
  <2>1. CASE req'[r].pc = "refused"
    BY <1>3, <1>4, <2>1, ClearFacts DEF Keeps
  <2>2. CASE req'[r].pc # "refused"
    <3>1. rows' = {} /\ given <= given' /\ Others(r) /\ req[r].op = "import"
          /\ req'[r].op = req[r].op
          /\ \/ req'[r].pc = "assetFind" /\ req'[r].id = req[r].id /\ given' = given
             \/ req'[r].pc = "in" /\ req'[r].id = given + 1 /\ given' = given + 1
      BY <1>4, <2>2, ClearFacts
    <3>2. RowIds' = {}
      BY <3>1 DEF RowIds
    <3>3. QED BY <1>0, <3>1, <3>2, IdWrite
  <2>3. QED BY <2>1, <2>2
<1>5. ASSUME NEW r \in Requests, WriteRow(r) PROVE IdInv'
  <2>1. CASE req'[r].pc = "refused"
    BY <1>3, <1>5, <2>1, WriteRowFacts
  <2>2. CASE req'[r].pc # "refused"
    <3>1. /\ rows' \subseteq OtherRows(req[r].id) \union {NewRow(r)}
          /\ given <= given' /\ Others(r) /\ req'[r].op = req[r].op
          /\ \/ req'[r].pc = "assetFind" /\ req'[r].id = req[r].id /\ req[r].op = "import"
             \/ req'[r].pc = "invalidate" /\ req'[r].id = req[r].id
             \/ req'[r].pc = "in" /\ req'[r].id = given + 1 /\ given' = given + 1
      BY <1>5, <2>2, WriteRowFacts
    <3>2. NewRow(r).id = req[r].id
      BY DEF NewRow
    <3>3. \A row \in rows' : row = NewRow(r) \/ (row \in rows /\ row.id # req[r].id)
      BY <3>1 DEF OtherRows
    <3>4. RowIds' \subseteq RowIds \union {req[r].id}
      BY <3>2, <3>3 DEF RowIds
    <3>5. \A a, b \in rows' : a.id = b.id => a = b
      BY <3>2, <3>3 DEF IdInv
    <3>6. QED BY <1>0, <3>1, <3>4, <3>5, IdWrite
  <2>3. QED BY <2>1, <2>2
<1>6. ASSUME NEW s \in Subs, Judging(s) PROVE IdInv'
  BY <1>6, JudgingFrame DEF editorVars, IdInv, RowIds, Creating
<1>7. CASE RestartApi
  <2>1. \A x \in Requests : /\ req'[x].id = req[x].id /\ req'[x].op = req[x].op
                            /\ req'[x].pc \in {req[x].pc, "refused"}
    BY <1>7, RestartApiFacts DEF Same
  <2>2. \A x \in Requests : /\ Creating(x)' => Creating(x)
                            /\ req'[x].pc \in {"clear"} \union AssetPlaces =>
                                 req[x].pc \in {"clear"} \union AssetPlaces
                            /\ req'[x].pc = "conflict" => req[x].pc = "conflict"
    BY <2>1 DEF Creating, AssetPlaces
  <2>3. QED BY <1>7, <2>1, <2>2, IdFrame DEF RestartApi
<1>8. CASE RestartWorker
  BY <1>8 DEF RestartWorker, editorVars, IdInv, RowIds, Creating
<1>9. QED BY <1>1, <1>2, <1>4, <1>5, <1>6, <1>7, <1>8, NextCases

-----------------------------------------------------------------------------
(* The files. *)

(* The steps of an editor that leave the files alone.                      *)
LEMMA FilesFrame ==
  ASSUME NEW r \in Requests, Starting(r) \/ Walking(r) \/ Clear(r) \/ WriteRow(r),
         ~\E side \in Sides : WriteFile(r, side)
  PROVE  file' = file
<1>1. CASE Starting(r)
  BY <1>1 DEF Starting, StartCreate, StartUpdate, StartDelete, StartImport
<1>2. CASE Walking(r)
  BY <1>2 DEF Walking, Conflict, Invalidate, Fail, DropIgnored, DeleteIgnored, FindAsset,
              DropAsset, WriteAsset, CreateAsset, ClearAsset, notAssets
<1>3. CASE Clear(r) \/ WriteRow(r)
  BY <1>3 DEF Clear, WriteRow
<1>4. QED BY <1>1, <1>2, <1>3

LEMMA CreatingIsAlone ==
  ASSUME IdInv, NEW r \in Requests, Creating(r)
  PROVE  /\ req[r].id \notin RowIds /\ \A row \in rows : row.id # req[r].id
         /\ \A x \in Requests \ {r} : req[x].id # req[r].id
BY DEF IdInv, RowIds

LEMMA FilesOfWrite ==
  ASSUME CatalogueTypes, IdInv, FileInv, NEW r \in Requests, NEW side \in Sides, WriteFile(r, side)
  PROVE  FileInv'
<1>0. /\ req[r].pc = side /\ UNCHANGED <<rows, dropped>> /\ Others(r) /\ Keeps(r)
      /\ req[r].id \in Ids /\ req'[r].pc = AfterFile(side)
      /\ \A x \in Requests : req[x].id \in Ids
  <2>1. GoTo(r, AfterFile(side)) /\ AfterFile(side) \in Pcs
    BY PcFacts DEF WriteFile, AfterFile
  <2>2. Others(r) /\ Keeps(r) /\ req'[r].pc = AfterFile(side)
    BY <2>1, GoToFacts DEF Others, Keeps, Same
  <2>3. QED BY <2>2 DEF WriteFile, CatalogueTypes, RequestType
<1>1. \A i \in Ids, k \in Sides :
        file'[i][k] = IF i = req[r].id /\ k = side THEN PutFile(r, side) ELSE file[i][k]
  BY FileFacts
<1>2. side \in {"in", "out"} /\ "in" \in Sides /\ "out" \in Sides /\ r # Absent
  BY CatalogueAssumption DEF Sides
<1>3. ASSUME NEW row \in rows, row.id \notin dropped PROVE Readable(row.id)'
  <2>1. Readable(row.id) /\ row.id \in Ids
    BY <1>3 DEF FileInv, CatalogueTypes, RowType
  <2>2. CASE row.id # req[r].id
    BY <1>1, <2>1, <2>2 DEF Readable
  <2>3. CASE row.id = req[r].id
    <3>1. req[r].op # "delete" /\ ~Creating(r)
      BY <1>0, <1>2, <1>3, <2>3, CreatingIsAlone DEF FileInv
    <3>2. PutFile(r, side) \in {r, file[row.id][side]}
      BY <2>3, <3>1 DEF PutFile
    <3>3. QED BY <1>1, <1>2, <2>1, <3>2 DEF Readable
  <2>4. QED BY <2>2, <2>3
<1>4. \A row \in rows' : Readable(row.id)' \/ row.id \in dropped'
  BY <1>0, <1>3
<1>5. \A x \in Requests : req'[x].op = "delete" /\ req'[x].pc \in {"in", "out"} =>
        req'[x].id \in dropped'
  BY <1>0, <1>2 DEF FileInv, Others, Keeps
<1>6. \A x \in Requests : Creating(x)' => Creating(x)
  BY <1>0, <1>2 DEF Creating, Others, Keeps
<1>7. \A x \in Requests : req'[x].op = "import" \/ Creating(x)' =>
        req'[x].sum = x /\ req'[x].sides = Sides
  BY <1>0, <1>6 DEF FileInv, Others, Keeps
<1>8. ASSUME NEW x \in Requests \ {r}, Creating(x)
      PROVE  /\ req'[x].pc \in {"out", "row"} => file'[req'[x].id]["in"] = x
             /\ req'[x].pc = "row" => file'[req'[x].id]["out"] = x
  <2>1. req'[x] = req[x] /\ req[x].id # req[r].id
    BY <1>0, <1>8, CreatingIsAlone DEF Others
  <2>2. \A k \in Sides : file'[req[x].id][k] = file[req[x].id][k]
    BY <1>0, <1>1, <2>1
  <2>3. QED BY <1>2, <1>8, <2>1, <2>2 DEF FileInv
<1>9. ASSUME Creating(r)
      PROVE  /\ req'[r].pc \in {"out", "row"} => file'[req'[r].id]["in"] = r
             /\ req'[r].pc = "row" => file'[req'[r].id]["out"] = r
  <2>1. PutFile(r, side) = r
    BY <1>9 DEF FileInv, PutFile, Creating
  <2>2. req'[r].id = req[r].id /\ file'[req[r].id][side] = r
    BY <1>0, <1>1, <2>1 DEF Keeps
  <2>3. CASE side = "in"
    BY <1>0, <2>2, <2>3 DEF AfterFile
  <2>4. CASE side = "out"
    <3>1. file[req[r].id]["in"] = r
      BY <1>0, <1>9, <2>4 DEF FileInv
    <3>2. file'[req[r].id]["in"] = r
      BY <1>0, <1>1, <1>2, <2>4, <3>1
    <3>3. QED BY <2>2, <2>4, <3>2
  <2>5. QED BY <1>2, <2>3, <2>4
<1>a. \A x \in Requests : Creating(x)' =>
        /\ req'[x].pc \in {"out", "row"} => file'[req'[x].id]["in"] = x
        /\ req'[x].pc = "row" => file'[req'[x].id]["out"] = x
  BY <1>6, <1>8, <1>9
<1>10. QED BY <1>4, <1>5, <1>7, <1>a DEF FileInv

(* When the files stay, what is to be seen is where the requests are.      *)
LEMMA FilesFramed ==
  ASSUME FileInv, file' = file, dropped \subseteq dropped',
         \A row \in rows' : Readable(row.id) \/ row.id \in dropped',
         \A r \in Requests : req'[r].op = "delete" /\ req'[r].pc \in {"in", "out"} =>
                               req'[r].id \in dropped',
         \A r \in Requests : req'[r].op = "import" \/ Creating(r)' =>
                               req'[r].sum = r /\ req'[r].sides = Sides,
         \A r \in Requests : Creating(r)' /\ req'[r].pc # "in" =>
                               Creating(r) /\ req'[r].pc = req[r].pc /\ req'[r].id = req[r].id
  PROVE  FileInv'
<1>1. \A row \in rows' : Readable(row.id)' \/ row.id \in dropped'
  BY DEF Readable
<1>2. \A r \in Requests : Creating(r)' =>
        /\ req'[r].pc \in {"out", "row"} => file'[req'[r].id]["in"] = r
        /\ req'[r].pc = "row" => file'[req'[r].id]["out"] = r
  BY DEF FileInv
<1>3. QED BY <1>1, <1>2 DEF FileInv

LEMMA FilesKept ==
  ASSUME CatalogueTypes, IdInv, FileInv, [Next]_vars PROVE FileInv'
<1>1. CASE UNCHANGED vars
  BY <1>1 DEF vars, editorVars, FileInv, Readable, Creating
<1>2. ASSUME NEW r \in Requests, NEW side \in Sides, WriteFile(r, side) PROVE FileInv'
  BY <1>2, FilesOfWrite
<1>3. ASSUME NEW r \in Requests, Starting(r), ~\E side \in Sides : WriteFile(r, side)
      PROVE  FileInv'
  <2>1. file' = file /\ rows' = rows /\ dropped \subseteq dropped' /\ Others(r)
    BY <1>3, FilesFrame, EditorFrame, StartingFacts
  <2>2. /\ req'[r].op = "delete" => req'[r].id \in dropped'
        /\ req'[r].op = "import" \/ Creating(r)' => req'[r].sum = r /\ req'[r].sides = Sides
        /\ Creating(r)' => req'[r].pc = "in"
    BY <1>3, StartingFacts DEF Creating
  <2>3. \A x \in Requests \ {r} : req'[x] = req[x] /\ (Creating(x)' <=> Creating(x))
    BY <2>1 DEF Others, Creating
  <2>4. \A row \in rows' : Readable(row.id) \/ row.id \in dropped'
    BY <2>1 DEF FileInv
  <2>5. \A x \in Requests : req'[x].op = "delete" /\ req'[x].pc \in {"in", "out"} => req'[x].id \in dropped'
    BY <2>1, <2>2, <2>3 DEF FileInv
  <2>6. \A x \in Requests : req'[x].op = "import" \/ Creating(x)' => req'[x].sum = x /\ req'[x].sides = Sides
    BY <2>2, <2>3 DEF FileInv
  <2>7. QED BY <2>1, <2>2, <2>3, <2>4, <2>5, <2>6, FilesFramed
<1>4. ASSUME NEW r \in Requests, Walking(r), ~\E side \in Sides : WriteFile(r, side)
      PROVE  FileInv'
  <2>1. file' = file /\ rows' = rows /\ dropped' = dropped /\ Others(r) /\ Keeps(r)
    BY <1>4, FilesFrame, EditorFrame, WalkFacts
  <2>2. CASE \E side \in Sides : DeleteIgnored(r, side)
    <3>1. req[r].op = "delete" /\ req[r].pc \in {"in", "out"}
      BY <2>2 DEF DeleteIgnored, Sides
    <3>2. \A x \in Requests : Creating(x)' => x # r
      BY <2>1, <3>1 DEF Keeps, Creating
    <3>3. \A x \in Requests \ {r} : req'[x] = req[x] /\ (Creating(x)' <=> Creating(x))
      BY <2>1 DEF Others, Creating
    <3>4. \A x \in Requests : req'[x].op = "delete" /\ req'[x].pc \in {"in", "out"} => req'[x].id \in dropped'
      BY <2>1, <3>1, <3>3 DEF FileInv, Keeps
    <3>5. \A x \in Requests : req'[x].op = "import" \/ Creating(x)' => req'[x].sum = x /\ req'[x].sides = Sides
      BY <2>1, <3>2, <3>3 DEF FileInv, Keeps
    <3>6. \A row \in rows' : Readable(row.id) \/ row.id \in dropped'
      BY <2>1 DEF FileInv
    <3>7. QED BY <2>1, <3>2, <3>3, <3>4, <3>5, <3>6, FilesFramed
  <2>3. CASE ~\E side \in Sides : DeleteIgnored(r, side)
    <3>1. req'[r].pc \notin {"out", "row"}
      <4>1. ASSUME NEW pc \in Pcs, GoTo(r, pc) PROVE req'[r].pc = pc
        BY <4>1, GoToFacts
      <4>2. CASE Conflict(r)
        <5>1. PICK pc \in {"refused", "in"} : GoTo(r, pc)
          BY <4>2 DEF Conflict
        <5>2. QED BY <4>1, <5>1, PcFacts
      <4>3. CASE FindAsset(r)
        BY <4>3, FindFacts
      <4>4. CASE CreateAsset(r)
        <5>1. PICK pc \in {"refused", "invalidate"} : GoTo(r, pc)
          BY <4>4 DEF CreateAsset
        <5>2. QED BY <4>1, <5>1, PcFacts
      <4>5. CASE \E has \in BOOLEAN : ClearAsset(r, has)
        <5>1. PICK pc \in {"assetWrite", "invalidate"} : GoTo(r, pc)
          BY <4>5 DEF ClearAsset
        <5>2. QED BY <4>1, <5>1, PcFacts
      <4>6. CASE Invalidate(r) \/ Fail(r) \/ DropIgnored(r) \/ DropAsset(r) \/ WriteAsset(r)
        <5>1. PICK pc \in {"ok", "refused", "assetClear", "assetRow"} : GoTo(r, pc)
          BY <4>6 DEF Invalidate, Fail, DropIgnored, DropAsset, WriteAsset
        <5>2. QED BY <4>1, <5>1, PcFacts
      <4>7. QED BY <1>4, <2>3, <4>2, <4>3, <4>4, <4>5, <4>6 DEF Walking
    <3>2. req'[r].pc = "in" => req[r].op = "update"
      BY <1>4, WalkFacts DEF Walks, IdInv
    <3>3. \A x \in Requests \ {r} : req'[x] = req[x] /\ (Creating(x)' <=> Creating(x))
      BY <2>1 DEF Others, Creating
    <3>4. ~Creating(r)'
      BY <2>1, <3>1, <3>2 DEF Creating, Keeps
    <3>5. \A x \in Requests : req'[x].op = "delete" /\ req'[x].pc \in {"in", "out"} => req'[x].id \in dropped'
      BY <2>1, <3>1, <3>2, <3>3 DEF FileInv, Keeps
    <3>6. \A x \in Requests : req'[x].op = "import" \/ Creating(x)' => req'[x].sum = x /\ req'[x].sides = Sides
      BY <2>1, <3>3, <3>4 DEF FileInv, Keeps
    <3>7. \A row \in rows' : Readable(row.id) \/ row.id \in dropped'
      BY <2>1 DEF FileInv
    <3>8. QED BY <2>1, <3>3, <3>4, <3>5, <3>6, <3>7, FilesFramed
  <2>4. QED BY <2>2, <2>3
<1>5. ASSUME NEW r \in Requests, Clear(r) PROVE FileInv'
  <2>1. file' = file /\ dropped' = dropped /\ Others(r) /\ req[r].op = "import"
        /\ req'[r].op = "import" /\ req'[r].sum = req[r].sum /\ req'[r].sides = req[r].sides
        /\ req'[r].pc \in {"refused", "assetFind", "in"} /\ rows' \subseteq rows
    BY <1>5, ClearFacts DEF Clear, Keeps
  <2>2. \A x \in Requests \ {r} : req'[x] = req[x] /\ (Creating(x)' <=> Creating(x))
    BY <2>1 DEF Others, Creating
  <2>3. Creating(r)' => req'[r].pc = "in"
    BY <2>1 DEF Creating
  <2>4. \A x \in Requests : req'[x].op = "delete" /\ req'[x].pc \in {"in", "out"} => req'[x].id \in dropped'
    BY <2>1, <2>2 DEF FileInv
  <2>5. \A x \in Requests : req'[x].op = "import" \/ Creating(x)' => req'[x].sum = x /\ req'[x].sides = Sides
    BY <2>1, <2>2 DEF FileInv
  <2>6. \A row \in rows' : Readable(row.id) \/ row.id \in dropped'
    BY <2>1 DEF FileInv
  <2>7. QED BY <2>1, <2>2, <2>3, <2>4, <2>5, <2>6, FilesFramed
<1>6. ASSUME NEW r \in Requests, WriteRow(r) PROVE FileInv'
  <2>1. file' = file /\ dropped' = dropped /\ Others(r) /\ req[r].pc = "row"
        /\ req'[r].op = req[r].op /\ req'[r].sum = req[r].sum /\ req'[r].sides = req[r].sides
        /\ \/ req'[r].pc \in {"refused", "invalidate", "assetFind"}
           \/ req'[r].pc = "in" /\ req[r].op = "import"
    BY <1>6, WriteRowFacts
  <2>2. \A x \in Requests \ {r} : req'[x] = req[x] /\ (Creating(x)' <=> Creating(x))
    BY <2>1 DEF Others, Creating
  <2>3. Creating(r)' => req'[r].pc = "in"
    BY <2>1 DEF Creating
  <2>4. \A x \in Requests : req'[x].op = "delete" /\ req'[x].pc \in {"in", "out"} => req'[x].id \in dropped'
    BY <2>1, <2>2 DEF FileInv
  <2>5. \A x \in Requests : req'[x].op = "import" \/ Creating(x)' => req'[x].sum = x /\ req'[x].sides = Sides
    BY <2>1, <2>2, <2>3 DEF FileInv
  <2>6. ASSUME NEW row \in rows' PROVE Readable(row.id) \/ row.id \in dropped'
    <3>1. CASE row \in rows
      BY <2>1, <3>1 DEF FileInv
    <3>2. CASE row \notin rows
      <4>1. row = NewRow(r) /\ ~Refused(r) /\ req[r].op # "delete"
        BY <1>6, <3>2, WriteRowFacts DEF OtherRows
      <4>2. row.id = req[r].id
        BY <4>1 DEF NewRow
      <4>3. CASE req[r].op = "update"
        <5>1. req[r].id \in RowIds
          BY <4>1, <4>3 DEF Refused
        <5>2. QED BY <2>1, <4>2, <5>1 DEF RowIds, FileInv
      <4>4. CASE req[r].op # "update"
        <5>1. Creating(r)
          BY <2>1, <4>1, <4>4 DEF Creating, CatalogueTypes, RequestType
        <5>2. file[req[r].id]["in"] = r /\ file[req[r].id]["out"] = r /\ r # Absent
          BY <2>1, <5>1, CatalogueAssumption DEF FileInv
        <5>3. QED BY <4>2, <5>2 DEF Readable, Sides
      <4>5. QED BY <4>3, <4>4
    <3>3. QED BY <3>1, <3>2
  <2>7. QED BY <2>1, <2>2, <2>3, <2>4, <2>5, <2>6, FilesFramed
<1>7. ASSUME NEW s \in Subs, Judging(s) PROVE FileInv'
  BY <1>7, JudgingFrame DEF editorVars, FileInv, Readable, Creating
<1>8. CASE RestartApi
  <2>1. file' = file /\ dropped' = dropped /\ rows' = rows
    BY <1>8 DEF RestartApi
  <2>2. \A x \in Requests : /\ Keeps(x) /\ (req'[x].pc = "refused" \/ req'[x].pc = req[x].pc)
    BY <1>8, RestartApiFacts DEF Same, Keeps
  <2>3. \A x \in Requests : Creating(x)' => Creating(x) /\ req'[x].pc = req[x].pc /\ req'[x].id = req[x].id
    BY <2>2 DEF Creating, Keeps
  <2>4. \A x \in Requests : req'[x].op = "delete" /\ req'[x].pc \in {"in", "out"} => req'[x].id \in dropped'
    BY <2>1, <2>2 DEF FileInv, Keeps
  <2>5. \A x \in Requests : req'[x].op = "import" \/ Creating(x)' => req'[x].sum = x /\ req'[x].sides = Sides
    BY <2>2, <2>3 DEF FileInv, Keeps
  <2>6. \A row \in rows' : Readable(row.id) \/ row.id \in dropped'
    BY <2>1 DEF FileInv
  <2>7. QED BY <2>1, <2>3, <2>4, <2>5, <2>6, FilesFramed
<1>9. CASE RestartWorker
  BY <1>9 DEF RestartWorker, editorVars, FileInv, Readable, Creating
<1>10. QED BY <1>1, <1>2, <1>3, <1>4, <1>5, <1>6, <1>7, <1>8, <1>9, NextCases

-----------------------------------------------------------------------------
(* The checksums. *)

(* A step that leaves a row, its input and its updates alone.              *)
LEMMA SumFramed ==
  ASSUME NEW row, SumAt(row), torn \subseteq torn', dropped \subseteq dropped',
         row.id \notin torn' \union dropped' => file'[row.id]["in"] = file[row.id]["in"],
         Updating(row.id)' = Updating(row.id),
         \A r \in Updating(row.id) :
           /\ req'[r].pc = req[r].pc /\ req'[r].sum = req[r].sum /\ req'[r].sides = req[r].sides
  PROVE  SumAt(row)'
<1> SUFFICES ASSUME row.id \notin torn' \union dropped' PROVE SumAt(row)'
  BY DEF SumAt
<1>1. row.id \notin torn \union dropped /\ file'[row.id]["in"] = file[row.id]["in"]
      /\ (Settled(row)' <=> Settled(row))
  BY DEF Settled
<1>2. QED BY <1>1 DEF SumAt

(* The updates of a testcase a request is not about are not its business.  *)
LEMMA UpdatingFrame ==
  ASSUME NEW r \in Requests, Others(r), NEW i,
         r \notin Updating(i), ~(req'[r].op = "update" /\ req'[r].id = i
                                 /\ req'[r].pc \notin {"new", "ok", "refused"})
  PROVE  /\ Updating(i)' = Updating(i)
         /\ \A x \in Updating(i) : req'[x] = req[x]
<1>1. \A x \in Updating(i) : x \in Requests \ {r}
  BY DEF Updating
<1>2. \A x \in Updating(i) : req'[x] = req[x]
  BY <1>1 DEF Others
<1>3. r \notin Updating(i)'
  BY DEF Updating
<1>4. \A x \in Requests \ {r} : x \in Updating(i)' <=> x \in Updating(i)
  BY DEF Others, Updating
<1>5. Updating(i)' \subseteq Requests /\ Updating(i) \subseteq Requests
  BY DEF Updating
<1>6. QED BY <1>2, <1>3, <1>4, <1>5

LEMMA TornGrows ==
  ASSUME [Next]_vars PROVE torn \subseteq torn' /\ dropped \subseteq dropped'
<1>1. ASSUME NEW r \in Requests, Edit(r) PROVE torn \subseteq torn' /\ dropped \subseteq dropped'
  BY <1>1 DEF Edit, StartCreate, StartUpdate, StartDelete, StartImport, Conflict, Clear, WriteRow,
              Invalidate, WriteFile, FindAsset, DropAsset, WriteAsset, CreateAsset, ClearAsset,
              notAssets
<1>2. ASSUME NEW r \in Requests,
             Fail(r) \/ DropIgnored(r) \/ \E side \in Sides : DeleteIgnored(r, side)
      PROVE  torn \subseteq torn' /\ dropped \subseteq dropped'
  BY <1>2 DEF Fail, DropIgnored, DeleteIgnored, Torn
<1>3. ASSUME NEW s \in Subs, Judging(s) PROVE torn \subseteq torn' /\ dropped \subseteq dropped'
  BY <1>3, JudgingFrame DEF editorVars
<1>4. CASE RestartApi \/ RestartWorker
  BY <1>4 DEF RestartApi, RestartWorker, Torn, editorVars
<1>5. CASE UNCHANGED vars
  BY <1>5 DEF vars, editorVars
<1>6. QED BY <1>1, <1>2, <1>3, <1>4, <1>5 DEF Next, Judging

LEMMA SumStart ==
  ASSUME CatalogueTypes, IdInv, SumInv, NEW r \in Requests, Starting(r), [Next]_vars PROVE SumInv'
<1>1. rows' = rows /\ Others(r) /\ req[r].pc = "new" /\ torn \subseteq torn' /\ dropped \subseteq dropped'
  BY EditorFrame, StartingFacts, TornGrows
<1>2. file' = file
  BY DEF Starting, StartCreate, StartUpdate, StartDelete, StartImport
<1>3. \A i : r \notin Updating(i)
  BY <1>1 DEF Updating
<1>4. ASSUME NEW row \in rows, ~(req'[r].op = "update" /\ req'[r].id = row.id) PROVE SumAt(row)'
  BY <1>1, <1>2, <1>3, <1>4, UpdatingFrame, SumFramed DEF SumInv
<1>5. ASSUME NEW row \in rows, req'[r].op = "update", req'[r].id = row.id PROVE SumAt(row)'
  <2>1. PICK ord, sides : StartUpdate(r, row.id, ord, sides)
    <3>1. PICK i, ord, sides : StartUpdate(r, i, ord, sides)
      <4>1. ASSUME NEW q, req' = [req EXCEPT ![r] = q] PROVE req'[r] = q
        BY <4>1 DEF CatalogueTypes
      <4>2. \A ord : StartCreate(r, ord) => req'[r].op = "create"
        BY <4>1 DEF StartCreate, NewRequest
      <4>3. \A i : StartDelete(r, i) => req'[r].op = "delete"
        BY <4>1 DEF StartDelete, NewRequest
      <4>4. \A n : StartImport(r, n) => req'[r].op = "import"
        BY <4>1 DEF StartImport, NewRequest
      <4>5. QED BY <1>5, <4>2, <4>3, <4>4, Zenon DEF Starting
    <3> DEFINE q == [NewRequest EXCEPT !.pc = IF ord # RowOf(i).ord THEN "conflict" ELSE "in",
                       !.op = "update", !.id = i, !.ord = ord, !.sides = sides,
                       !.sum = Sum(r, i, sides)]
    <3>2. req' = [req EXCEPT ![r] = q]
      BY <3>1 DEF StartUpdate
    <3>3. q.id = i
      BY DEF NewRequest
    <3> HIDE DEF q
    <3>4. req'[r].id = i
      BY <3>2, <3>3 DEF CatalogueTypes
    <3>5. QED BY <1>5, <3>1, <3>4
  <2> DEFINE i == row.id
             sum == Sum(r, i, sides)
  <2>2. RowOf(i) = row
    <3>1. RowOf(i) \in rows /\ RowOf(i).id = i
      BY RowOfFacts DEF RowIds
    <3>2. QED BY <3>1 DEF IdInv
  <2>3. req'[r].sum = sum /\ req'[r].sides = sides /\ req'[r].pc \in {"conflict", "in"}
    <3> DEFINE pc == IF ord # RowOf(i).ord THEN "conflict" ELSE "in"
               q == [NewRequest EXCEPT !.pc = pc, !.op = "update", !.id = i, !.ord = ord,
                                       !.sides = sides, !.sum = sum]
    <3>1. req' = [req EXCEPT ![r] = q]
      BY <2>1 DEF StartUpdate
    <3>2. pc \in {"conflict", "in"}
      OBVIOUS
    <3> HIDE DEF pc, sum, i
    <3>3. q.pc = pc /\ q.sum = sum /\ q.sides = sides
      BY DEF NewRequest
    <3> HIDE DEF q
    <3>4. QED BY <3>1, <3>2, <3>3 DEF CatalogueTypes
  <2>4. SUFFICES ASSUME i \notin torn' \union dropped' PROVE SumAt(row)'
    BY DEF SumAt
  <2>5. Updating(i) = {} /\ i \notin torn \union dropped
    BY <1>1, <2>1, <2>4 DEF StartUpdate
  <2>6. \A x \in Updating(i)' : x = r
    BY <1>1, <2>5 DEF Updating, Others
  <2>7. r \in Updating(i)'
    BY <1>5, <2>3 DEF Updating
  <2>8. Settled(row) /\ Settled(row)'
    BY <1>2, <2>5 DEF SumInv, SumAt, Settled
  <2>9. sum = IF "in" \in sides THEN r ELSE row.sum
    BY <2>2 DEF Sum
  <2>10. QED
    <3>1. \A x, y \in Updating(row.id)' : x = y
      BY <2>6
    <3>2. Updating(row.id)' # {}
      BY <2>7
    <3>3. \A x \in Updating(row.id)' : req'[x].sum = (IF "in" \in req'[x].sides THEN x ELSE row.sum)
                                       /\ req'[x].pc \in {"conflict", "in"}
      BY <2>3, <2>6, <2>9
    <3>4. QED BY <2>8, <3>1, <3>2, <3>3 DEF SumAt
<1>6. \A row \in rows' : SumAt(row)'
  BY <1>1, <1>4, <1>5
<1>7. QED BY <1>6 DEF SumInv

(* What the file of the input becomes.                                     *)
LEMMA InputOfWalk ==
  ASSUME CatalogueTypes, IdInv, FileInv, NEW r \in Requests, Walking(r), NEW row \in rows,
         row.id \notin dropped
  PROVE  \/ file'[row.id]["in"] = file[row.id]["in"]
         \/ /\ req[r].op = "update" /\ req[r].id = row.id
            /\ req[r].pc = "in" /\ req'[r].pc = "out"
            /\ file'[row.id]["in"] = IF "in" \in req[r].sides THEN r ELSE file[row.id]["in"]
<1>1. CASE ~\E side \in Sides : WriteFile(r, side)
  BY <1>1, FilesFrame
<1>2. ASSUME NEW side \in Sides, WriteFile(r, side)
      PROVE  \/ file'[row.id]["in"] = file[row.id]["in"]
             \/ /\ req[r].op = "update" /\ req[r].id = row.id
                /\ req[r].pc = "in" /\ req'[r].pc = "out"
                /\ file'[row.id]["in"] = IF "in" \in req[r].sides THEN r ELSE file[row.id]["in"]
  <2>1. row.id \in Ids /\ "in" \in Sides
    BY DEF CatalogueTypes, RowType, Sides
  <2>2. \A i \in Ids, k \in Sides :
          file'[i][k] = IF i = req[r].id /\ k = side THEN PutFile(r, side) ELSE file[i][k]
    BY <1>2, FileFacts
  <2>3. CASE row.id # req[r].id \/ side # "in"
    BY <2>1, <2>2, <2>3
  <2>4. CASE row.id = req[r].id /\ side = "in"
    <3>1. req[r].pc = "in" /\ req'[r].pc = "out"
      BY <1>2, <2>4, GoToFacts, PcFacts DEF WriteFile, AfterFile
    <3>2. req[r].op # "delete" /\ ~Creating(r)
      BY <2>4, <3>1, CreatingIsAlone DEF FileInv
    <3>3. req[r].op = "update"
      BY <3>1, <3>2 DEF Creating, CatalogueTypes, RequestType
    <3>4. file'[row.id]["in"] = PutFile(r, "in")
      BY <2>1, <2>2, <2>4
    <3>5. QED BY <2>4, <3>1, <3>3, <3>4 DEF PutFile
  <2>5. QED BY <2>3, <2>4
<1>3. QED BY <1>1, <1>2

LEMMA SumWalk ==
  ASSUME CatalogueTypes, IdInv, FileInv, SumInv, NEW r \in Requests, Walking(r), [Next]_vars
  PROVE  SumInv'
<1>1. rows' = rows /\ Others(r) /\ Keeps(r) /\ torn \subseteq torn' /\ dropped' = dropped
  BY EditorFrame, WalkFacts, TornGrows
<1>2. ASSUME NEW row \in rows, ~(req[r].op = "update" /\ req[r].id = row.id) PROVE SumAt(row)'
  <2>1. row.id \notin torn' \union dropped' => file'[row.id]["in"] = file[row.id]["in"]
    BY <1>1, <1>2, InputOfWalk
  <2>2. /\ Updating(row.id)' = Updating(row.id)
        /\ \A x \in Updating(row.id) : req'[x] = req[x]
    BY <1>1, <1>2, UpdatingFrame DEF Updating, Keeps
  <2>3. QED BY <1>1, <2>1, <2>2, SumFramed DEF SumInv
<1>3. ASSUME NEW row \in rows, req[r].op = "update", req[r].id = row.id,
             row.id \notin torn' \union dropped'
      PROVE  SumAt(row)'
  <2> DEFINE i == row.id
  <2>1. i \notin torn \union dropped /\ SumAt(row)
    BY <1>1, <1>3 DEF SumInv
  <2>2. req[r].pc \notin {"new", "ok", "refused"} /\ req[r].pc \notin AssetPlaces
    BY <1>3, WalkFacts DEF Walks, Places, AssetPlaces, IdInv
  <2>3. r \in Updating(i)
    BY <1>3, <2>2 DEF Updating
  <2>4. Updating(i) = {r}
    BY <2>1, <2>3 DEF SumAt
  <2>5. \A x \in Updating(i)' : x = r
    BY <1>1, <2>4 DEF Updating, Others
  <2>6. ~Fail(r)
    BY <1>3 DEF Fail, Torn
  <2>7. CASE req'[r].pc \in {"refused", "ok"}
    <3>1. Updating(i)' = {}
      BY <2>5, <2>7 DEF Updating
    <3>2. file'[i]["in"] = file[i]["in"]
      BY <1>1, <2>1, <2>7, InputOfWalk
    <3>3. req[r].pc \in {"conflict", "invalidate"}
      <4>1. CASE Conflict(r) \/ Invalidate(r)
        BY <4>1 DEF Conflict, Invalidate
      <4>2. CASE \E side \in Sides : WriteFile(r, side) \/ DeleteIgnored(r, side)
        <5>1. PICK pc \in {"out", "row"} : GoTo(r, pc)
          BY <4>2 DEF WriteFile, DeleteIgnored, AfterFile
        <5>2. QED BY <2>7, <5>1, GoToFacts, PcFacts
      <4>3. CASE ~(Conflict(r) \/ Invalidate(r)) /\ ~\E side \in Sides : WriteFile(r, side) \/ DeleteIgnored(r, side)
        <5>1. req[r].pc \in AssetPlaces
          BY <2>6, <4>3 DEF Walking, DropIgnored, FindAsset, DropAsset, WriteAsset, CreateAsset,
                            ClearAsset, AssetPlaces
        <5>2. QED BY <2>2, <5>1
      <4>4. QED BY <4>1, <4>2, <4>3
    <3>4. Settled(row)
      BY <2>1, <2>3, <3>3 DEF SumAt
    <3>5. Settled(row)'
      BY <3>2, <3>4 DEF Settled
    <3>6. QED BY <3>1, <3>5 DEF SumAt
  <2>8. CASE req'[r].pc \notin {"refused", "ok"}
    <3>0. \/ req[r].pc = "conflict" /\ req'[r].pc = "in"
          \/ req[r].pc = "in" /\ req'[r].pc = "out"
          \/ req[r].pc = "out" /\ req'[r].pc = "row"
      BY <2>2, <2>8, WalkFacts DEF Walks, AssetPlaces
    <3>1. \A x \in Updating(i)' : req'[x].sum = req[r].sum /\ req'[x].sides = req[r].sides
                                  /\ x = r /\ req'[x].pc \in {"in", "out", "row"}
      BY <1>1, <2>5, <3>0 DEF Keeps
    <3>2. Updating(i)' # {}
      BY <1>1, <1>3, <3>0 DEF Updating, Keeps
    <3>3. CASE req[r].pc = "conflict"
      <4>1. file'[i]["in"] = file[i]["in"]
        BY <1>1, <2>1, <3>3, InputOfWalk
      <4>2. Settled(row) /\ req[r].sum = IF "in" \in req[r].sides THEN r ELSE row.sum
        BY <2>1, <2>3, <3>3 DEF SumAt
      <4>3. Settled(row)' /\ req'[r].pc = "in"
        BY <3>0, <3>3, <4>1, <4>2 DEF Settled
      <4>4. QED BY <3>1, <3>2, <4>2, <4>3 DEF SumAt
    <3>4. CASE req[r].pc = "in"
      <4>0. req'[r].pc = "out"
        BY <3>0, <3>4
      <4>2. Settled(row) /\ req[r].sum = IF "in" \in req[r].sides THEN r ELSE row.sum
        BY <2>1, <2>3, <3>4 DEF SumAt
      <4>3. file'[i]["in"] = IF "in" \in req[r].sides THEN r ELSE file[i]["in"]
        <5>1. CASE \E side \in Sides : WriteFile(r, side)
          <6>1. PICK side \in Sides : WriteFile(r, side)
            BY <5>1
          <6>2. side = "in" /\ i \in Ids /\ "in" \in Sides
            BY <3>4, <6>1 DEF WriteFile, CatalogueTypes, RowType, Sides
          <6>3. file'[i]["in"] = PutFile(r, "in")
            BY <1>3, <6>1, <6>2, FileFacts
          <6>4. QED BY <1>3, <6>3 DEF PutFile
        <5>2. CASE ~\E side \in Sides : WriteFile(r, side)
          <6>1. \/ Conflict(r) \/ Invalidate(r) \/ DropIgnored(r)
                \/ \E side \in Sides : DeleteIgnored(r, side)
                \/ FindAsset(r) \/ DropAsset(r) \/ WriteAsset(r) \/ CreateAsset(r)
                \/ \E has \in BOOLEAN : ClearAsset(r, has)
            BY <2>6, <5>2, Zenon DEF Walking
          <6>2. QED BY <1>3, <3>4, <6>1 DEF Conflict, Invalidate, DropIgnored, DeleteIgnored,
                         FindAsset, DropAsset, WriteAsset, CreateAsset, ClearAsset
        <5>3. QED BY <5>1, <5>2
      <4>4. req[r].sum = file'[i]["in"]
        BY <4>2, <4>3 DEF Settled
      <4>5. QED BY <3>1, <3>2, <4>0, <4>4 DEF SumAt
    <3>5. CASE req[r].pc = "out"
      <4>1. file'[i]["in"] = file[i]["in"] /\ req'[r].pc = "row"
        BY <1>1, <2>1, <3>0, <3>5, InputOfWalk
      <4>2. req[r].sum = file[i]["in"]
        BY <2>1, <2>3, <3>5 DEF SumAt
      <4>3. QED BY <3>1, <3>2, <4>1, <4>2 DEF SumAt
    <3>6. QED BY <3>0, <3>3, <3>4, <3>5
  <2>9. QED BY <2>7, <2>8
<1>4. \A row \in rows' : SumAt(row)'
  BY <1>1, <1>2, <1>3 DEF SumAt
<1>5. QED BY <1>4 DEF SumInv

LEMMA SumWrite ==
  ASSUME CatalogueTypes, IdInv, FileInv, SumInv, NEW r \in Requests, WriteRow(r), [Next]_vars
  PROVE  SumInv'
<1>1. /\ Others(r) /\ req[r].pc = "row" /\ file' = file /\ dropped' = dropped
      /\ torn \subseteq torn' /\ req'[r].op = req[r].op
  BY WriteRowFacts, TornGrows
(* The rows of other testcases, and all of them when it is no update.      *)
<1>2. ASSUME NEW row \in rows, ~(req[r].op = "update" /\ req[r].id = row.id) PROVE SumAt(row)'
  <2>1. req'[r].op = "update" => req'[r].id = req[r].id
    BY <1>1, WriteRowFacts
  <2>2. /\ Updating(row.id)' = Updating(row.id)
        /\ \A x \in Updating(row.id) : req'[x] = req[x]
    <3>1. r \notin Updating(row.id)
      BY <1>2 DEF Updating
    <3>2. ~(req'[r].op = "update" /\ req'[r].id = row.id
            /\ req'[r].pc \notin {"new", "ok", "refused"})
      BY <1>1, <1>2, <2>1
    <3>3. Others(r)
      BY <1>1
    <3>4. QED BY <3>1, <3>2, <3>3, UpdatingFrame, Zenon
  <2>3. QED BY <1>1, <2>2, SumFramed DEF SumInv
<1>3. CASE Refused(r)
  <2>1. rows' = rows /\ (req[r].op = "update" => req[r].id \in torn')
    BY <1>1, <1>3, WriteRowFacts
  <2>2. ASSUME NEW row \in rows', req[r].op = "update", req[r].id = row.id PROVE SumAt(row)'
    BY <2>1, <2>2 DEF SumAt
  <2>3. \A row \in rows' : SumAt(row)'
    BY <1>2, <2>1, <2>2
  <2>4. QED BY <2>3 DEF SumInv
<1>4. CASE ~Refused(r)
  <2>0. torn' = torn /\ rows' = IF req[r].op = "delete" THEN OtherRows(req[r].id)
                                ELSE OtherRows(req[r].id) \union {NewRow(r)}
    BY <1>4, WriteRowFacts
  <2>1. \A row \in OtherRows(req[r].id) : SumAt(row)'
    BY <1>2 DEF OtherRows
  <2>2. PICK new : new = NewRow(r)
    OBVIOUS
  <2>3. new.id = req[r].id /\ new.sum = req[r].sum
    BY <2>2 DEF NewRow
  <2>4. ASSUME req[r].op \in {"create", "import"} PROVE SumAt(new)'
    <3>1. Creating(r)
      BY <1>1, <2>4 DEF Creating
    <3>2. \A x \in Requests \ {r} : req[x].id # req[r].id
      BY <3>1, CreatingIsAlone
    <3>3. Updating(new.id)' = {}
      BY <1>1, <2>3, <2>4, <3>2 DEF Updating, Others
    <3>4. new.sum = file'[new.id]["in"]
      BY <1>1, <2>3, <3>1 DEF FileInv
    <3>5. QED BY <3>3, <3>4 DEF SumAt, Settled
  <2>5. ASSUME req[r].op = "update" PROVE SumAt(new)'
    <3>1. PICK old \in rows : old.id = req[r].id
      BY <1>4, <2>5 DEF Refused, RowIds
    <3>2. SUFFICES ASSUME new.id \notin torn' \union dropped' PROVE SumAt(new)'
      BY DEF SumAt
    <3>3. r \in Updating(old.id) /\ old.id \notin torn \union dropped /\ old.id = new.id
      BY <1>1, <2>0, <2>3, <2>5, <3>1, <3>2 DEF Updating
    <3>4. Updating(new.id) = {r} /\ req[r].sum = file[new.id]["in"]
      BY <1>1, <3>3 DEF SumInv, SumAt
    <3>5. Settled(new)'
      BY <1>1, <2>3, <3>4 DEF Settled
    <3>6. req'[r].pc = "invalidate" /\ req'[r].id = req[r].id
      BY <1>4, <2>5, WriteRowFacts
    <3>7. \A x \in Updating(new.id)' : x = r
      BY <1>1, <3>4 DEF Updating, Others
    <3>8. r \in Updating(new.id)'
      BY <1>1, <2>3, <2>5, <3>6 DEF Updating
    <3>9. QED BY <3>5, <3>6, <3>7, <3>8 DEF SumAt
  <2>6. ASSUME NEW row \in rows' PROVE SumAt(row)'
    <3>1. CASE row \in OtherRows(req[r].id)
      BY <2>1, <3>1
    <3>2. CASE row \notin OtherRows(req[r].id)
      <4>1. row = new /\ req[r].op # "delete"
        BY <2>0, <2>2, <2>6, <3>2
      <4>2. req[r].op \in {"create", "import", "update"}
        BY <4>1 DEF CatalogueTypes, RequestType
      <4>3. SumAt(new)'
        BY <2>4, <2>5, <4>2
      <4>4. QED BY <4>1, <4>3
    <3>3. QED BY <3>1, <3>2
  <2>7. QED BY <2>6 DEF SumInv
<1>5. QED BY <1>3, <1>4

LEMMA SumKept ==
  ASSUME CatalogueTypes, IdInv, FileInv, SumInv, [Next]_vars PROVE SumInv'
<1>1. ASSUME UNCHANGED editorVars PROVE SumInv'
  BY <1>1 DEF editorVars, SumInv, SumAt, Settled, Updating
<1>2. ASSUME NEW r \in Requests, Starting(r) \/ Walking(r) \/ WriteRow(r) PROVE SumInv'
  BY <1>2, SumStart, SumWalk, SumWrite
<1>3. ASSUME NEW r \in Requests, Clear(r) PROVE SumInv'
  <2>1. /\ Others(r) /\ req[r].op = "import" /\ req'[r].op = "import" /\ rows' \subseteq rows
        /\ file' = file /\ torn' = torn /\ dropped' = dropped
    BY <1>3, ClearFacts DEF Clear, Keeps
  <2>2. ASSUME NEW row \in rows PROVE SumAt(row)'
    <3>1. /\ Updating(row.id)' = Updating(row.id)
          /\ \A x \in Updating(row.id) : req'[x] = req[x]
      <4>1. r \notin Updating(row.id)
        BY <2>1 DEF Updating
      <4>2. ~(req'[r].op = "update" /\ req'[r].id = row.id
              /\ req'[r].pc \notin {"new", "ok", "refused"})
        BY <2>1
      <4>3. Others(r)
        BY <2>1
      <4>4. QED BY <4>1, <4>2, <4>3, UpdatingFrame, Zenon
    <3>2. QED BY <2>1, <3>1, SumFramed DEF SumInv
  <2>3. \A row \in rows' : SumAt(row)'
    BY <2>1, <2>2
  <2>4. QED BY <2>3 DEF SumInv
<1>4. CASE RestartApi
  <2>1. /\ rows' = rows /\ file' = file /\ dropped' = dropped
        /\ torn' = torn \union {req[r].id : r \in {x \in {y \in Requests : Active(y)} : req[x].op = "update"}}
    BY <1>4 DEF RestartApi, Torn
  <2>2. \A x \in Requests : /\ req'[x].pc = IF Active(x) THEN "refused" ELSE req[x].pc
                            /\ req'[x].op = req[x].op /\ req'[x].id = req[x].id
    BY <1>4, RestartApiFacts DEF Same
  <2>3. \A x \in Requests : req[x].pc \notin {"new", "ok", "refused"} => Active(x)
    BY DEF CatalogueTypes, RequestType, Pcs, Places, Active
  <2>4. ASSUME NEW row \in rows', row.id \notin torn' \union dropped' PROVE SumAt(row)'
    <3>1. Updating(row.id) = {} /\ row.id \notin torn \union dropped
      BY <2>1, <2>3, <2>4 DEF Updating
    <3>2. Updating(row.id)' = {}
      BY <2>2, <3>1 DEF Updating
    <3>3. Settled(row)
      BY <2>1, <3>1 DEF SumInv, SumAt
    <3>4. Settled(row)'
      BY <2>1, <3>3 DEF Settled
    <3>5. QED BY <3>2, <3>4 DEF SumAt
  <2>5. \A row \in rows' : SumAt(row)'
    BY <2>4 DEF SumAt
  <2>6. QED BY <2>5 DEF SumInv
<1>5. ASSUME NEW s \in Subs, Judging(s) PROVE SumInv'
  BY <1>1, <1>5, JudgingFrame
<1>6. CASE RestartWorker
  BY <1>1, <1>6 DEF RestartWorker
<1>7. CASE UNCHANGED vars
  BY <1>1, <1>7 DEF vars
<1>8. QED BY <1>2, <1>3, <1>4, <1>5, <1>6, <1>7, NextCases

-----------------------------------------------------------------------------
(* The asset. *)

AtClear(r) == req[r].pc = "assetClear" /\ req[r].found

LEMMA AssetFramed ==
  ASSUME AssetInv, asset' = asset, crossed => crossed', crossed' \in BOOLEAN,
         \A x \in Requests : AfterFind(x)' => /\ AfterFind(x) /\ req'[x].pc = req[x].pc
                                              /\ req'[x].found = req[x].found,
         crossed' \/ \A x \in Requests : AtClear(x) => AtClear(x)'
  PROVE  AssetInv'
<1>1. \A x \in Requests : req'[x].pc = "assetDrop" => req'[x].found
  BY DEF AssetInv, AfterFind, AssetPlaces
<1>2. CASE crossed'
  BY <1>1, <1>2 DEF AssetInv
<1>3. CASE ~crossed'
  <2>1. asset'.row => asset'.file \/ \E x \in Requests : AtClear(x)'
    BY <1>3 DEF AssetInv, AtClear
  <2>2. \A x, y \in Requests : AfterFind(x)' /\ AfterFind(y)' => x = y
    BY <1>3 DEF AssetInv
  <2>3. \A x \in Requests : req'[x].pc = "assetRow" => asset'.file
    BY <1>3 DEF AssetInv, AfterFind, AssetPlaces
  <2>4. QED BY <1>1, <2>1, <2>2, <2>3 DEF AssetInv, AtClear
<1>4. QED BY <1>2, <1>3

LEMMA AssetSteps ==
  ASSUME CatalogueTypes, AssetInv, NEW r \in Requests,
         \/ FindAsset(r) \/ DropAsset(r) \/ WriteAsset(r) \/ CreateAsset(r) \/ DropIgnored(r)
         \/ \E has \in BOOLEAN : ClearAsset(r, has)
  PROVE  AssetInv'
<1> USE PcFacts
<1>0. \A b \in BOOLEAN : /\ [asset EXCEPT !.row = b].row = b
                         /\ [asset EXCEPT !.row = b].file = asset.file
                         /\ [asset EXCEPT !.file = b].file = b
                         /\ [asset EXCEPT !.file = b].row = asset.row
  BY DEF CatalogueTypes
<1>g. ASSUME NEW pc \in Pcs, GoTo(r, pc)
      PROVE  /\ \A x \in Requests \ {r} : req'[x] = req[x]
             /\ req'[r].pc = pc /\ req'[r].found = req[r].found
  BY <1>g, GoToFacts DEF Same
(* As long as no two imports have met, r is the only one there.            *)
<1>a. ASSUME ~crossed, AfterFind(r), crossed' = crossed,
             \A x \in Requests \ {r} : req'[x] = req[x],
             req'[r].pc # "assetDrop",
             asset'.row => asset'.file \/ AtClear(r)',
             req'[r].pc = "assetRow" => asset'.file
      PROVE  AssetInv'
  <2>1. \A x \in Requests \ {r} : ~AfterFind(x) /\ ~AfterFind(x)'
    BY <1>a DEF AssetInv, AfterFind
  <2>2. \A x \in Requests : req'[x].pc = "assetDrop" => req'[x].found
    BY <1>a DEF AssetInv
  <2>3. \A x, y \in Requests : AfterFind(x)' /\ AfterFind(y)' => x = y
    BY <2>1
  <2>4. \A x \in Requests : req'[x].pc = "assetRow" => asset'.file
    BY <1>a, <2>1 DEF AfterFind, AssetPlaces
  <2>5. QED BY <1>a, <2>2, <2>3, <2>4 DEF AssetInv, AtClear
<1>b. ASSUME crossed, crossed' = crossed, \A x \in Requests \ {r} : req'[x] = req[x],
             req'[r].pc # "assetDrop"
      PROVE  AssetInv'
  BY <1>b DEF AssetInv
<1>c. ASSUME ~crossed, AfterFind(r), ~AtClear(r), asset.row PROVE asset.file
  BY <1>c DEF AssetInv, AtClear, AfterFind, AssetPlaces
<1>1. CASE FindAsset(r)
  <2>1. /\ req'[r].pc = (IF asset.row THEN "assetDrop" ELSE "assetClear")
        /\ req'[r].found = asset.row /\ req[r].pc = "assetFind" /\ asset' = asset
        /\ \A x \in Requests \ {r} : req'[x] = req[x]
    BY <1>1, FindFacts DEF FindAsset, Others
  <2>2. \A x \in Requests : req'[x].pc = "assetDrop" => req'[x].found
    BY <2>1 DEF AssetInv
  <2>3. crossed' = (crossed \/ \E x \in Requests \ {r} : req[x].pc \in AssetPlaces)
    BY <1>1 DEF FindAsset
  <2>4. CASE crossed'
    BY <2>2, <2>4 DEF AssetInv
  <2>5. CASE ~crossed'
    <3>1. ~crossed /\ \A x \in Requests \ {r} : req[x].pc \notin AssetPlaces
      BY <2>3, <2>5
    <3>2. \A x \in Requests : AfterFind(x)' => x = r
      BY <2>1, <3>1 DEF AfterFind
    <3>3. asset.row => asset.file
      BY <2>1, <3>1 DEF AssetInv, AssetPlaces
    <3>4. \A x \in Requests : req'[x].pc # "assetRow"
      BY <2>1, <3>1 DEF AssetPlaces
    <3>5. QED BY <2>1, <2>2, <3>2, <3>3, <3>4 DEF AssetInv
  <2>6. QED BY <2>4, <2>5
<1>2. CASE DropAsset(r)
  <2>1. /\ \A x \in Requests \ {r} : req'[x] = req[x]
        /\ req'[r].pc = "assetClear" /\ req'[r].found = req[r].found
    BY <1>2, <1>g DEF DropAsset
  <2>2. AfterFind(r) /\ AtClear(r)' /\ crossed' = crossed
    BY <1>2, <2>1 DEF DropAsset, AfterFind, AssetPlaces, AtClear, AssetInv
  <2>3. QED BY <1>a, <1>b, <2>1, <2>2
<1>3. CASE WriteAsset(r)
  <2>1. /\ \A x \in Requests \ {r} : req'[x] = req[x] /\ req'[r].pc = "assetRow"
    BY <1>3, <1>g DEF WriteAsset
  <2>2. AfterFind(r) /\ asset'.file /\ crossed' = crossed /\ req'[r].pc # "assetDrop"
    <3>1. req'[r].pc # "assetDrop"
      BY <1>3, <1>g DEF WriteAsset
    <3>2. asset'.file
      BY <1>0, <1>3 DEF WriteAsset
    <3>3. QED BY <1>3, <3>1, <3>2 DEF WriteAsset, AfterFind, AssetPlaces
  <2>3. QED BY <1>a, <1>b, <2>1, <2>2
<1>4. CASE CreateAsset(r)
  <2>1. PICK pc \in {"refused", "invalidate"} : GoTo(r, pc)
    BY <1>4 DEF CreateAsset
  <2>2. (\A x \in Requests \ {r} : req'[x] = req[x]) /\ req'[r].pc \in {"refused", "invalidate"}
    BY <1>g, <2>1
  <2>3. AfterFind(r) /\ ~AtClear(r) /\ crossed' = crossed /\ req[r].pc = "assetRow"
    BY <1>4 DEF CreateAsset, AfterFind, AssetPlaces, AtClear
  <2>4. ~crossed => (asset'.row => asset'.file)
    <3>1. CASE asset.row
      BY <1>4, <1>c, <2>3, <3>1 DEF CreateAsset
    <3>2. CASE ~asset.row
      BY <1>0, <1>4, <2>3, <3>2 DEF CreateAsset, AssetInv
    <3>3. QED BY <3>1, <3>2
  <2>5. QED BY <1>a, <1>b, <2>2, <2>3, <2>4
<1>5. CASE DropIgnored(r)
  <2>1. (\A x \in Requests \ {r} : req'[x] = req[x]) /\ req'[r].pc = "assetClear"
    BY <1>5, <1>g DEF DropIgnored
  <2>2. AfterFind(r) /\ ~AtClear(r) /\ crossed' = crossed /\ asset' = asset
    BY <1>5 DEF DropIgnored, AfterFind, AssetPlaces, AtClear, assetVars
  <2>3. ~crossed => (asset'.row => asset'.file)
    BY <1>c, <2>2
  <2>4. QED BY <1>a, <1>b, <2>1, <2>2, <2>3
<1>6. ASSUME NEW has \in BOOLEAN, ClearAsset(r, has) PROVE AssetInv'
  <2>1. PICK pc \in {"assetWrite", "invalidate"} : GoTo(r, pc)
    BY <1>6 DEF ClearAsset
  <2>2. (\A x \in Requests \ {r} : req'[x] = req[x]) /\ req'[r].pc \in {"assetWrite", "invalidate"}
    BY <1>g, <2>1
  <2>3. AfterFind(r) /\ crossed' = crossed /\ ~asset'.row
    <3>1. ~asset'.row
      BY <1>0, <1>6 DEF ClearAsset
    <3>2. QED BY <1>6, <3>1 DEF ClearAsset, AfterFind, AssetPlaces
  <2>4. QED BY <1>a, <1>b, <2>2, <2>3
<1>7. QED BY <1>1, <1>2, <1>3, <1>4, <1>5, <1>6

LEMMA AssetKept ==
  ASSUME CatalogueTypes, IdInv, AssetInv, [Next]_vars PROVE AssetInv'
<1> USE PcFacts
<1>0. CatalogueTypes'
  BY TypesKept
<1>1. crossed' \in BOOLEAN /\ crossed \in BOOLEAN
  BY <1>0 DEF CatalogueTypes
<1>2. CASE UNCHANGED vars
  BY <1>2 DEF vars, editorVars, assetVars, AssetInv, AfterFind
(* One request moves, to a place before the search for the asset or after  *)
(* all of them.                                                            *)
<1>3. ASSUME NEW r \in Requests, Others(r), asset' = asset, crossed => crossed',
             ~AfterFind(r)', crossed' \/ ~AtClear(r)
      PROVE  AssetInv'
  <2>1. \A x \in Requests : AfterFind(x)' => /\ AfterFind(x) /\ req'[x].pc = req[x].pc
                                             /\ req'[x].found = req[x].found
    BY <1>3 DEF Others, AfterFind
  <2>2. crossed' \/ \A x \in Requests : AtClear(x) => AtClear(x)'
    BY <1>3 DEF Others, AtClear
  <2>3. QED BY <1>1, <1>3, <2>1, <2>2, AssetFramed
<1>4. ASSUME NEW r \in Requests, Starting(r) PROVE AssetInv'
  <2>1. Others(r) /\ req[r].pc = "new" /\ req'[r].pc \in {"in", "conflict", "clear"}
    BY <1>4, StartingFacts
  <2>2. UNCHANGED <<asset, crossed>>
    BY <1>4 DEF Starting, StartCreate, StartUpdate, StartDelete, StartImport, assetVars
  <2>3. QED BY <1>3, <2>1, <2>2 DEF AfterFind, AssetPlaces, AtClear
<1>5. ASSUME NEW r \in Requests, Walking(r) PROVE AssetInv'
  <2>1. CASE \/ FindAsset(r) \/ DropAsset(r) \/ WriteAsset(r) \/ CreateAsset(r) \/ DropIgnored(r)
             \/ \E has \in BOOLEAN : ClearAsset(r, has)
    BY <2>1, AssetSteps
  <2>2. CASE Fail(r)
    <3>1. Others(r) /\ req'[r].pc = "refused" /\ asset' = asset
      BY <2>2, GoToFacts DEF Fail, Others
    <3>2. crossed' = (crossed \/ AtClear(r))
      BY <2>2 DEF Fail, Stopped, AtClear
    <3>3. QED BY <1>3, <3>1, <3>2 DEF AfterFind, AssetPlaces
  <2>3. CASE \/ Conflict(r) \/ Invalidate(r)
             \/ \E side \in Sides : WriteFile(r, side) \/ DeleteIgnored(r, side)
    <3>1. PICK pc \in {"refused", "in", "ok", "out", "row"} : GoTo(r, pc)
      BY <2>3 DEF Conflict, Invalidate, WriteFile, DeleteIgnored, AfterFile
    <3>2. Others(r) /\ req'[r].pc \in {"refused", "in", "ok", "out", "row"}
      BY <3>1, GoToFacts DEF Others
    <3>3. UNCHANGED <<asset, crossed>> /\ req[r].pc # "assetClear"
      BY <2>3 DEF Conflict, Invalidate, WriteFile, DeleteIgnored, assetVars, Sides
    <3>4. QED BY <1>3, <3>2, <3>3 DEF AfterFind, AssetPlaces, AtClear
  <2>4. QED BY <1>5, <2>1, <2>2, <2>3 DEF Walking
<1>6. ASSUME NEW r \in Requests, Clear(r) \/ WriteRow(r) PROVE AssetInv'
  <2>1. /\ Others(r) /\ req'[r].pc \in {"refused", "assetFind", "in", "invalidate"}
        /\ UNCHANGED <<asset, crossed>> /\ req[r].pc # "assetClear"
    BY <1>6, ClearFacts, WriteRowFacts DEF Clear, assetVars
  <2>2. QED BY <1>3, <2>1 DEF AfterFind, AssetPlaces, AtClear
<1>7. ASSUME NEW s \in Subs, Judging(s) PROVE AssetInv'
  BY <1>7, JudgingFrame DEF editorVars, assetVars, AssetInv, AfterFind
<1>8. CASE RestartApi
  <2>1. \A x \in Requests : /\ req'[x].pc = IF Active(x) THEN "refused" ELSE req[x].pc
                            /\ req'[x].found = req[x].found
    BY <1>8, RestartApiFacts DEF Same
  <2>2. \A x \in Requests : AfterFind(x) => Active(x)
    BY DEF AfterFind, Active
  <2>3. \A x \in Requests : ~AfterFind(x)'
    <3>1. \A x \in Requests : Active(x) => req'[x].pc \notin AssetPlaces \ {"assetFind"}
      BY <2>1 DEF AssetPlaces
    <3>2. \A x \in Requests : ~Active(x) => req'[x].pc \notin AssetPlaces \ {"assetFind"}
      BY <2>1, <2>2 DEF AfterFind
    <3>3. QED BY <3>1, <3>2 DEF AfterFind
  <2>4. asset' = asset /\ crossed' = (crossed \/ \E x \in Requests : AtClear(x))
    BY <1>8 DEF RestartApi, Stopped, AtClear
  <2>5. QED BY <1>1, <2>3, <2>4, AssetFramed
<1>9. CASE RestartWorker
  BY <1>9 DEF RestartWorker, editorVars, assetVars, AssetInv, AfterFind
<1>10. QED BY <1>2, <1>4, <1>5, <1>6, <1>7, <1>8, <1>9, NextCases

-----------------------------------------------------------------------------
(* The caches. *)

LEMMA CacheFramed ==
  ASSUME CacheInv, rows' = rows, UNCHANGED <<cache, sub>>, cacheLate => cacheLate',
         cacheLate' \in BOOLEAN,
         cache = NoList \/ cacheLate' \/ \A x \in Requests : Changing(x) => Changing(x)'
  PROVE  CacheInv'
<1>1. List' = List
  BY DEF List, Entry
<1>2. CacheAgrees'
  BY <1>1 DEF CacheInv, CacheAgrees
<1>3. QED BY <1>1, <1>2 DEF CacheInv

LEMMA CacheWalk ==
  ASSUME CatalogueTypes, IdInv, CacheInv, CatalogueTypes', NEW r \in Requests,
         Starting(r) \/ Walking(r)
  PROVE  CacheInv'
<1> USE PcFacts
<1>0. rows' = rows /\ sub' = sub /\ cacheLate' \in BOOLEAN
  BY EditorFrame DEF judgeVars, CatalogueTypes
<1>1. ASSUME Others(r), ~Changing(r) \/ Changing(r)', cache' = cache, cacheLate => cacheLate'
      PROVE  CacheInv'
  <2>1. \A x \in Requests : Changing(x) => Changing(x)'
    BY <1>1 DEF Others, Changing
  <2>2. QED BY <1>0, <1>1, <2>1, CacheFramed
<1>2. CASE Starting(r)
  <2>1. Others(r) /\ ~Changing(r)
    BY <1>2, StartingFacts DEF Changing, AssetPlaces
  <2>2. UNCHANGED <<cache, cacheLate>>
    BY <1>2 DEF Starting, StartCreate, StartUpdate, StartDelete, StartImport
  <2>3. QED BY <1>1, <2>1, <2>2
<1>3. CASE Invalidate(r)
  <2>1. cache' = NoList /\ List' = List
    BY <1>0, <1>3 DEF Invalidate, List, Entry
  <2>2. CacheAgrees'
    BY <2>1 DEF CacheAgrees
  <2>3. QED BY <1>0, <2>1, <2>2 DEF CacheInv
<1>4. CASE Fail(r) \/ CreateAsset(r)
  <2>0. Others(r) /\ Keeps(r)
    BY <1>4, WalkFacts DEF Walking
  <2>1. CASE Changing(r) /\ ~Changing(r)'
    <3>1. req[r].op = "import" /\ req[r].pc # "invalidate" /\ req[r].pc # "clear"
      <4>1. req[r].pc # "invalidate"
        BY <1>4 DEF Fail, CreateAsset
      <4>2. QED BY <2>1, <4>1 DEF Changing, AssetPlaces
    <3>2. cacheLate' = (cacheLate \/ cache # NoList)
      <4>1. CASE Fail(r)
        BY <3>1, <4>1 DEF Fail, CutOff
      <4>2. CASE CreateAsset(r)
        <5>1. CASE asset.row
          BY <3>1, <4>2, <5>1 DEF CreateAsset, CutOff
        <5>2. CASE ~asset.row
          <6>1. req'[r].pc = "invalidate"
            BY <4>2, <5>2, GoToFacts DEF CreateAsset
          <6>2. QED BY <2>1, <6>1 DEF Changing
        <5>3. QED BY <5>1, <5>2
      <4>3. QED BY <1>4, <4>1, <4>2
    <3>3. cache' = cache
      BY <1>4 DEF Fail, CreateAsset
    <3>4. QED BY <1>0, <3>2, <3>3, CacheFramed
  <2>2. CASE ~(Changing(r) /\ ~Changing(r)')
    <3>1. cache' = cache /\ (cacheLate => cacheLate')
      BY <1>4 DEF Fail, CreateAsset, CutOff
    <3>2. QED BY <1>1, <2>0, <2>2, <3>1
  <2>3. QED BY <2>1, <2>2
<1>5. CASE Walking(r) /\ ~(Fail(r) \/ CreateAsset(r) \/ Invalidate(r))
  <2>1. Others(r) /\ Keeps(r)
    BY <1>5, WalkFacts
  <2>2. UNCHANGED <<cache, cacheLate>>
    BY <1>5 DEF Walking, Conflict, DropIgnored, WriteFile, DeleteIgnored, FindAsset, DropAsset,
                WriteAsset, ClearAsset, notAssets
  <2>3. ASSUME Changing(r), ~Changing(r)' PROVE FALSE
    <3>1. req[r].pc # "invalidate"
      BY <1>5 DEF Walking, Conflict, DropIgnored, WriteFile, DeleteIgnored, FindAsset, DropAsset,
                  WriteAsset, ClearAsset, Sides
    <3>2. req'[r].op = "import" /\ req[r].op = "import"
          /\ req[r].pc \in {"in", "out", "row"} \union AssetPlaces
      BY <2>1, <2>3, <3>1 DEF Changing, Keeps
    <3>3. req'[r].pc \in {"in", "out", "row", "invalidate"} \union AssetPlaces
      <4>0. ASSUME NEW pc \in Pcs, GoTo(r, pc) PROVE req'[r].pc = pc
        BY <4>0, GoToFacts
      <4>1. CASE FindAsset(r)
        BY <4>1, FindFacts DEF AssetPlaces
      <4>2. CASE Conflict(r)
        BY <3>2, <4>2 DEF Conflict, AssetPlaces
      <4>3. CASE \E side \in Sides : WriteFile(r, side) \/ DeleteIgnored(r, side)
        <5>1. PICK pc \in {"out", "row"} : GoTo(r, pc)
          BY <4>3 DEF WriteFile, DeleteIgnored, AfterFile
        <5>2. QED BY <4>0, <5>1
      <4>4. CASE DropIgnored(r) \/ DropAsset(r) \/ WriteAsset(r) \/ \E has \in BOOLEAN : ClearAsset(r, has)
        <5>1. PICK pc \in {"assetClear", "assetRow", "assetWrite", "invalidate"} : GoTo(r, pc)
          BY <4>4 DEF DropIgnored, DropAsset, WriteAsset, ClearAsset
        <5>2. QED BY <4>0, <5>1 DEF AssetPlaces
      <4>5. QED BY <1>5, <4>1, <4>2, <4>3, <4>4 DEF Walking
    <3>4. QED BY <2>3, <3>2, <3>3 DEF Changing
  <2>4. QED BY <1>1, <2>1, <2>2, <2>3
<1>6. QED BY <1>2, <1>3, <1>4, <1>5

LEMMA CacheKept ==
  ASSUME CatalogueTypes, IdInv, CacheInv, [Next]_vars PROVE CacheInv'
<1> USE SubPcFacts
<1>0. CatalogueTypes'
  BY TypesKept
<1>1. CASE UNCHANGED vars
  BY <1>1 DEF vars, editorVars, judgeVars, CacheInv, CacheAgrees, List, Entry, Changing
<1>2. ASSUME NEW r \in Requests, Starting(r) \/ Walking(r) PROVE CacheInv'
  BY <1>0, <1>2, CacheWalk
(* The rows change: r goes on, and what has been read is late.             *)
<1>3. ASSUME NEW r \in Requests, Changing(r)', Late PROVE CacheInv'
  <2>1. CacheAgrees'
    BY <1>3 DEF CacheAgrees
  <2>2. QED BY <1>3, <2>1, LateFacts DEF CacheInv
<1>4. ASSUME NEW r \in Requests, Clear(r) PROVE CacheInv'
  <2>1. CASE UNCHANGED <<rows, sub>> /\ req'[r].pc = "refused"
    <3>1. Others(r) /\ req[r].pc = "clear" /\ UNCHANGED <<cache, cacheLate>>
      BY <1>4, ClearFacts DEF Clear
    <3>2. \A x \in Requests : Changing(x) => Changing(x)'
      BY <3>1 DEF Others, Changing, AssetPlaces
    <3>3. QED BY <1>0, <2>1, <3>1, <3>2, CacheFramed DEF CatalogueTypes
  <2>2. CASE ~(UNCHANGED <<rows, sub>> /\ req'[r].pc = "refused")
    <3>1. Late /\ req'[r].op = "import" /\ req'[r].pc \in {"assetFind", "in"}
      BY <1>4, <2>2, ClearFacts
    <3>2. QED BY <1>3, <3>1 DEF Changing, AssetPlaces
  <2>3. QED BY <2>1, <2>2
<1>5. ASSUME NEW r \in Requests, WriteRow(r) PROVE CacheInv'
  <2>1. CASE Refused(r)
    <3>1. /\ Others(r) /\ UNCHANGED <<rows, sub, cache>> /\ CutOff(r) /\ req[r].pc = "row"
      BY <1>5, <2>1, WriteRowFacts
    <3>2. ~Changing(r) \/ req[r].op = "import"
      BY <3>1 DEF Changing
    <3>3. cache = NoList \/ cacheLate' \/ \A x \in Requests : Changing(x) => Changing(x)'
      BY <3>1, <3>2 DEF Others, Changing, CutOff
    <3>4. QED BY <1>0, <3>1, <3>3, CacheFramed DEF CutOff, CatalogueTypes
  <2>2. CASE ~Refused(r)
    <3>1. Late /\ req'[r].op = req[r].op
          /\ \/ req[r].op = "import" /\ req'[r].pc \in {"assetFind", "in"}
             \/ req'[r].pc = "invalidate"
      BY <1>5, <2>2, WriteRowFacts
    <3>2. QED BY <1>3, <3>1 DEF Changing, AssetPlaces
  <2>3. QED BY <2>1, <2>2
<1>6. ASSUME NEW s \in Subs, Judging(s) PROVE CacheInv'
  <2>0. /\ List' = List /\ \A x \in Requests : Changing(x)' <=> Changing(x)
    BY <1>6, JudgingFrame DEF editorVars, List, Entry, Changing
  <2>1. ASSUME UNCHANGED <<cache, cacheLate>>, \A x \in Subs \ {s} : sub'[x] = sub[x],
               sub'[s].pc = "put" => sub'[s].list = List
        PROVE  CacheInv'
    <3>1. CacheAgrees'
      BY <2>0, <2>1 DEF CacheInv, CacheAgrees
    <3>2. QED BY <2>0, <2>1, <3>1 DEF CacheInv
  <2>2. ASSUME NEW pc \in SubPcs, pc # "put", sub' = [sub EXCEPT ![s].pc = pc],
               UNCHANGED <<cache, cacheLate>>
        PROVE  CacheInv'
    BY <2>1, <2>2, SubGoes
  <2>3. CASE Submit(s) \/ Sync(s) \/ Judge(s)
    <3>1. PICK pc \in {"created", "queued", "failed", "judged"} : sub' = [sub EXCEPT ![s].pc = pc]
      BY <2>3 DEF Submit, Sync, Judge
    <3>2. UNCHANGED <<cache, cacheLate>>
      BY <2>3 DEF Submit, Sync, Judge
    <3>3. QED BY <2>2, <3>1, <3>2
  <2>4. CASE Load(s)
    BY <2>1, <2>4, LoadFacts DEF Load
  <2>5. CASE PutInCache(s)
    <3>1. sub'[s].pc = "sync" /\ \A x \in Subs \ {s} : sub'[x] = sub[x]
      BY <2>5, SubGoes DEF PutInCache
    <3>2. cache' = sub[s].list /\ cacheLate' = sub[s].late /\ sub[s].pc = "put"
      BY <2>5 DEF PutInCache
    <3>3. CacheAgrees'
      BY <2>0, <3>2 DEF CacheInv, CacheAgrees
    <3>4. QED BY <2>0, <3>1, <3>3 DEF CacheInv
  <2>6. CASE ResolveTestcases(s)
    <3> DEFINE e == [sub[s] EXCEPT !.pc = "running", !.list = workerCache']
    <3>1. sub[s] \in SubType
      BY DEF CatalogueTypes
    <3>2. sub' = [sub EXCEPT ![s] = e] /\ UNCHANGED <<cache, cacheLate>>
      BY <2>6 DEF ResolveTestcases
    <3>3. e.pc = "running"
      BY <3>1 DEF SubType
    <3> HIDE DEF e
    <3>4. sub'[s].pc = "running" /\ \A x \in Subs \ {s} : sub'[x] = sub[x]
      BY <3>2, <3>3 DEF CatalogueTypes
    <3>5. QED BY <2>1, <3>2, <3>4
  <2>7. CASE Rejudge(s)
    <3>1. sub'[s].pc = "created" /\ \A x \in Subs \ {s} : sub'[x] = sub[x]
      BY <2>7 DEF Rejudge, CatalogueTypes, SubType
    <3>2. QED BY <2>1, <2>7, <3>1 DEF Rejudge
  <2>8. QED BY <1>6, <2>3, <2>4, <2>5, <2>6, <2>7 DEF Judging
<1>7. CASE RestartApi
  <2>1. CacheAgrees'
    BY <1>7 DEF RestartApi, CacheAgrees
  <2>2. \A s \in Subs : sub'[s].pc # "put"
    BY <1>7, RestartApiFacts
  <2>3. QED BY <2>1, <2>2 DEF CacheInv
<1>8. CASE RestartWorker
  <2>1. UNCHANGED <<rows, req, cache, cacheLate>> /\ List' = List
    BY <1>8 DEF RestartWorker, editorVars, List, Entry
  <2>2. CacheAgrees'
    BY <2>1 DEF CacheInv, CacheAgrees, Changing
  <2>3. \A s \in Subs : sub'[s].pc = "put" /\ ~sub'[s].late =>
          sub[s].pc = "put" /\ ~sub[s].late /\ sub'[s].list = sub[s].list
    BY <1>8, RestartWorkerFacts
  <2>4. QED BY <2>1, <2>2, <2>3 DEF CacheInv
<1>9. QED BY <1>1, <1>2, <1>4, <1>5, <1>6, <1>7, <1>8, NextCases

-----------------------------------------------------------------------------
(* The theorems. *)

LEMMA CatalogueInit == Init => CatalogueInv
<1> SUFFICES ASSUME Init PROVE CatalogueInv
  OBVIOUS
<1>1. \A r \in Requests : req[r] = NewRequest
  BY DEF Init
<1>2. \A r \in Requests : /\ req[r].pc = "new" /\ req[r].op = "create" /\ req[r].id = 1
  BY <1>1 DEF NewRequest
<1>3. \A s \in Subs : sub[s] = NewSub /\ sub[s].pc = "none"
  BY DEF Init, NewSub
<1>4. CatalogueTypes
  <2>1. NewSub \in SubType
    BY DEF NewSub, SubType
  <2>2. rows \subseteq RowType /\ IsFiniteSet(rows)
    <3>1. [id |-> 1, ord |-> 0, sum |-> Old] \in RowType
      BY CatalogueAssumption DEF RowType, Ids, Contents
    <3>2. QED BY <3>1, FS_Singleton DEF Init
  <2>3. file \in [Ids -> [Sides -> Contents]]
    BY DEF Init, Contents
  <2>4. given \in Ids
    BY CatalogueAssumption DEF Init, Ids
  <2>5. QED BY <2>1, <2>2, <2>3, <2>4, NewRequestType DEF Init, CatalogueTypes
<1>5. RowIds = {1} /\ \A row \in rows : row.id = 1 /\ row.sum = Old
  BY DEF Init, RowIds
<1>6. IdInv
  BY <1>2, <1>5 DEF Init, IdInv, Creating, AssetPlaces
<1>7. CacheInv
  BY <1>3 DEF Init, CacheInv, CacheAgrees
<1>8. ResultInv
  BY <1>3 DEF Init, ResultInv
<1>9. FileInv
  <2>1. 1 \in Ids
    BY CatalogueAssumption DEF Ids
  <2>2. Readable(1)
    BY <2>1, CatalogueAssumption DEF Init, Readable
  <2>3. \A r \in Requests : ~Creating(r) /\ req[r].op = "create"
    BY <1>2 DEF Creating
  <2>4. QED BY <1>5, <2>2, <2>3 DEF FileInv
<1>10. AssetInv
  BY <1>2 DEF Init, AssetInv, AfterFind, AssetPlaces
<1>11. SumInv
  <2>1. \A i : Updating(i) = {}
    BY <1>2 DEF Updating
  <2>2. file[1]["in"] = Old
    BY CatalogueAssumption DEF Init, Ids, Sides
  <2>3. QED BY <1>5, <2>1, <2>2 DEF SumInv, SumAt, Settled
<1>12. QED BY <1>4, <1>6, <1>7, <1>8, <1>9, <1>10, <1>11 DEF CatalogueInv

LEMMA CatalogueIsInductive == Spec => []CatalogueInv
<1>1. Init => CatalogueInv
  BY CatalogueInit
<1>2. CatalogueInv /\ [Next]_vars => CatalogueInv'
  BY TypesKept, ResultsKept, IdKept, FilesKept, SumKept, AssetKept, CacheKept DEF CatalogueInv
<1>3. QED BY <1>1, <1>2, PTL DEF Spec

(* However the creation of submissions, two editors and an import          *)
(* interleave, the list of testcases the API keeps in its cache            *)
(* (problem-testcases-cache.service.ts) is that of the table as soon as no *)
(* handler that changes the table is still to invalidate it: the two       *)
(* exceptions of CacheAgrees are all there are.                            *)
THEOREM CacheIsCurrent == Spec => []CacheAgrees
<1>1. CatalogueInv => CacheAgrees
  BY DEF CatalogueInv, CacheInv
<1>2. QED BY <1>1, CatalogueIsInductive, PTL

(* A testcase has both its files from the moment it has a row until its    *)
(* own deletion begins, and an asset its file, whatever stops a handler    *)
(* between the storage and the table, as long as no two imports meet.      *)
THEOREM FilesAreThere == Spec => []RowHasFiles
<1>1. CatalogueInv => RowHasFiles
  BY DEF CatalogueInv, FileInv, AssetInv, RowHasFiles
<1>2. QED BY <1>1, CatalogueIsInductive, PTL

(* The checksum a row carries is that of the input in the storage, except  *)
(* for a testcase of which two updates have overlapped or one has stopped  *)
(* half-way.                                                               *)
THEOREM ChecksumIsOfTheInput == Spec => []ChecksumAgrees
<1>1. CatalogueInv => ChecksumAgrees
  BY DEF CatalogueInv, SumInv, SumAt, Settled, ChecksumAgrees
<1>2. QED BY <1>1, CatalogueIsInductive, PTL

(* A submission that the worker judged on a stale list of testcases never  *)
(* gets a verdict that rests on a testcase that is gone: the result rows   *)
(* it would update refer to rows of the table, and are missing.            *)
THEOREM StaleListNeverScores == Spec => []StaleNeverScores
<1>1. CatalogueInv => StaleNeverScores
  BY DEF CatalogueInv, ResultInv, StaleNeverScores
<1>2. QED BY <1>1, CatalogueIsInductive, PTL
=============================================================================
