----------------------- MODULE CatalogSnapshots_proofs -----------------------
(***************************************************************************)
(* Proofs about CatalogSnapshots for any number of files, directories and  *)
(* sessions: what a committed scan without an error missed, that readers   *)
(* list what it observed, and that a report shown as current is about it.  *)
(*                                                                         *)
(* Three invariants build on one another.  Sessions are numbered as they   *)
(* are created and a snapshot's generation is its session's number, so the *)
(* latest snapshot is that of the greatest committed number.  Once a       *)
(* directory has any row in a session's queue, every lasting file of it is *)
(* observed, queued or passed over, or the session counts an error.  A     *)
(* file record names a session that has observed the file.                 *)
(***************************************************************************)
EXTENDS CatalogSnapshots, FiniteSetTheorems, WellFoundedInduction, TLAPS

Created(s) == status[s] # "none"

\* A session is created with the next number, and its rows come after it.
Numbered ==
    \A s \in Sessions :
        IF Created(s)
        THEN generation[s] = s /\ \A t \in Sessions : t < s => Created(t)
        ELSE /\ snapshot[s] = "none"
             /\ pending[s] = {} /\ done[s] = {} /\ seen[s] = {} /\ s \notin alone

\* A snapshot is committed with its session, and the scan job's session is running.
Running == scan.step # "idle" => scan.session \in Sessions /\ status[scan.session] = "running"
Committing == \A s \in Sessions : snapshot[s] = "committed" <=> status[s] = "completed"

Numbering == SnapTypes /\ Numbered /\ Running /\ Committing

\* The latest snapshot is the committed one with the greatest number.
LatestIsLast ==
    IF Committed = {} THEN Latest = 0
    ELSE Latest \in Committed /\ \A s \in Committed : s <= Latest

-----------------------------------------------------------------------------
(* Greatest numbers and chunks.                                             *)

\* A bounded set of numbers that is not empty has a greatest one.
LEMMA LastExists ==
  ASSUME NEW N \in Nat, NEW S, S \subseteq 0 .. N, S # {}
  PROVE  \E i \in S : \A j \in S : i >= j
<1> DEFINE T == {N - x : x \in S}
<1>1. T \subseteq Nat /\ T # {}
  <2>1. \A x \in S : N - x \in Nat
    OBVIOUS
  <2> QED BY <2>1
<1>2. PICK y \in T : \A z \in T : ~(<<z, y>> \in OpToRel(<, Nat))
  <2> HIDE DEF T
  <2> QED BY <1>1, NatLessThanWellFounded, WFMin
<1>3. \A z \in T : y <= z
  <2> HIDE DEF T
  <2> TAKE z \in T
  <2>1. y \in Nat /\ z \in Nat
    BY <1>1, <1>2
  <2>2. ~(z < y)
    BY <1>1, <1>2 DEF OpToRel
  <2> QED BY <2>1, <2>2
<1>4. PICK x \in S : y = N - x
  OBVIOUS
<1>5. ASSUME NEW j \in S PROVE x >= j
  <2>1. N - j \in T
    OBVIOUS
  <2>2. N - x <= N - j
    BY <1>3, <1>4, <2>1
  <2> QED BY <2>2
<1> QED BY <1>5

\* Max of such a set is that number.
LEMMA MaxIsLast ==
  ASSUME NEW N \in Nat, NEW S, S \subseteq 0 .. N, S # {}
  PROVE  Max(S) \in S /\ \A j \in S : Max(S) >= j
BY LastExists DEF Max

\* The row with the greatest generation, where generations are the rows' numbers.
LEMMA GreatestGeneration ==
  ASSUME NEW S, S \subseteq Sessions, S # {}, NEW number, \A s \in S : number[s] = s
  PROVE  LET last == CHOOSE s \in S : \A t \in S : number[t] <= number[s] IN
         last \in S /\ \A t \in S : t <= last
<1>1. \E s \in S : \A t \in S : s >= t
  <2>1. MaxSessions \in Nat /\ S \subseteq 0 .. MaxSessions
    BY SizesAssumption DEF Sessions
  <2> QED BY <2>1, LastExists
<1>2. \E s \in S : \A t \in S : number[t] <= number[s]
  <2>1. PICK s \in S : \A t \in S : s >= t
    BY <1>1
  <2>2. \A t \in S : number[t] <= number[s]
    BY <2>1 DEF Sessions
  <2> QED BY <2>2
<1> DEFINE last == CHOOSE s \in S : \A t \in S : number[t] <= number[s]
<1>3. last \in S /\ \A t \in S : number[t] <= number[last]
  BY <1>2
<1> QED BY <1>3

LEMMA LatestFound ==
  ASSUME Numbering
  PROVE  LatestIsLast
<1>1. CASE Committed = {}
  BY <1>1 DEF LatestIsLast, Latest
<1>2. CASE Committed # {}
  <2>1. Committed \subseteq Sessions /\ \A s \in Committed : generation[s] = s
    BY DEF Committed, Numbering, Numbered, Created, Committing
  <2> QED BY <1>2, <2>1, GreatestGeneration DEF LatestIsLast, Latest
<1> QED BY <1>1, <1>2

\* How many chunks come before the one that holds the next of b files, and the last.
LEMMA ChunkCount ==
  ASSUME NEW a \in Nat, NEW b \in Nat, NEW c \in Nat \ {0}, a < b
  PROVE  /\ a \div c \in Nat
         /\ (b + c - 1) \div c \in Nat
         /\ a \div c + 1 <= (b + c - 1) \div c
         /\ (b + c - 1) \div c <= b
<1>1. a \div c \in Nat /\ (b + c - 1) \div c \in Nat
  OBVIOUS
<1>2. c * (a \div c) <= a
  OBVIOUS
<1>3. a < c * (a \div c + 1)
  OBVIOUS
<1>4. c * ((b + c - 1) \div c) <= b + c - 1
  OBVIOUS
<1>5. b + c - 1 < c * ((b + c - 1) \div c + 1)
  OBVIOUS
<1> QED OBVIOUS

\* The chunks of a directory are its rows, and together hold the listed files.
LEMMA ChunksCover ==
  ASSUME NEW d \in Dirs, NEW files \in SUBSET Files, NEW errors \in 0 .. 1
  PROVE  /\ WorkItems(d, files, errors) \subseteq Chunks
         /\ WorkItems(d, files, errors) # {}
         /\ \A i \in WorkItems(d, files, errors) : i.key[1] = d
         /\ \A f \in files : \E i \in WorkItems(d, files, errors) : f \in i.files
<1> DEFINE Before(f) == Cardinality({g \in files : g < f})
           Batch(n) == {f \in files : Before(f) \div ChunkSize = n - 1}
           count == (Cardinality(files) + ChunkSize - 1) \div ChunkSize
           Item(n) == [key |-> <<d, n>>, files |-> Batch(n), errors |-> IF n = 1 THEN errors ELSE 0]
<1>1. /\ files \subseteq Files /\ IsFiniteSet(files)
      /\ Cardinality(files) \in Nat /\ Cardinality(Files) \in Nat
      /\ Cardinality(files) <= Cardinality(Files)
  BY FilesAssumption, FS_Subset, FS_CardinalityType
<1>2. ASSUME NEW f \in files PROVE Before(f) \in Nat /\ Before(f) < Cardinality(files)
  <2> DEFINE smaller == {g \in files : g < f}
  <2>1. f \in Nat /\ smaller \in SUBSET files /\ smaller # files
    BY <1>1, FilesAssumption
  <2> HIDE DEF smaller
  <2>2. /\ IsFiniteSet(smaller) /\ Cardinality(smaller) <= Cardinality(files)
        /\ Cardinality(smaller) # Cardinality(files)
    BY <1>1, <2>1, FS_Subset
  <2>3. Cardinality(smaller) \in Nat
    BY <2>2, FS_CardinalityType
  <2>4. Cardinality(smaller) \in Nat /\ Cardinality(smaller) < Cardinality(files)
    BY <1>1, <2>2, <2>3
  <2> QED BY <2>4 DEF smaller
<1>3. CASE count <= 1
  <2>1. WorkItems(d, files, errors) = {[key |-> <<d, 0>>, files |-> files, errors |-> errors]}
    BY <1>3 DEF WorkItems
  <2>2. <<d, 0>> \in Keys
    BY <1>1 DEF Keys
  <2>3. [key |-> <<d, 0>>, files |-> files, errors |-> errors] \in Chunks
    BY <2>2 DEF Chunks
  <2> QED BY <2>1, <2>3
<1>4. CASE ~(count <= 1)
  <2>1. WorkItems(d, files, errors) = {Item(n) : n \in 1 .. count}
    BY <1>4 DEF WorkItems
  <2>2. Cardinality(files) # 0
    <3>1. SUFFICES ASSUME Cardinality(files) = 0 PROVE FALSE
      OBVIOUS
    <3>2. (ChunkSize - 1) \div ChunkSize = 0
      BY SizesAssumption
    <3> QED BY <1>4, <3>1, <3>2, SizesAssumption
  <2>3. count \in Nat /\ count <= Cardinality(files)
    <3> DEFINE b == Cardinality(files)
    <3>1. b \in Nat /\ 0 \in Nat /\ 0 < b /\ ChunkSize \in Nat \ {0}
      BY <1>1, <2>2, SizesAssumption
    <3> HIDE DEF b
    <3>2. /\ (b + ChunkSize - 1) \div ChunkSize \in Nat
          /\ (b + ChunkSize - 1) \div ChunkSize <= b
      BY <3>1, ChunkCount
    <3> QED BY <3>2 DEF b
  <2>4. ASSUME NEW n \in 1 .. count PROVE Item(n) \in Chunks
    <3>1. n \in 0 .. Cardinality(Files)
      <4> HIDE DEF count
      <4> QED BY <1>1, <2>3
    <3>2. <<d, n>> \in Keys /\ Batch(n) \in SUBSET Files /\ Item(n).errors \in 0 .. 1
      BY <3>1 DEF Keys
    <3> QED BY <3>2 DEF Chunks
  <2>5. ASSUME NEW f \in files PROVE \E n \in 1 .. count : f \in Batch(n)
    <3> DEFINE b == Before(f)
    <3>1. b \in Nat /\ b < Cardinality(files)
      BY <1>2
    <3>2. b \div ChunkSize \in Nat /\ b \div ChunkSize + 1 <= count
      <4> HIDE DEF b
      <4> QED BY <1>1, <3>1, ChunkCount, SizesAssumption
    <3>3. b \div ChunkSize + 1 \in 1 .. count
      <4> HIDE DEF b, count
      <4> QED BY <2>3, <3>2
    <3>4. b \div ChunkSize = (b \div ChunkSize + 1) - 1
      <4> HIDE DEF b
      <4> QED BY <3>2
    <3> QED BY <3>3, <3>4
  <2>6. 1 \in 1 .. count
    <3> HIDE DEF count
    <3> QED BY <1>4, <2>3
  <2>7. WorkItems(d, files, errors) # {}
    <3> HIDE DEF count, Item
    <3> QED BY <2>1, <2>6
  <2>8. WorkItems(d, files, errors) \subseteq Chunks
    <3> HIDE DEF count, Item
    <3> QED BY <2>1, <2>4
  <2>9. \A i \in WorkItems(d, files, errors) : i.key[1] = d
    <3> HIDE DEF count, Batch
    <3> QED BY <2>1
  <2>10. ASSUME NEW f \in files
         PROVE  \E i \in WorkItems(d, files, errors) : f \in i.files
    <3>1. PICK n \in 1 .. count : f \in Batch(n)
      BY <2>5
    <3>2. f \in Item(n).files
      BY <3>1
    <3> HIDE DEF count, Item
    <3> QED BY <2>1, <3>2
  <2> QED BY <2>7, <2>8, <2>9, <2>10
<1> QED BY <1>3, <1>4

\* A directory that cannot be read is one row with an error.
LEMMA ErrorItem ==
  ASSUME NEW d \in Dirs
  PROVE  WorkItems(d, {}, 1) = {[key |-> <<d, 0>>, files |-> {}, errors |-> 1]}
<1>1. Cardinality({}) = 0
  BY FS_EmptySet
<1>2. (0 + ChunkSize - 1) \div ChunkSize <= 1
  BY SizesAssumption
<1> QED BY <1>1, <1>2 DEF WorkItems

\* What a walk queues for a directory.
LEMMA ItemsCover ==
  ASSUME storage \subseteq Files, NEW d \in Dirs, NEW unreadable, NEW failing
  PROVE  /\ ItemsOf(d, unreadable, failing) \subseteq Chunks
         /\ ItemsOf(d, unreadable, failing) # {}
         /\ \A i \in ItemsOf(d, unreadable, failing) : i.key[1] = d
         /\ d \in unreadable =>
               \A i \in ItemsOf(d, unreadable, failing) : i.key = <<d, 0>> /\ i.errors = 1
         /\ d \notin unreadable =>
               \A f \in storage \ failing : DirOf[f] = d =>
                  \E i \in ItemsOf(d, unreadable, failing) : f \in i.files
<1>1. CASE d \in unreadable
  <2>1. {} \in SUBSET Files /\ 1 \in 0 .. 1
    OBVIOUS
  <2>2. ItemsOf(d, unreadable, failing) = WorkItems(d, {}, 1)
    BY <1>1 DEF ItemsOf
  <2>3. \A i \in WorkItems(d, {}, 1) : i.key = <<d, 0>> /\ i.errors = 1
    BY ErrorItem
  <2> QED BY <1>1, <2>1, <2>2, <2>3, ChunksCover
<1>2. CASE d \notin unreadable
  <2> DEFINE files == {f \in storage \ failing : DirOf[f] = d}
  <2>1. files \in SUBSET Files /\ 0 \in 0 .. 1
    OBVIOUS
  <2>2. ItemsOf(d, unreadable, failing) = WorkItems(d, files, 0)
    BY <1>2 DEF ItemsOf
  <2>3. \A f \in storage \ failing : DirOf[f] = d => f \in files
    OBVIOUS
  <2> HIDE DEF files
  <2> QED BY <1>2, <2>1, <2>2, <2>3, ChunksCover
<1> QED BY <1>1, <1>2

-----------------------------------------------------------------------------
(* The numbering of the sessions.                                           *)

\* The number start_scan gives a session is its generation, and fresh.
LEMMA NextNumber ==
  ASSUME Numbering
  PROVE  LET s == Greatest({t \in Sessions : status[t] # "none"}) + 1 IN
         /\ s = NextGeneration
         /\ s \in Sessions => ~Created(s)
         /\ \A t \in Sessions : t < s => Created(t)
<1> DEFINE old == {t \in Sessions : status[t] # "none"}
           generations == {0} \cup {generation[t] : t \in Sessions}
<1>1. /\ MaxSessions \in Nat
      /\ old \subseteq 0 .. MaxSessions /\ generations \subseteq 0 .. MaxSessions
  BY SizesAssumption DEF Sessions, Numbering, SnapTypes
<1>2. Max(generations) \in generations /\ \A g \in generations : Max(generations) >= g
  <2>1. generations # {}
    OBVIOUS
  <2> HIDE DEF generations
  <2> QED BY <1>1, <2>1, MaxIsLast
<1>3. CASE old = {}
  <2>1. generations = {0}
    BY <1>3 DEF Numbering, SnapTypes
  <2>2. Max(generations) = 0 /\ Greatest(old) = 0
    <3> HIDE DEF generations, old
    <3> QED BY <1>2, <1>3, <2>1 DEF Greatest
  <2>3. \A t \in Sessions : ~(t < 1)
    BY DEF Sessions
  <2>4. NextGeneration = Max(generations) + 1
    BY DEF NextGeneration
  <2> HIDE DEF generations
  <2> QED BY <1>3, <2>2, <2>3, <2>4 DEF Created
<1>4. CASE old # {}
  <2> DEFINE m == Max(old)
  <2>1. m \in old /\ \A t \in old : m >= t
    <3> HIDE DEF old
    <3> QED BY <1>1, <1>4, MaxIsLast
  <2>2. Greatest(old) = m
    BY <1>4 DEF Greatest
  <2> HIDE DEF m
  <2>3. m \in generations /\ \A g \in generations : g <= m
    BY <2>1 DEF Numbering, Numbered, Created, SnapTypes, Sessions
  <2>4. Max(generations) = m
    <3> DEFINE x == Max(generations)
    <3>1. x \in 0 .. MaxSessions /\ m \in 0 .. MaxSessions /\ x >= m /\ x <= m
      <4> HIDE DEF generations, old
      <4> QED BY <1>1, <1>2, <2>3
    <3> HIDE DEF x
    <3>2. x = m
      BY <1>1, <3>1
    <3> QED BY <3>2 DEF x
  <2>5. \A t \in Sessions : t < m + 1 => Created(t)
    BY <2>1 DEF Numbering, Numbered, Created, Sessions
  <2>6. m + 1 \in Sessions => ~Created(m + 1)
    BY <2>1 DEF Created, Sessions
  <2>7. NextGeneration = Max(generations) + 1
    BY DEF NextGeneration
  <2> HIDE DEF generations, old
  <2>8. LET s == Greatest(old) + 1 IN
        /\ s = NextGeneration
        /\ s \in Sessions => ~Created(s)
        /\ \A t \in Sessions : t < s => Created(t)
    BY <2>2, <2>4, <2>5, <2>6, <2>7
  <2> QED BY <2>8 DEF old
<1> QED BY <1>3, <1>4

\* No step takes a number twice, nor leaves a committed snapshot to a session
\* that runs: the scan job has the only running session it works on.
LEMMA NumberingStep ==
  ASSUME Numbering, [SnapNext]_snapVars
  PROVE  Numbering'
<1> USE DEF Numbering
<1>s. /\ MaxSessions \in Nat
      /\ \A s \in Sessions : s \in 0 .. MaxSessions /\ s # 0
  BY SizesAssumption DEF Sessions
<1>b. \A b \in {"changes", "breaks", "reports"} :
        [spent EXCEPT ![b] = @ + 1] \in [Bounded -> Nat]
  BY DEF SnapTypes, Bounded
<1>e. \A a, b \in BOOLEAN :
        [spent EXCEPT !["breaks"] = IF a THEN @ ELSE @ + 1,
                      !["errors"] = IF b THEN @ ELSE @ + 1] \in [Bounded -> Nat]
  BY DEF SnapTypes, Bounded
<1>1. ASSUME NEW f \in Files, AddFile(f) PROVE Numbering'
  <2>s. spent' \in [Bounded -> Nat]
    BY <1>1, <1>b DEF AddFile, Spend
  <2>1. SnapTypes'
    BY <1>1, <2>s DEF SnapTypes, AddFile, sessionVars, queueVars, history
  <2>2. Numbered' /\ Running' /\ Committing'
    BY <1>1 DEF Numbered, Created, Running, Committing, AddFile, sessionVars, queueVars, history
  <2> QED BY <2>1, <2>2
<1>2. ASSUME NEW f \in Files, RemoveFile(f) PROVE Numbering'
  <2>s. spent' \in [Bounded -> Nat]
    BY <1>2, <1>b DEF RemoveFile, Spend
  <2>1. SnapTypes'
    BY <1>2, <2>s DEF SnapTypes, RemoveFile, sessionVars, queueVars
  <2>2. Numbered' /\ Running' /\ Committing'
    BY <1>2 DEF Numbered, Created, Running, Committing, RemoveFile, sessionVars, queueVars
  <2> QED BY <2>1, <2>2
<1>3. ASSUME StartScan PROVE Numbering'
  <2>1. PICK s \in Sessions :
          /\ s = Greatest({t \in Sessions : status[t] # "none"}) + 1
          /\ status' = [status EXCEPT ![s] = "running"]
          /\ snapshot' = [snapshot EXCEPT ![s] = "running"]
          /\ generation' = [generation EXCEPT ![s] = NextGeneration]
          /\ scan' = [session |-> s, step |-> "walk"]
          /\ stable' = [stable EXCEPT ![s] = storage]
          /\ alone' = alone \cup {s}
    BY <1>3 DEF StartScan
  <2>2. s = NextGeneration /\ ~Created(s) /\ \A t \in Sessions : t < s => Created(t)
    BY <2>1, NextNumber
  <2>3. UNCHANGED <<storage, erred, pending, done, last_seen, compare, report, seen, passed,
                    unheard, spent>>
    BY <1>3 DEF StartScan, queueVars
  <2>4. SnapTypes'
    <3>1. /\ status' \in [Sessions -> {"none", "running", "paused", "failed", "completed"}]
          /\ snapshot' \in [Sessions -> {"none", "running", "failed", "committed"}]
          /\ generation' \in [Sessions -> 0 .. MaxSessions]
          /\ \A t \in Sessions : generation'[t] = 0 <=> status'[t] = "none"
      BY <1>s, <2>1, <2>2 DEF SnapTypes
    <3>2. /\ scan' \in [session : 0 .. MaxSessions, step : {"idle", "walk", "work", "pause"}]
          /\ stable' \in [Sessions -> SUBSET Files] /\ alone' \subseteq Sessions
      BY <1>s, <2>1 DEF SnapTypes
    <3> QED BY <2>3, <3>1, <3>2 DEF SnapTypes
  <2>5. Numbered'
    BY <2>1, <2>2, <2>3 DEF Numbered, Created, SnapTypes
  <2>6. Running' /\ Committing'
    BY <2>1, <2>2 DEF Running, Committing, Created, SnapTypes
  <2> QED BY <2>4, <2>5, <2>6
<1>4. ASSUME Reopen PROVE Numbering'
  <2>1. LatestIncomplete \in Incomplete
    <3>1. Incomplete \subseteq 0 .. MaxSessions
      BY <1>s DEF Incomplete
    <3>2. Incomplete # {}
      BY <1>4 DEF Reopen, LatestIncomplete, Greatest
    <3> QED BY <1>s, <3>1, <3>2, MaxIsLast DEF LatestIncomplete, Greatest
  <2>2. PICK s \in Incomplete : s = LatestIncomplete
    BY <2>1
  <2>3. /\ s \in Sessions /\ status[s] \in {"running", "paused"}
        /\ status' = [status EXCEPT ![s] = "running"]
        /\ scan' = [session |-> s, step |-> "walk"]
        /\ UNCHANGED <<storage, snapshot, generation, erred, pending, done, last_seen, compare,
                       report, seen, stable, alone, passed, unheard, spent>>
    BY <1>4, <2>2 DEF Reopen, Incomplete, queueVars, history
  <2>4. SnapTypes'
    BY <1>s, <2>3 DEF SnapTypes
  <2>5. Numbered'
    BY <2>3 DEF Numbered, Created, SnapTypes
  <2>6. Running' /\ Committing'
    BY <2>3 DEF Running, Committing, SnapTypes
  <2> QED BY <2>4, <2>5, <2>6
<1>5. ASSUME FailScan PROVE Numbering'
  <2> DEFINE s == scan.session
  <2>1. s \in Sessions /\ status[s] = "running"
    BY <1>5 DEF FailScan, Running
  <2>2. /\ status' = [status EXCEPT ![s] = "failed"]
        /\ snapshot' = [snapshot EXCEPT ![s] = "failed"]
        /\ scan' = NoScan
        /\ spent' \in [Bounded -> Nat]
        /\ UNCHANGED <<storage, generation, erred, pending, done, last_seen, compare, report,
                       seen, stable, alone, passed, unheard>>
    BY <1>5, <1>b DEF FailScan, Spend, queueVars, history
  <2> HIDE DEF s
  <2>3. SnapTypes'
    BY <1>s, <2>1, <2>2 DEF SnapTypes, NoScan
  <2>4. Numbered'
    BY <2>1, <2>2 DEF Numbered, Created, SnapTypes
  <2>5. Running' /\ Committing'
    BY <2>1, <2>2 DEF Running, Committing, SnapTypes, NoScan
  <2> QED BY <2>3, <2>4, <2>5
<1>6. ASSUME Walk PROVE Numbering'
  <2> DEFINE s == scan.session
  <2>1. s \in Sessions /\ status[s] = "running" /\ scan.step = "walk"
    BY <1>6 DEF Walk, Running
  <2>2. PICK rows, skipped, lost, step :
          /\ rows \subseteq Chunks /\ skipped \subseteq Files /\ lost \subseteq Files
          /\ step \in {"work", "pause"}
          /\ pending' = [pending EXCEPT ![s] = @ \cup rows]
          /\ scan' = [scan EXCEPT !.step = step]
          /\ passed' = [passed EXCEPT ![s] = @ \cup skipped]
          /\ unheard' = [unheard EXCEPT ![s] = @ \cup lost]
          /\ spent' \in [Bounded -> Nat]
    <3>1. PICK failing, visited, unreadable :
            /\ visited \subseteq Dirs
            /\ pending' = [pending EXCEPT ![s] =
                  @ \cup Seeded(s, UNION {ItemsOf(d, unreadable, failing) : d \in visited})]
            /\ scan' = [scan EXCEPT !.step = AfterWalk(visited, Reachable(unreadable, failing))]
            /\ passed' = [passed EXCEPT ![s] = @ \cup (stable[s] \cap PassedOver(failing))]
            /\ unheard' = [unheard EXCEPT ![s] = @ \cup (stable[s] \cap Unheard(s, unreadable))]
            /\ \E a, b \in BOOLEAN :
                  spent' = [spent EXCEPT !["breaks"] = IF a THEN @ ELSE @ + 1,
                                         !["errors"] = IF b THEN @ ELSE @ + 1]
      BY <1>6 DEF Walk
    <3>2. storage \subseteq Files
      BY DEF SnapTypes
    <3>3. Seeded(s, UNION {ItemsOf(d, unreadable, failing) : d \in visited}) \subseteq Chunks
      BY <3>1, <3>2, ItemsCover DEF Seeded
    <3>4. /\ stable[s] \cap PassedOver(failing) \subseteq Files
          /\ stable[s] \cap Unheard(s, unreadable) \subseteq Files
      BY DEF PassedOver, Unheard
    <3>5. AfterWalk(visited, Reachable(unreadable, failing)) \in {"work", "pause"}
      BY DEF AfterWalk
    <3>6. spent' \in [Bounded -> Nat]
      BY <1>e, <3>1
    <3> HIDE DEF s
    <3> HIDE DEF Numbering
    <3> QED BY <3>1, <3>3, <3>4, <3>5, <3>6
  <2>3. UNCHANGED <<storage, status, snapshot, generation, erred, done, last_seen, compare, report,
                    seen, stable, alone>>
    BY <1>6 DEF Walk, sessionVars
  <2> HIDE DEF s
  <2>4. /\ pending' \in [Sessions -> SUBSET Chunks]
        /\ passed' \in [Sessions -> SUBSET Files] /\ unheard' \in [Sessions -> SUBSET Files]
    <3>1. /\ pending \in [Sessions -> SUBSET Chunks]
          /\ passed \in [Sessions -> SUBSET Files] /\ unheard \in [Sessions -> SUBSET Files]
      BY DEF SnapTypes
    <3> QED BY <2>2, <3>1
  <2>5. /\ scan' \in [session : 0 .. MaxSessions, step : {"idle", "walk", "work", "pause"}]
        /\ scan'.session = s
    BY <2>2 DEF SnapTypes, s
  <2>6. SnapTypes'
    BY <2>2, <2>3, <2>4, <2>5 DEF SnapTypes
  <2>7. Numbered'
    BY <2>1, <2>2, <2>3 DEF Numbered, Created, SnapTypes
  <2>8. Running' /\ Committing'
    BY <2>1, <2>3, <2>5 DEF Running, Committing
  <2> QED BY <2>6, <2>7, <2>8
<1>7. ASSUME Observe PROVE Numbering'
  <2> DEFINE s == scan.session
  <2>1. s \in Sessions /\ status[s] = "running"
    BY <1>7 DEF Observe, Running
  <2>2. PICK chunk, found :
          /\ chunk \in pending[s] /\ found \subseteq chunk.files \cap storage
          /\ last_seen' = LastSeenAfter(s, found)
          /\ pending' = [pending EXCEPT ![s] = @ \ {chunk}]
          /\ done' = [done EXCEPT ![s] = @ \cup {chunk.key}]
          /\ erred' \in {erred, erred \cup {s}}
          /\ seen' = [seen EXCEPT ![s] = @ \cup found]
          /\ alone' = IF found = {} THEN alone ELSE alone \cap {s}
          /\ spent' \in [Bounded -> Nat]
    <3>1. PICK chunk \in pending[s], unread \in SUBSET storage :
            LET found == (chunk.files \cap storage) \ unread IN
            /\ last_seen' = LastSeenAfter(s, found)
            /\ pending' = [pending EXCEPT ![s] = @ \ {chunk}]
            /\ done' = [done EXCEPT ![s] = @ \cup {chunk.key}]
            /\ erred' = ErredAfter(s, unread, chunk)
            /\ seen' = [seen EXCEPT ![s] = @ \cup found]
            /\ alone' = IF found = {} THEN alone ELSE alone \cap {s}
            /\ spent' = [spent EXCEPT !["errors"] = IF unread = {} THEN @ ELSE @ + 1]
      BY <1>7 DEF Observe
    <3>2. \A b \in BOOLEAN :
            [spent EXCEPT !["errors"] = IF b THEN @ ELSE @ + 1] \in [Bounded -> Nat]
      BY DEF SnapTypes, Bounded
    <3>3. ErredAfter(s, unread, chunk) \in {erred, erred \cup {s}}
      BY DEF ErredAfter
    <3> HIDE DEF s
    <3> QED BY <3>1, <3>2, <3>3
  <2>3. UNCHANGED <<storage, status, snapshot, generation, scan, compare, report, stable, passed,
                    unheard>>
    BY <1>7 DEF Observe, sessionVars
  <2> HIDE DEF s
  <2>4. chunk \in Chunks
    BY <2>1, <2>2 DEF SnapTypes
  <2>5. chunk.key \in Keys /\ found \subseteq Files
    BY <2>2, <2>4 DEF Chunks, SnapTypes
  <2>6. last_seen' \in [Files -> 0 .. MaxSessions]
    BY <1>s, <2>1, <2>2 DEF SnapTypes, LastSeenAfter
  <2>7. SnapTypes'
    BY <2>1, <2>2, <2>3, <2>5, <2>6 DEF SnapTypes
  <2>8. Numbered'
    BY <2>1, <2>2, <2>3 DEF Numbered, Created, SnapTypes
  <2>9. Running' /\ Committing'
    BY <2>3 DEF Running, Committing
  <2> QED BY <2>7, <2>8, <2>9
<1>8. ASSUME RequestPause PROVE Numbering'
  <2>s. spent' \in [Bounded -> Nat]
    BY <1>8, <1>b DEF RequestPause, Spend
  <2>1. SnapTypes'
    BY <1>8, <2>s DEF SnapTypes, RequestPause, sessionVars, queueVars, history
  <2>2. Numbered' /\ Running' /\ Committing'
    BY <1>8 DEF Numbered, Created, Running, Committing, RequestPause, sessionVars, queueVars,
                history, SnapTypes
  <2> QED BY <2>1, <2>2
<1>9. ASSUME PauseScan PROVE Numbering'
  <2> DEFINE s == scan.session
  <2>1. s \in Sessions /\ status[s] = "running"
    BY <1>9 DEF PauseScan, Running
  <2>2. /\ status' = [status EXCEPT ![s] = "paused"]
        /\ scan' = NoScan
        /\ UNCHANGED <<storage, snapshot, generation, erred, pending, done, last_seen, compare,
                       report, seen, stable, alone, passed, unheard, spent>>
    BY <1>9 DEF PauseScan, queueVars, history
  <2> HIDE DEF s
  <2>3. SnapTypes'
    BY <1>s, <2>1, <2>2 DEF SnapTypes, NoScan
  <2>4. Numbered'
    BY <2>1, <2>2 DEF Numbered, Created, SnapTypes
  <2>5. Running' /\ Committing'
    BY <2>1, <2>2 DEF Running, Committing, SnapTypes, NoScan
  <2> QED BY <2>3, <2>4, <2>5
<1>10. ASSUME CommitScan PROVE Numbering'
  <2> DEFINE s == scan.session
  <2>1. s \in Sessions /\ status[s] = "running"
    BY <1>10 DEF CommitScan, Running
  <2>2. /\ status' = [status EXCEPT ![s] = "completed"]
        /\ snapshot' = [snapshot EXCEPT ![s] = "committed"]
        /\ scan' = NoScan
        /\ UNCHANGED <<storage, generation, erred, pending, done, last_seen, compare, report,
                       seen, stable, alone, passed, unheard, spent>>
    BY <1>10 DEF CommitScan, queueVars, history
  <2> HIDE DEF s
  <2>3. SnapTypes'
    BY <1>s, <2>1, <2>2 DEF SnapTypes, NoScan
  <2>4. Numbered'
    BY <2>1, <2>2 DEF Numbered, Created, SnapTypes
  <2>5. Running' /\ Committing'
    BY <2>1, <2>2 DEF Running, Committing, SnapTypes, NoScan
  <2> QED BY <2>3, <2>4, <2>5
<1>11. CASE StartCompare \/ CompareBasis \/ CompareList \/ Crash
  <2>1. /\ UNCHANGED <<storage, status, snapshot, generation, erred, pending, done, last_seen,
                       seen, stable, alone, passed, unheard>>
        /\ scan' = scan \/ scan' = NoScan
    BY <1>11 DEF StartCompare, CompareBasis, CompareList, Crash, sessionVars, queueVars, history
  <2>2. spent' \in [Bounded -> Nat]
    BY <1>11 DEF StartCompare, CompareBasis, CompareList, Crash, Spend, SnapTypes
  <2>3. Latest \in 0 .. MaxSessions
    BY <1>s, LatestFound DEF LatestIsLast, Committed
  <2>4. /\ compare' \in [step : {"idle", "basis", "list"}, basis : 0 .. MaxSessions]
        /\ report' \in [basis : 0 .. MaxSessions, files : SUBSET Files]
    <3>1. CASE StartCompare
      BY <1>s, <3>1 DEF StartCompare, SnapTypes
    <3>2. CASE CompareBasis
      BY <2>3, <3>2 DEF CompareBasis, SnapTypes
    <3>3. CASE CompareList
      <4>1. Listing \in SUBSET Files /\ compare.basis \in 0 .. MaxSessions
        BY DEF Listing, SnapTypes
      <4> HIDE DEF Numbering
      <4> QED BY <1>s, <3>3, <4>1 DEF CompareList, NoCompare
    <3>4. CASE Crash
      BY <1>s, <3>4 DEF Crash, NoCompare, SnapTypes
    <3> QED BY <1>11, <3>1, <3>2, <3>3, <3>4
  <2>5. scan' \in [session : 0 .. MaxSessions, step : {"idle", "walk", "work", "pause"}]
    BY <1>s, <2>1 DEF NoScan, SnapTypes
  <2>6. SnapTypes'
    BY <2>1, <2>2, <2>4, <2>5 DEF SnapTypes
  <2>7. Numbered' /\ Running' /\ Committing'
    BY <2>1 DEF Numbered, Created, Running, Committing, NoScan
  <2> QED BY <2>6, <2>7
<1>12. CASE UNCHANGED snapVars
  <2>1. SnapTypes'
    BY <1>12 DEF snapVars, SnapTypes, sessionVars, queueVars, history
  <2>2. Numbered' /\ Running' /\ Committing'
    BY <1>12 DEF snapVars, Numbered, Created, Running, Committing, sessionVars, queueVars, history
  <2> QED BY <2>1, <2>2
<1> HIDE DEF Numbering
<1> QED BY <1>1, <1>2, <1>3, <1>4, <1>5, <1>6, <1>7, <1>8, <1>9, <1>10, <1>11, <1>12 DEF SnapNext

\* From the first state on.
LEMMA NumberingStart == SnapInit => Numbering
<1> SUFFICES ASSUME SnapInit PROVE Numbering
  OBVIOUS
<1>1. SnapTypes
  BY SizesAssumption DEF SnapInit, SnapTypes, NoScan, NoCompare
<1>2. Numbered /\ Running /\ Committing
  BY DEF SnapInit, Numbered, Created, Running, Committing, NoScan
<1> QED BY <1>1, <1>2 DEF Numbering

\* Every variable keeps its type, sessions are numbered as they are created, and
\* the latest snapshot is the last committed session: what _next_generation and
\* find_latest_committed_snapshot of the store are relied on for.
THEOREM SnapshotsOrdered == SnapSpec => [](Numbering /\ LatestIsLast)
<1>1. Numbering /\ [SnapNext]_snapVars => Numbering'
  BY NumberingStep
<1>2. Numbering => LatestIsLast
  BY LatestFound
<1> QED BY <1>1, <1>2, NumberingStart, PTL DEF SnapSpec

-----------------------------------------------------------------------------
(* What a session has queued.                                               *)

\* A row of the directory is queued, or was.
Keyed(s, d) ==
    \/ \E key \in done[s] : key[1] = d
    \/ \E p \in pending[s] : p.key[1] = d
Reached(s, f) == f \in seen[s] \/ \E p \in pending[s] : f \in p.files

\* An error of the session is counted, or will be when its row is observed.
Counted(s) == s \in erred \/ \E p \in pending[s] : p.errors = 1
Accounted(s, f) == Reached(s, f) \/ f \in passed[s] \cup unheard[s] \/ Counted(s)

\* Chunks cover the lasting files of every directory that has a row, but for those
\* that failed; at the end of the walk that is every lasting file.
Covering ==
    \A s \in Sessions :
        /\ stable[s] \subseteq storage
        /\ \A f \in stable[s] : Keyed(s, DirOf[f]) => Accounted(s, f)
WalkedAll == scan.step = "work" => \A f \in stable[scan.session] : Accounted(scan.session, f)

Covered == Covering /\ WalkedAll /\ MissedFilesCounted

\* Rows found by a walk keep their files; a directory without any is seeded with the
\* files now in it, or with an error.
LEMMA WalkCovers ==
  ASSUME Numbering, Covered, Walk
  PROVE  Covered'
<1> DEFINE s == scan.session
<1>1. s \in Sessions /\ status[s] = "running" /\ scan.step = "walk"
  BY DEF Walk, Numbering, Running
<1>2. PICK failing, visited, unreadable :
        /\ visited \subseteq Dirs /\ unreadable \subseteq visited
        /\ pending' = [pending EXCEPT ![s] =
              @ \cup Seeded(s, UNION {ItemsOf(d, unreadable, failing) : d \in visited})]
        /\ scan' = [scan EXCEPT !.step = AfterWalk(visited, Reachable(unreadable, failing))]
        /\ passed' = [passed EXCEPT ![s] = @ \cup (stable[s] \cap PassedOver(failing))]
        /\ unheard' = [unheard EXCEPT ![s] = @ \cup (stable[s] \cap Unheard(s, unreadable))]
  BY ZenonT(30) DEF Walk
<1>3. UNCHANGED <<storage, status, erred, done, seen, stable>>
  BY DEF Walk, sessionVars
<1> DEFINE items == UNION {ItemsOf(d, unreadable, failing) : d \in visited}
           rows == Seeded(s, items)
<1>4. /\ pending' = [pending EXCEPT ![s] = @ \cup rows]
      /\ pending \in [Sessions -> SUBSET Chunks] /\ storage \subseteq Files
      /\ stable \in [Sessions -> SUBSET Files]
      /\ passed \in [Sessions -> SUBSET Files] /\ unheard \in [Sessions -> SUBSET Files]
      /\ scan \in [session : 0 .. MaxSessions, step : {"idle", "walk", "work", "pause"}]
  BY <1>2 DEF Numbering, SnapTypes
<1>5. /\ rows \subseteq items
      /\ \A i \in items : i \in rows \/ i.key \in Queued(s)
  BY DEF Seeded
<1>6. /\ \A t \in Sessions : pending[t] \subseteq pending'[t]
      /\ \A t \in Sessions : t # s => pending'[t] = pending[t]
      /\ pending'[s] = pending[s] \cup rows
  <2> HIDE DEF rows, s
  <2> QED BY <1>1, <1>4
<1>7. /\ \A t \in Sessions : passed[t] \subseteq passed'[t] /\ unheard[t] \subseteq unheard'[t]
      /\ stable[s] \cap PassedOver(failing) \subseteq passed'[s]
      /\ stable[s] \cap Unheard(s, unreadable) \subseteq unheard'[s]
  BY <1>1, <1>2, <1>4
<1>8. ASSUME NEW t \in Sessions, NEW f, Accounted(t, f) PROVE Accounted(t, f)'
  BY <1>3, <1>6, <1>7, <1>8 DEF Accounted, Reached, Counted
<1>u. PICK u \in Sessions : u = s
  BY <1>1
<1>9. ASSUME NEW f \in stable[u], DirOf[f] \in visited PROVE Accounted(u, f)'
  <2> DEFINE d == DirOf[f]
  <2>1. CASE Keyed(u, d)
    BY <1>8, <2>1 DEF Covered, Covering
  <2>2. CASE ~Keyed(u, d)
    <3>1. /\ d \in Dirs /\ f \in storage
          /\ ItemsOf(d, unreadable, failing) \subseteq items
      BY <1>1, <1>2, <1>9 DEF Covered, Covering
    <3>2. /\ ItemsOf(d, unreadable, failing) # {}
          /\ \A i \in ItemsOf(d, unreadable, failing) : i.key[1] = d
          /\ d \in unreadable => \A i \in ItemsOf(d, unreadable, failing) : i.errors = 1
          /\ d \notin unreadable /\ f \notin failing =>
                \E i \in ItemsOf(d, unreadable, failing) : f \in i.files
      BY <1>4, <3>1, ItemsCover
    <3>3. \A i \in ItemsOf(d, unreadable, failing) : i.key \notin Queued(u)
      BY <2>2, <3>2 DEF Keyed, Queued
    <3>4. ItemsOf(d, unreadable, failing) \subseteq pending'[u]
      <4> HIDE DEF items, rows, s, d
      <4> QED BY <1>u, <1>5, <1>6, <3>1, <3>3
    <3> HIDE DEF items, rows, s, d
    <3>5. CASE d \in unreadable
      BY <3>2, <3>4, <3>5 DEF Accounted, Counted
    <3>6. CASE f \in failing
      <4>1. f \in PassedOver(failing)
        BY <1>1, <1>4, <1>9, <3>6 DEF PassedOver
      <4> QED BY <1>u, <1>7, <1>9, <4>1 DEF Accounted
    <3>7. CASE d \notin unreadable /\ f \notin failing
      BY <3>2, <3>4, <3>7 DEF Accounted, Reached
    <3> QED BY <3>5, <3>6, <3>7
  <2> QED BY <2>1, <2>2
<1>10. ASSUME NEW t \in Sessions, NEW f \in stable[t], Keyed(t, DirOf[f])'
       PROVE  Accounted(t, f)'
  <2>1. CASE Keyed(t, DirOf[f])
    BY <1>8, <2>1 DEF Covered, Covering
  <2>2. CASE ~Keyed(t, DirOf[f])
    <3>1. PICK p \in pending'[t] : p.key[1] = DirOf[f] /\ p \notin pending[t]
      BY <1>3, <1>10, <2>2 DEF Keyed
    <3>2. t = s /\ p \in items
      <4> HIDE DEF items, rows, s
      <4> QED BY <1>u, <1>5, <1>6, <3>1
    <3>3. PICK d \in visited : p \in ItemsOf(d, unreadable, failing)
      BY <3>2
    <3>4. d = DirOf[f]
      BY <1>2, <1>4, <3>1, <3>3, ItemsCover
    <3> HIDE DEF items, rows, s
    <3> QED BY <1>u, <1>9, <3>2, <3>3, <3>4
  <2> QED BY <2>1, <2>2
<1>11. WalkedAll'
  <2> SUFFICES ASSUME scan'.step = "work", NEW f \in stable[u] PROVE Accounted(u, f)'
    <3>1. scan'.session = s
      BY <1>1, <1>2, <1>4
    <3> QED BY <1>3, <1>u, <3>1 DEF WalkedAll, Accounted, Reached, Counted
  <2> DEFINE d == DirOf[f]
  <2>1. visited = Reachable(unreadable, failing)
    BY <1>2, <1>4 DEF AfterWalk
  <2>2. f \in Files /\ d \in Dirs
    BY <1>1, <1>4, DirsAssumption
  <2> HIDE DEF items, rows, s
  <2>3. CASE (Above[d] \cup {d}) \cap failing # {}
    <3>1. f \in PassedOver(failing)
      BY <2>2, <2>3 DEF PassedOver
    <3> QED BY <1>u, <1>7, <3>1 DEF Accounted
  <2>4. CASE (Above[d] \cup {d}) \cap failing = {} /\ Above[d] \cap unreadable = {}
    <3>1. d \in visited
      BY <2>1, <2>2, <2>4 DEF Reachable
    <3> QED BY <1>9, <3>1
  <2>5. CASE Above[d] \cap unreadable # {}
    <3>1. PICK a \in Above[d] \cap unreadable : TRUE
      BY <2>5
    <3>2. CASE <<a, 0>> \in Queued(u)
      <4>1. f \in Unheard(u, unreadable)
        BY <2>2, <3>1, <3>2 DEF Unheard
      <4> QED BY <1>u, <1>7, <4>1 DEF Accounted
    <3>3. CASE <<a, 0>> \notin Queued(u)
      <4>1. PICK i \in ItemsOf(a, unreadable, failing) : i.key = <<a, 0>> /\ i.errors = 1
        BY <1>2, <1>4, <3>1, ItemsCover
      <4>2. i \in items
        BY <1>2, <3>1, <4>1 DEF items
      <4>3. i \in pending'[u]
        BY <1>u, <1>5, <1>6, <3>3, <4>1, <4>2
      <4> QED BY <4>1, <4>3 DEF Accounted, Counted
    <3> QED BY <3>2, <3>3
  <2> QED BY <2>3, <2>4, <2>5
<1>12. Covering'
  BY <1>3, <1>10 DEF Covered, Covering
<1>13. MissedFilesCounted'
  BY <1>3, <1>7 DEF Covered, MissedFilesCounted, Missed
<1> QED BY <1>11, <1>12, <1>13 DEF Covered

\* An observed chunk leaves the queue with its files on disk seen, or its errors
\* counted, and its row done.
LEMMA ObserveCovers ==
  ASSUME Numbering, Covered, Observe
  PROVE  Covered'
<1> DEFINE s == scan.session
<1>1. s \in Sessions /\ status[s] = "running" /\ scan.step = "work"
  BY DEF Observe, Numbering, Running
<1>2. PICK chunk, unread :
        /\ chunk \in pending[s]
        /\ pending' = [pending EXCEPT ![s] = @ \ {chunk}]
        /\ done' = [done EXCEPT ![s] = @ \cup {chunk.key}]
        /\ erred' = ErredAfter(s, unread, chunk)
        /\ seen' = [seen EXCEPT ![s] = @ \cup ((chunk.files \cap storage) \ unread)]
  BY DEF Observe
<1>3. UNCHANGED <<storage, status, scan, stable, passed, unheard>>
  BY DEF Observe, sessionVars
<1>4. /\ pending \in [Sessions -> SUBSET Chunks] /\ done \in [Sessions -> SUBSET Keys]
      /\ seen \in [Sessions -> SUBSET Files]
  BY DEF Numbering, SnapTypes
<1> HIDE DEF s
<1>5. /\ \A t \in Sessions : t # s => pending'[t] = pending[t] /\ done'[t] = done[t]
      /\ \A t \in Sessions : seen[t] \subseteq seen'[t]
      /\ pending'[s] = pending[s] \ {chunk} /\ done'[s] = done[s] \cup {chunk.key}
      /\ (chunk.files \cap storage) \ unread \subseteq seen'[s]
  BY <1>1, <1>2, <1>4
<1>6. /\ erred \subseteq erred'
      /\ unread # {} \/ chunk.errors # 0 => s \in erred'
  BY <1>2 DEF ErredAfter
<1>7. ASSUME NEW t \in Sessions, NEW d PROVE Keyed(t, d)' <=> Keyed(t, d)
  BY <1>1, <1>2, <1>5 DEF Keyed
<1>8. ASSUME NEW t \in Sessions, NEW f \in storage, Accounted(t, f) PROVE Accounted(t, f)'
  <2>1. CASE f \in passed[t] \cup unheard[t]
    BY <1>3, <2>1 DEF Accounted
  <2>2. CASE Counted(t)
    BY <1>5, <1>6, <2>2 DEF Accounted, Counted
  <2>3. CASE Reached(t, f)
    <3>1. CASE f \in unread
      BY <1>5, <1>6, <2>3, <3>1 DEF Accounted, Counted, Reached
    <3>2. CASE f \notin unread
      BY <1>5, <2>3, <3>2 DEF Accounted, Reached
    <3> QED BY <3>1, <3>2
  <2> QED BY <1>8, <2>1, <2>2, <2>3 DEF Accounted
<1>9. ASSUME NEW t \in Sessions, NEW f \in stable[t] PROVE f \in storage
  BY DEF Covered, Covering
<1>10. WalkedAll'
  <2> SUFFICES ASSUME NEW f \in stable[s], NEW u \in Sessions, u = s PROVE Accounted(u, f)'
    BY <1>1, <1>3 DEF WalkedAll, s
  <2>1. Accounted(u, f)
    BY <1>1 DEF Covered, WalkedAll, s
  <2> QED BY <1>1, <1>8, <1>9, <2>1
<1>11. Covering'
  BY <1>3, <1>7, <1>8, <1>9 DEF Covered, Covering
<1>12. MissedFilesCounted'
  BY <1>3, <1>5, <1>6 DEF Covered, MissedFilesCounted, Missed
<1> QED BY <1>10, <1>11, <1>12 DEF Covered

\* A session completes with an empty queue, in which nothing is left to reach and no
\* error left to count.
LEMMA CommitCovers ==
  ASSUME Numbering, Covered, CommitScan
  PROVE  Covered'
<1> DEFINE s == scan.session
<1>1. /\ s \in Sessions /\ scan.step = "work" /\ pending[s] = {}
      /\ status' = [status EXCEPT ![s] = "completed"]
      /\ UNCHANGED <<storage, erred, pending, done, seen, stable, passed, unheard>>
      /\ scan'.step = "idle"
  BY DEF CommitScan, Numbering, Running, queueVars, history, NoScan
<1>2. s \in erred \/ stable[s] \ seen[s] \subseteq passed[s] \cup unheard[s]
  <2> SUFFICES ASSUME NEW f \in stable[s]
               PROVE  f \in seen[s] \/ f \in passed[s] \cup unheard[s] \/ s \in erred
    OBVIOUS
  <2>1. Accounted(s, f)
    BY <1>1 DEF Covered, WalkedAll
  <2> QED BY <1>1, <2>1 DEF Accounted, Reached, Counted
<1> HIDE DEF s
<1>3. MissedFilesCounted'
  BY <1>1, <1>2 DEF Covered, MissedFilesCounted, Missed, Numbering, SnapTypes
<1>4. Covering' /\ WalkedAll'
  BY <1>1 DEF Covered, Covering, WalkedAll, Keyed, Accounted, Reached, Counted
<1> QED BY <1>3, <1>4 DEF Covered

\* A new session has no row; the others keep what they have.
LEMMA StartCovers ==
  ASSUME Numbering, Covered, StartScan
  PROVE  Covered'
<1>1. PICK s \in Sessions :
        /\ s = Greatest({t \in Sessions : status[t] # "none"}) + 1
        /\ status' = [status EXCEPT ![s] = "running"]
        /\ scan' = [session |-> s, step |-> "walk"]
        /\ stable' = [stable EXCEPT ![s] = storage]
  BY DEF StartScan
<1>2. UNCHANGED <<storage, erred, pending, done, seen, passed, unheard>>
  BY DEF StartScan, queueVars
<1>3. ~Created(s)
  BY <1>1, NextNumber
<1>4. pending[s] = {} /\ done[s] = {}
  BY <1>3 DEF Numbering, Numbered
<1>5. MissedFilesCounted'
  BY <1>1, <1>2 DEF Covered, MissedFilesCounted, Missed, Numbering, SnapTypes
<1>6. WalkedAll'
  BY <1>1 DEF WalkedAll
<1>7. Covering'
  <2> SUFFICES ASSUME NEW t \in Sessions PROVE
          /\ stable'[t] \subseteq storage
          /\ \A f \in stable'[t] : Keyed(t, DirOf[f]) => Accounted(t, f)
    BY <1>2 DEF Covering, Keyed, Accounted, Reached, Counted
  <2>1. CASE t = s
    BY <1>1, <1>4, <2>1 DEF Keyed, Numbering, SnapTypes
  <2>2. CASE t # s
    BY <1>1, <2>2 DEF Covered, Covering, Numbering, SnapTypes
  <2> QED BY <2>1, <2>2
<1> QED BY <1>5, <1>6, <1>7 DEF Covered

LEMMA CoveredStep ==
  ASSUME Numbering, Covered, [SnapNext]_snapVars
  PROVE  Covered'
<1>1. ASSUME NEW f \in Files, AddFile(f) PROVE Covered'
  BY <1>1 DEF AddFile, Covered, Covering, WalkedAll, MissedFilesCounted, Missed, Keyed, Accounted,
              Reached, Counted, sessionVars, queueVars, history
<1>2. ASSUME NEW f \in Files, RemoveFile(f) PROVE Covered'
  <2>1. /\ UNCHANGED <<status, erred, pending, done, scan, seen, passed, unheard>>
        /\ storage' = storage \ {f} /\ stable' = [s \in Sessions |-> stable[s] \ {f}]
        /\ stable \in [Sessions -> SUBSET Files]
    BY <1>2 DEF RemoveFile, sessionVars, queueVars, Numbering, SnapTypes
  <2>2. \A s \in Sessions : stable'[s] = stable[s] \ {f}
    BY <2>1
  <2>3. Covering'
    BY <2>1, <2>2 DEF Covered, Covering, Keyed, Accounted, Reached, Counted
  <2>4. WalkedAll'
    <3>1. scan.step = "work" => scan.session \in Sessions
      BY DEF Numbering, Running
    <3> QED BY <2>1, <2>2, <3>1 DEF Covered, WalkedAll, Accounted, Reached, Counted
  <2>5. MissedFilesCounted'
    BY <2>1, <2>2 DEF Covered, MissedFilesCounted, Missed
  <2> QED BY <2>3, <2>4, <2>5 DEF Covered
<1>3. ASSUME Reopen \/ FailScan \/ PauseScan PROVE Covered'
  <2>1. /\ UNCHANGED <<storage, erred, pending, done, seen, stable, passed, unheard>>
        /\ scan'.step # "work"
    BY <1>3 DEF Reopen, FailScan, PauseScan, NoScan, queueVars, history
  <2>2. \A s \in Sessions : status'[s] = "completed" => status[s] = "completed"
    BY <1>3 DEF Reopen, FailScan, PauseScan, Numbering, SnapTypes
  <2> QED BY <2>1, <2>2 DEF Covered, Covering, WalkedAll, MissedFilesCounted, Missed, Keyed,
                            Accounted, Reached, Counted
<1>4. ASSUME RequestPause \/ StartCompare \/ CompareBasis \/ CompareList \/ Crash PROVE Covered'
  <2>1. /\ UNCHANGED <<storage, status, erred, pending, done, seen, stable, passed, unheard>>
        /\ scan'.step = "work" => scan' = scan
    BY <1>4 DEF RequestPause, StartCompare, CompareBasis, CompareList, Crash, NoScan,
                Numbering, SnapTypes, sessionVars, queueVars, history
  <2> QED BY <2>1 DEF Covered, Covering, WalkedAll, MissedFilesCounted, Missed, Keyed, Accounted,
                      Reached, Counted
<1>5. CASE UNCHANGED snapVars
  BY <1>5 DEF snapVars, Covered, Covering, WalkedAll, MissedFilesCounted, Missed, Keyed, Accounted,
              Reached, Counted, sessionVars, queueVars, history
<1> QED BY <1>1, <1>2, <1>3, <1>4, <1>5, WalkCovers, ObserveCovers, CommitCovers, StartCovers
        DEF SnapNext

\* A scan that is committed without an error has observed every file that was there
\* from its creation to its commit, whatever pauses, broken-off walks and crashes came
\* between, but for those whose entry or directory failed without being counted
\* (_prepare_directory_queue, seed_directory_work_queue, _observe_file_batch,
\* apply_directory_files, commit_scan_session).
THEOREM MissedFilesAreCounted == SnapSpec => []MissedFilesCounted
<1>1. SnapInit => Covered
  BY DEF SnapInit, Covered, Covering, WalkedAll, MissedFilesCounted, Missed, NoScan
<1>2. Numbering /\ Covered /\ [SnapNext]_snapVars => Covered'
  BY CoveredStep
<1>3. Covered => MissedFilesCounted
  BY DEF Covered
<1> QED BY <1>1, <1>2, <1>3, SnapshotsOrdered, PTL DEF SnapSpec

-----------------------------------------------------------------------------
(* What the file records say.                                               *)

\* A record names a session that observed the file, and the last one to do so
\* when no other session has observed anything since it was created.
Listed ==
    \A s \in Sessions : \A f \in Files :
        /\ last_seen[f] = s => f \in seen[s]
        /\ s \in alone /\ f \in seen[s] => last_seen[f] = s

\* Only an observation writes file records; a new session has observed nothing.
LEMMA ListedStep ==
  ASSUME Numbering, Listed, [SnapNext]_snapVars
  PROVE  Listed'
<1>1. CASE UNCHANGED <<last_seen, seen, alone>>
  BY <1>1 DEF Listed
<1>2. CASE StartScan
  <2>1. PICK s \in Sessions :
          /\ s = Greatest({t \in Sessions : status[t] # "none"}) + 1
          /\ alone' = alone \cup {s}
    BY <1>2 DEF StartScan
  <2>2. UNCHANGED <<last_seen, seen>>
    BY <1>2 DEF StartScan
  <2>3. seen[s] = {}
    BY <2>1, NextNumber DEF Numbering, Numbered
  <2> QED BY <2>1, <2>2, <2>3 DEF Listed
<1>3. CASE Observe
  <2> DEFINE s == scan.session
  <2>1. s \in Sessions
    BY <1>3 DEF Observe, Numbering, Running
  <2>2. PICK found :
          /\ last_seen' = LastSeenAfter(s, found)
          /\ seen' = [seen EXCEPT ![s] = @ \cup found]
          /\ alone' = IF found = {} THEN alone ELSE alone \cap {s}
    BY <1>3 DEF Observe
  <2>3. /\ \A f \in Files : last_seen'[f] = IF f \in found THEN s ELSE last_seen[f]
        /\ \A t \in Sessions : seen'[t] = IF t = s THEN seen[t] \cup found ELSE seen[t]
        /\ alone' = IF found = {} THEN alone ELSE alone \cap {s}
    BY <2>1, <2>2 DEF LastSeenAfter, Numbering, SnapTypes
  <2> HIDE DEF s
  <2> SUFFICES ASSUME NEW t \in Sessions, NEW f \in Files
               PROVE  /\ last_seen'[f] = t => f \in seen'[t]
                      /\ t \in alone' /\ f \in seen'[t] => last_seen'[f] = t
    BY DEF Listed
  <2>4. CASE f \in found
    <3>1. last_seen'[f] = s /\ f \in seen'[s] /\ alone' = alone \cap {s}
      BY <2>1, <2>3, <2>4
    <3> QED BY <3>1
  <2>5. CASE f \notin found
    <3>1. /\ last_seen'[f] = last_seen[f] /\ (f \in seen'[t] <=> f \in seen[t])
          /\ t \in alone' => t \in alone
      BY <2>3, <2>5
    <3> QED BY <3>1 DEF Listed
  <2> QED BY <2>4, <2>5
<1> QED BY <1>1, <1>2, <1>3
        DEF SnapNext, snapVars, history, AddFile, RemoveFile, Reopen, FailScan, Walk, RequestPause,
            PauseScan, CommitScan, StartCompare, CompareBasis, CompareList, Crash

LEMMA AlwaysListed == SnapSpec => []Listed
<1>1. SnapInit => Listed
  BY DEF SnapInit, Listed, Sessions
<1>2. Numbering /\ Listed /\ [SnapNext]_snapVars => Listed'
  BY ListedStep
<1> QED BY <1>1, <1>2, SnapshotsOrdered, PTL DEF SnapSpec

\* The listing of the latest snapshot names only what its session observed, and all
\* of it while no other session observed anything.
Listings ==
    Latest # 0 =>
        /\ Listing \subseteq seen[Latest]
        /\ Latest \in alone => Listing = seen[Latest]

LEMMA ListingsTrue ==
  ASSUME Numbering, LatestIsLast, Listed
  PROVE  Listings
<1> SUFFICES ASSUME Latest # 0 PROVE Listings
  BY DEF Listings
<1>1. Latest \in Sessions
  BY DEF LatestIsLast, Committed
<1>2. seen[Latest] \subseteq Files
  BY <1>1 DEF Numbering, SnapTypes
<1> QED BY <1>1, <1>2 DEF Listings, Listing, Listed

\* Readers list exactly what the latest committed scan observed, as long as no other
\* scan has observed files since that scan was created (list_latest_snapshot_files
\* against apply_directory_files of another session).
THEOREM ListingsAreScans == SnapSpec => []ListingIsScan
<1>1. Numbering /\ LatestIsLast /\ Listed => ListingIsScan
  <2> SUFFICES ASSUME Numbering, LatestIsLast, Listed, Latest \in alone
               PROVE  Listing = seen[Latest]
    BY DEF ListingIsScan
  <2>1. Latest # 0
    BY DEF Numbering, SnapTypes, Sessions
  <2> QED BY <2>1, ListingsTrue DEF Listings
<1> QED BY <1>1, SnapshotsOrdered, AlwaysListed, PTL

-----------------------------------------------------------------------------
(* What a report says.                                                      *)

\* Snapshots stay committed, and what a committed session observed is settled.
Settled ==
    /\ Committed \subseteq Committed'
    /\ \A s \in Committed : seen'[s] = seen[s] /\ (s \in alone' => s \in alone)

LEMMA CommittedSettled ==
  ASSUME Numbering, [SnapNext]_snapVars
  PROVE  Settled
<1>1. CASE UNCHANGED <<snapshot, seen, alone>>
  BY <1>1 DEF Settled, Committed
<1>2. CASE StartScan
  <2>1. PICK s \in Sessions :
          /\ s = Greatest({t \in Sessions : status[t] # "none"}) + 1
          /\ snapshot' = [snapshot EXCEPT ![s] = "running"]
          /\ alone' = alone \cup {s}
    BY <1>2 DEF StartScan
  <2>2. UNCHANGED seen /\ snapshot[s] # "committed"
    BY <1>2, <2>1, NextNumber DEF StartScan, Numbering, Numbered
  <2> QED BY <2>1, <2>2 DEF Settled, Committed, Numbering, SnapTypes
<1>3. CASE Observe
  <2>1. /\ scan.session \in Sessions /\ snapshot[scan.session] # "committed"
        /\ UNCHANGED snapshot
    BY <1>3 DEF Observe, Numbering, Running, Committing, sessionVars
  <2>2. PICK found : /\ seen' = [seen EXCEPT ![scan.session] = @ \cup found]
                     /\ alone' = IF found = {} THEN alone ELSE alone \cap {scan.session}
    BY <1>3 DEF Observe
  <2> QED BY <2>1, <2>2 DEF Settled, Committed, Numbering, SnapTypes
<1>4. CASE FailScan \/ CommitScan
  <2>1. /\ scan.session \in Sessions /\ snapshot[scan.session] # "committed"
        /\ UNCHANGED <<seen, alone>>
    BY <1>4 DEF FailScan, CommitScan, Numbering, Running, Committing, history
  <2>2. \A s \in Committed : snapshot'[s] = "committed"
    BY <1>4, <2>1 DEF FailScan, CommitScan, Committed, Numbering, SnapTypes
  <2> QED BY <2>1, <2>2 DEF Settled, Committed
<1> QED BY <1>1, <1>2, <1>3, <1>4
        DEF SnapNext, snapVars, history, sessionVars, AddFile, RemoveFile, Reopen, Walk, RequestPause,
            PauseScan, StartCompare, CompareBasis, CompareList, Crash

\* A snapshot a comparison or a report is based on is committed.
Reported ==
    /\ compare.basis \in Committed \cup {0}
    /\ report.basis \in Committed \cup {0}
    /\ ReportSound

\* The latest snapshot is replaced by later ones only: what was not the latest
\* while it was committed does not become it.
LEMMA ReportedStep ==
  ASSUME Numbering, LatestIsLast, LatestIsLast', Listings, Reported, Settled, [SnapNext]_snapVars
  PROVE  Reported'
<1>1. \A s \in Committed : s \in Sessions /\ s \in Nat /\ s # 0
  BY DEF Committed, Sessions
<1>2. \A s \in Committed' : s \in Nat
  BY DEF Committed, Sessions
<1>3. ASSUME NEW s \in Committed, s = Latest' PROVE s = Latest
  BY <1>1, <1>2, <1>3 DEF LatestIsLast, Settled
<1>4. Latest \in Committed \cup {0}
  BY DEF LatestIsLast
<1>5. compare'.basis \in Committed' \cup {0}
  <2>1. compare'.basis \in {compare.basis, 0, Latest}
    BY DEF SnapNext, snapVars, AddFile, RemoveFile, StartScan, Reopen, FailScan, Walk, Observe,
           RequestPause, PauseScan, CommitScan, StartCompare, CompareBasis, CompareList,
           Crash, NoCompare
  <2> QED BY <1>4, <2>1 DEF Reported, Settled
<1>6. CASE report' = report
  <2>1. report'.basis \in Committed' \cup {0}
    BY <1>6 DEF Reported, Settled
  <2>2. ASSUME Current'
        PROVE  /\ report'.files \subseteq seen'[Latest']
               /\ Latest' \in alone' => report'.files = seen'[Latest']
    <3>1. report.basis \in Committed /\ report.basis = Latest'
      BY <1>6, <2>2 DEF Current, Reported
    <3>2. Latest' = Latest
      BY <1>3, <3>1
    <3>3. Current
      BY <1>1, <3>1, <3>2 DEF Current
    <3>4. /\ report.files \subseteq seen[Latest]
          /\ Latest \in alone => report.files = seen[Latest]
      BY <3>3 DEF Reported, ReportSound
    <3>5. seen'[Latest] = seen[Latest] /\ (Latest \in alone' => Latest \in alone)
      BY <3>1, <3>2 DEF Settled
    <3> QED BY <1>6, <3>2, <3>4, <3>5
  <2>3. ReportSound'
    BY <2>2 DEF ReportSound
  <2> QED BY <1>5, <2>1, <2>3 DEF Reported
<1>7. CASE CompareList
  <2>1. /\ report' = [basis |-> compare.basis, files |-> Listing]
        /\ UNCHANGED <<seen, alone, snapshot, generation>>
    BY <1>7 DEF CompareList, sessionVars, history
  <2>2. Latest' = Latest /\ Committed' = Committed
    BY <2>1 DEF Latest, Committed
  <2>3. ReportSound'
    BY <2>1, <2>2 DEF ReportSound, Current, Listings
  <2> QED BY <1>5, <2>1, <2>2, <2>3 DEF Reported
<1> QED BY <1>6, <1>7
        DEF SnapNext, snapVars, AddFile, RemoveFile, StartScan, Reopen, FailScan, Walk, Observe,
            RequestPause, PauseScan, CommitScan, StartCompare, CompareBasis, Crash

\* A report shown as current names no file the latest committed scan did not observe,
\* and all of them while no other scan has observed any, although the comparison reads
\* its basis and its files in two transactions (prepare_snapshot_state,
\* _consistency_report_is_current).
THEOREM ReportsSound == SnapSpec => []ReportSound
<1>1. SnapInit => Reported
  BY DEF SnapInit, Reported, ReportSound, Current, NoCompare
<1>2. Numbering /\ LatestIsLast /\ Listed => Listings
  BY ListingsTrue
<1>3. Numbering /\ [SnapNext]_snapVars => Settled
  BY CommittedSettled
<1>4. /\ Numbering /\ LatestIsLast /\ LatestIsLast' /\ Listings
      /\ Reported /\ Settled /\ [SnapNext]_snapVars
      => Reported'
  BY ReportedStep
<1>5. Reported => ReportSound
  BY DEF Reported
<1> QED BY <1>1, <1>2, <1>3, <1>4, <1>5, SnapshotsOrdered, AlwaysListed, PTL DEF SnapSpec
=============================================================================
