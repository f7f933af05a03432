-------------------------- MODULE AssetBackup_proofs --------------------------
(***************************************************************************)
(* Proofs about AssetBackup for any number of assets, threads and calls: a *)
(* restore loses no version Immich did not discard, a sync that reports    *)
(* "completed" has covered what it compared, and the mirror only grows.    *)
(*                                                                         *)
(* The argument goes by who may write which file.  A restore of an asset   *)
(* writes the asset, its temporary file and its quarantine; the mirror is  *)
(* written by the sync job alone, and only where it has no file.  Before a *)
(* mirror copy of an asset exists, no restore of it has begun, so a        *)
(* version that has left the library then is nowhere and does not return.  *)
(***************************************************************************)
EXTENDS AssetBackup, SequenceTheorems, TLAPS

RestoreSteps ==
    {"idle", "next", "verify", "move", "moving", "unlink", "copy", "copying", "replace",
     "cleanup", "rollback", "move_back", "moving_back", "unlink_back"}
Copying == {"moving", "copying", "moving_back"}

\* What a restore of a may write.
PathsOf(a) ==
    {Library(a), Library(Tmp(a))} \cup {Quarantine(a, s) : s \in 0 .. MaxTime}

\* TypeOK, which steps and names are whose, and that versions are numbered in the
\* order of Immich's writes.
Types ==
    /\ TypeOK
    /\ pc[Sync] \in {"idle", "next", "close", "verify"}
    /\ \A c \in Callers : pc[c] \in RestoreSteps /\ asset[c] \in Assets \cup {None}
    /\ pc[Sync] = "idle" => plan = {}

\* No content, and no copy in progress, is of a version that Immich has still to write.
Known(content) == content # None => content.version < spent["writes"] + 2
Numbered ==
    /\ \A p \in Paths : Known(file[p])
    /\ \A c \in Actors : pc[c] \in Copying \cup {"close"} => Known(copied[c])
    /\ \A n \in Names : Known(reviewed[n])

\* A copy in progress is the actor's own, and has read something.
Writers ==
    /\ \A c \in Callers :
          /\ open[c] # None => pc[c] \in Copying /\ open[c] \in PathsOf(asset[c])
          /\ pc[c] \in Copying => copied[c] # None
    /\ IF pc[Sync] = "close"
       THEN open[Sync] = Backup(asset[Sync]) /\ copied[Sync] # None
       ELSE open[Sync] = None

\* What the sync job is to copy has no copy, and what it is copying is not whole.
MirrorAt ==
    /\ \A n \in plan : file[Backup(n)] = None
    /\ pc[Sync] = "close" =>
          /\ asset[Sync] \notin plan
          /\ file[Backup(asset[Sync])] # None
          /\ ~file[Backup(asset[Sync])].whole

\* Without a copy in the mirror, no restore of the asset has begun.
Untouched(a) ==
    /\ \A c \in Callers : asset[c] # a /\ a \notin eligible[c]
    /\ file[Library(Tmp(a))] = None
    /\ \A s \in 0 .. MaxTime : file[Quarantine(a, s)] = None
Pristine == \A a \in Assets : file[Backup(a)] = None => Untouched(a)

\* The version of a that the sync job saw is nowhere and will not return.
Other(a, content) == content # None => content.version # reviewed[a].version
Gone(a) ==
    /\ \A p \in PathsOf(a) \cup {Backup(a)} : Other(a, file[p])
    /\ \A c \in Actors :
          asset[c] = a /\ pc[c] \in Copying \cup {"close"} => Other(a, copied[c])

\* What an asset the sync job saw has come to: copied, gone, to be copied or being
\* copied as it was seen.
CoveredOr(a) ==
    \/ file[Backup(a)] = reviewed[a] /\ ~(pc[Sync] = "close" /\ asset[Sync] = a)
    \/ Gone(a)
    \/ a \in plan /\ file[Library(a)] = reviewed[a]
    \/ pc[Sync] = "close" /\ asset[Sync] = a /\ copied[Sync] = reviewed[a]

\* As long as the sync job met no trouble.
Covers ==
    report = "completed" \/ (pc[Sync] # "idle" /\ ~trouble)
        => \A a \in Assets : reviewed[a] # None => CoveredOr(a)
ReportAt == report = "completed" => pc[Sync] = "idle"

\* One restore of an asset at a time, unless it is exposed.
Exclusive ==
    \A c, d \in Callers : c # d /\ asset[c] = asset[d] /\ asset[c] # None
                            => asset[c] \in exposed

\* Where the content of the library file of c's asset is, at each step of c.
AtStep(c) ==
    LET library == file[Library(asset[c])]
        quarantine == file[Quarantine(asset[c], stamp[c])] IN
    /\ pc[c] = "move" => library # None /\ quarantine = None
    /\ pc[c] = "moving" =>
          /\ open[c] = Quarantine(asset[c], stamp[c])
          /\ library = copied[c] /\ quarantine # None /\ ~quarantine.whole
    /\ pc[c] = "unlink" => library # None /\ quarantine = library
    /\ pc[c] \in {"copy", "copying", "replace", "move_back"} => library = None
    /\ pc[c] = "copying" => open[c] = Library(Tmp(asset[c]))
    /\ pc[c] = "moving_back" =>
          /\ open[c] = Library(asset[c])
          /\ quarantine = copied[c] /\ library # None /\ ~library.whole
    /\ pc[c] = "unlink_back" => library # None /\ quarantine = library
Restores ==
    \A c \in Callers : asset[c] # None /\ asset[c] \notin exposed => AtStep(c)

\* The inductive invariant.
Inv ==
    /\ Types /\ Numbered /\ Writers /\ MirrorAt
    /\ Pristine /\ Covers /\ ReportAt
    /\ Exclusive /\ Restores /\ NothingLost
-----------------------------------------------------------------------------
(* Paths.                                                                   *)

\* The directories and names keep the paths apart.
LEMMA PathFacts ==
    /\ \A a \in Assets : a \in Names /\ Tmp(a) \in Names
    /\ \A a, b \in Assets : Tmp(a) # b /\ (Tmp(a) = Tmp(b) => a = b)
    /\ \A n \in Names : Library(n) \in Paths /\ Backup(n) \in Paths
    /\ \A a \in Assets, s \in 0 .. MaxTime : Quarantine(a, s) \in Paths
    /\ \A m, n \in Names : /\ Library(m) = Library(n) => m = n
                           /\ Backup(m) = Backup(n) => m = n
                           /\ Library(m) # Backup(n)
    /\ \A a, b \in Assets, s, t \in 0 .. MaxTime :
          Quarantine(a, s) = Quarantine(b, t) => a = b /\ s = t
    /\ \A a \in Assets, s \in 0 .. MaxTime, n \in Names :
          Quarantine(a, s) # Library(n) /\ Quarantine(a, s) # Backup(n)
<1>1. \A a \in Assets : a \in Names /\ Tmp(a) \in Names
  BY DEF Names
<1>2. \A a, b \in Assets : Tmp(a) # b /\ (Tmp(a) = Tmp(b) => a = b)
  BY NamesAssumption DEF Tmp
<1>3. /\ \A n \in Names : Library(n) \in Paths /\ Backup(n) \in Paths
      /\ \A a \in Assets, s \in 0 .. MaxTime : Quarantine(a, s) \in Paths
  BY DEF Paths
<1>4. \A m, n \in Names : /\ Library(m) = Library(n) => m = n
                          /\ Backup(m) = Backup(n) => m = n
                          /\ Library(m) # Backup(n)
  BY DEF Library, Backup
<1>5. \A a, b \in Assets, s, t \in 0 .. MaxTime :
         Quarantine(a, s) = Quarantine(b, t) => a = b /\ s = t
  BY DEF Quarantine
<1>6. \A a \in Assets, s \in 0 .. MaxTime, n \in Names :
         Quarantine(a, s) # Library(n) /\ Quarantine(a, s) # Backup(n)
  BY DEF Quarantine, Library, Backup
<1> QED
  BY <1>1, <1>2, <1>3, <1>4, <1>5, <1>6

\* Restores of different assets write different files, and none in the mirror.
LEMMA Apart ==
    /\ \A a \in Assets : PathsOf(a) \subseteq Paths
    /\ \A a, b \in Assets : a # b => PathsOf(a) \cap PathsOf(b) = {}
    /\ \A a \in Assets, n \in Names : Backup(n) \notin PathsOf(a)
    /\ \A a \in Assets : Library(a) \in PathsOf(a) /\ Library(Tmp(a)) \in PathsOf(a)
    /\ \A a \in Assets, s \in 0 .. MaxTime : Quarantine(a, s) \in PathsOf(a)
<1> USE PathFacts DEF PathsOf
<1>1. /\ \A a \in Assets : PathsOf(a) \subseteq Paths
      /\ \A a \in Assets, n \in Names : Backup(n) \notin PathsOf(a)
      /\ \A a \in Assets : Library(a) \in PathsOf(a) /\ Library(Tmp(a)) \in PathsOf(a)
      /\ \A a \in Assets, s \in 0 .. MaxTime : Quarantine(a, s) \in PathsOf(a)
  OBVIOUS
<1>2. ASSUME NEW a \in Assets, NEW b \in Assets, a # b, NEW p \in PathsOf(a), p \in PathsOf(b)
      PROVE  FALSE
  <2>1. CASE p = Library(a)
    BY <1>2, <2>1
  <2>2. CASE p = Library(Tmp(a))
    BY <1>2, <2>2
  <2>3. CASE \E s \in 0 .. MaxTime : p = Quarantine(a, s)
    BY <1>2, <2>3
  <2> QED
    BY <1>2, <2>1, <2>2, <2>3
<1> QED
  BY <1>1, <1>2

-----------------------------------------------------------------------------
(* Types.                                                                   *)

\* TypeOK in three parts.
FileTypes ==
    /\ file \in [Paths -> Content \cup {None}]
    /\ open \in [Actors -> Paths \cup {None}]
    /\ copied \in [Actors -> Content \cup {None}]
ControlTypes ==
    /\ pc \in [Actors -> RestoreSteps \cup {"close"}]
    /\ asset \in [Actors -> Names \cup {None}]
    /\ \A c \in Actors : asset[c] = None <=> pc[c] \in {"idle", "next"}
    /\ pc[Sync] \in {"idle", "next", "close", "verify"}
    /\ \A c \in Callers : pc[c] \in RestoreSteps /\ asset[c] \in Assets \cup {None}
    /\ pc[Sync] = "idle" => plan = {}
CallTypes ==
    /\ todo \in [Callers -> Seq(Assets)]
    /\ eligible \in [Callers -> SUBSET Names]
    /\ stamp \in [Callers -> 0 .. MaxTime]
    /\ quarantined \subseteq Callers
    /\ plan \subseteq Names
    /\ trouble \in BOOLEAN
    /\ report \in {None, "partial", "completed"}
    /\ now \in 0 .. MaxTime
    /\ reviewed \in [Names -> Content \cup {None}]
    /\ owed \in [Assets -> SUBSET Versions]
    /\ exposed \subseteq Assets
    /\ spent \in [Bounded -> Nat]

LEMMA TypeParts == Types <=> FileTypes /\ ControlTypes /\ CallTypes
  BY DEF Types, TypeOK, FileTypes, ControlTypes, CallTypes, RestoreSteps

\* The actors are the threads and the sync job.
LEMMA ActorFacts == Sync \in Actors /\ Sync \notin Callers /\ \A c \in Callers : c \in Actors /\ c # Sync
  BY ActorsAssumption DEF Actors

\* Every step leaves an actor at one of its own steps, with a name exactly when it
\* is in the middle of something.
LEMMA ControlStep ==
    ControlTypes /\ CallTypes /\ [Next]_vars
  => ControlTypes'
<1> SUFFICES ASSUME ControlTypes, CallTypes, [Next]_vars
             PROVE  ControlTypes'
  OBVIOUS
<1> USE ActorFacts, PathFacts, NamesAssumption DEF ControlTypes, CallTypes
<1>1. ASSUME SyncReview PROVE  ControlTypes'
  BY <1>1 DEF SyncReview, Goes, Leave, callVars, syncVars, actorVars, RestoreSteps
<1>2. ASSUME SyncOpen PROVE  ControlTypes'
  BY <1>2 DEF SyncOpen, Goes, Leave, callVars, syncVars, actorVars, RestoreSteps
<1>3. ASSUME SyncClose PROVE  ControlTypes'
  BY <1>3 DEF SyncClose, Goes, Leave, callVars, syncVars, actorVars, RestoreSteps
<1>4. ASSUME SyncVerify PROVE  ControlTypes'
  BY <1>4 DEF SyncVerify, Goes, Leave, callVars, syncVars, actorVars, RestoreSteps
<1>5. ASSUME SyncFails PROVE  ControlTypes'
  BY <1>5 DEF SyncFails, Goes, Leave, callVars, syncVars, actorVars, RestoreSteps
<1>6. ASSUME SyncEnds PROVE  ControlTypes'
  BY <1>6 DEF SyncEnds, Goes, Leave, callVars, syncVars, actorVars, RestoreSteps
<1>7. ASSUME NEW c \in Callers, RestoreReview(c) PROVE  ControlTypes'
  BY <1>7 DEF RestoreReview, Goes, Leave, callVars, syncVars, actorVars, RestoreSteps
<1>8. ASSUME NEW c \in Callers, RestoreSkip(c) PROVE  ControlTypes'
  BY <1>8 DEF RestoreSkip, Goes, Leave, callVars, syncVars, actorVars, RestoreSteps
<1>9. ASSUME NEW c \in Callers, RestoreBegin(c) PROVE  ControlTypes'
  <2>1. Head(todo[c]) \in Assets
    BY <1>9, HeadTailProperties DEF RestoreBegin
  <2> QED
    BY <1>9, <2>1 DEF RestoreBegin, Goes, FirstStep, RestoreSteps, syncVars
<1>10. ASSUME NEW c \in Callers, MoveOpen(c) PROVE  ControlTypes'
  BY <1>10 DEF MoveOpen, Goes, Leave, callVars, syncVars, actorVars, RestoreSteps
<1>11. ASSUME NEW c \in Callers, MoveUnlink(c) PROVE  ControlTypes'
  BY <1>11 DEF MoveUnlink, Goes, Leave, callVars, syncVars, actorVars, RestoreSteps
<1>12. ASSUME NEW c \in Callers, TempOpen(c) PROVE  ControlTypes'
  BY <1>12 DEF TempOpen, Goes, Leave, callVars, syncVars, actorVars, RestoreSteps
<1>13. ASSUME NEW c \in Callers, RestoreClose(c) PROVE  ControlTypes'
  <2>1. pc' = [pc EXCEPT ![c] = AfterClose(pc[c])] /\ UNCHANGED <<asset, plan>>
    BY <1>13 DEF RestoreClose, Goes, syncVars
  <2>2. pc[c] # "idle" /\ pc[c] # "next" /\ AfterClose(pc[c]) \in {"unlink", "replace", "unlink_back"}
    BY <1>13 DEF RestoreClose, AfterClose
  <2> QED
    BY <2>1, <2>2 DEF RestoreSteps
<1>14. ASSUME NEW c \in Callers, RestoreReplace(c) PROVE  ControlTypes'
  BY <1>14 DEF RestoreReplace, Goes, Leave, callVars, syncVars, actorVars, RestoreSteps
<1>15. ASSUME NEW c \in Callers, RestoreVerify(c) PROVE  ControlTypes'
  BY <1>15 DEF RestoreVerify, Goes, Leave, callVars, syncVars, actorVars, RestoreSteps
<1>16. ASSUME NEW c \in Callers, RestoreRaises(c) PROVE  ControlTypes'
  <2>1. pc' = [pc EXCEPT ![c] = "cleanup"] /\ UNCHANGED <<asset, plan>>
    BY <1>16 DEF RestoreRaises, Goes, syncVars
  <2>2. pc[c] # "idle" /\ pc[c] # "next"
    BY <1>16 DEF RestoreRaises, Obstructed
  <2> QED
    BY <2>1, <2>2 DEF RestoreSteps
<1>17. ASSUME NEW c \in Callers, RestoreCleanup(c) PROVE  ControlTypes'
  BY <1>17 DEF RestoreCleanup, Goes, Leave, callVars, syncVars, actorVars, RestoreSteps
<1>18. ASSUME NEW c \in Callers, Rollback(c) PROVE  ControlTypes'
  <2>1. CASE MayRollBack(c)
    BY ZenonT(60), <1>18, <2>1 DEF Rollback, Goes, syncVars, RestoreSteps
  <2>2. CASE ~MayRollBack(c)
    <3>1. /\ pc' = [pc EXCEPT ![c] = "next"] /\ asset' = [asset EXCEPT ![c] = None]
          /\ UNCHANGED plan
      BY <1>18, <2>2 DEF Rollback, Leave, Goes, syncVars
    <3> QED
      BY <3>1 DEF RestoreSteps
  <2> QED
    BY <2>1, <2>2
<1>19. ASSUME NEW c \in Callers, MoveBackOpen(c) PROVE  ControlTypes'
  BY <1>19 DEF MoveBackOpen, Goes, Leave, callVars, syncVars, actorVars, RestoreSteps
<1>20. ASSUME NEW c \in Callers, MoveBackUnlink(c) PROVE  ControlTypes'
  BY <1>20 DEF MoveBackUnlink, Goes, Leave, callVars, syncVars, actorVars, RestoreSteps
<1>21. ASSUME NEW c \in Callers, RollbackRaises(c) PROVE  ControlTypes'
  BY <1>21 DEF RollbackRaises, Goes, Leave, callVars, syncVars, actorVars, RestoreSteps
<1>22. ASSUME NEW c \in Callers, RestoreEnds(c) PROVE  ControlTypes'
  BY <1>22 DEF RestoreEnds, Goes, Leave, callVars, syncVars, actorVars, RestoreSteps
<1>23. ASSUME NEW a \in Assets, ImmichWrites(a) PROVE  ControlTypes'
  BY <1>23 DEF ImmichWrites, Goes, Leave, callVars, syncVars, actorVars, RestoreSteps
<1>24. ASSUME Tick PROVE  ControlTypes'
  BY <1>24 DEF Tick, Goes, Leave, callVars, syncVars, actorVars, RestoreSteps
<1>25. ASSUME Crash PROVE  ControlTypes'
  BY <1>25 DEF Crash, Goes, Leave, callVars, syncVars, actorVars, RestoreSteps, Actors
<1>26. CASE UNCHANGED vars
  BY <1>26 DEF vars, actorVars, callVars, syncVars
<1> QED
  BY <1>1, <1>2, <1>3, <1>4, <1>5, <1>6, <1>7, <1>8, <1>9, <1>10, <1>11, <1>12, <1>13,
     <1>14, <1>15, <1>16, <1>17, <1>18, <1>19, <1>20, <1>21, <1>22, <1>23, <1>24, <1>25, <1>26 DEF Next, SyncStep, RestoreStep

\* A copy that is opened leaves a part of its source.
LEMMA OpenFacts ==
  ASSUME FileTypes, NEW c \in Actors, NEW from \in Paths, NEW to \in Paths,
         OpenCopy(c, from, to)
  PROVE  /\ file[from] \in Content
         /\ \E part \in Content :
               /\ ~part.whole /\ part.version = file[from].version
               /\ file' = [file EXCEPT ![to] = part]
         /\ open' = [open EXCEPT ![c] = to]
         /\ copied' = [copied EXCEPT ![c] = file[from]]
         /\ FileTypes'
<1>1. file[from] \in Content
  BY DEF FileTypes, OpenCopy, Exists
<1> DEFINE part == [file[from] EXCEPT !.whole = FALSE]
<1>2. part \in Content /\ ~part.whole /\ part.version = file[from].version
  BY <1>1 DEF Content
<1>3. /\ file' = [file EXCEPT ![to] = part]
      /\ open' = [open EXCEPT ![c] = to]
      /\ copied' = [copied EXCEPT ![c] = file[from]]
  BY DEF OpenCopy
<1> HIDE DEF part
<1>4. FileTypes'
  BY <1>1, <1>2, <1>3 DEF FileTypes
<1> QED
  BY <1>1, <1>2, <1>3, <1>4

\* What a copy that is closed leaves: what it read, perhaps emptied by another.
LEMMA CloseFacts ==
  ASSUME FileTypes, NEW c \in Actors, open[c] # None => copied[c] # None, CloseCopy(c)
  PROVE  /\ open' = [open EXCEPT ![c] = None]
         /\ copied' = [copied EXCEPT ![c] = None]
         /\ \/ open[c] = None /\ file' = file
            \/ \E kept \in Content :
                  /\ open[c] # None /\ open[c] \in Paths
                  /\ file' = [file EXCEPT ![open[c]] = kept]
                  /\ kept.version = copied[c].version
                  /\ (\A d \in Actors \ {c} : open[d] # open[c]) => kept = copied[c]
         /\ FileTypes'
<1>1. /\ open' = [open EXCEPT ![c] = None]
      /\ copied' = [copied EXCEPT ![c] = None]
  BY DEF CloseCopy
<1>2. CASE open[c] = None
  <2>1. file' = file
    BY <1>2 DEF CloseCopy
  <2> QED
    BY <1>1, <1>2, <2>1 DEF FileTypes
<1>3. CASE open[c] # None
  <2>1. open[c] \in Paths /\ copied[c] \in Content
    BY <1>3 DEF FileTypes
  <2>2. PICK kept \in {copied[c], [copied[c] EXCEPT !.whole = FALSE]} :
           /\ file' = [file EXCEPT ![open[c]] = kept]
           /\ (\A d \in Actors \ {c} : open[d] # open[c]) => kept = copied[c]
    <3>1. CASE \E d \in Actors \ {c} : open[d] = open[c]
      BY <1>3, <3>1 DEF CloseCopy
    <3>2. CASE ~ \E d \in Actors \ {c} : open[d] = open[c]
      BY <1>3, <3>2 DEF CloseCopy
    <3> QED
      BY <3>1, <3>2
  <2>3. kept \in Content /\ kept.version = copied[c].version
    BY <2>1, <2>2 DEF Content
  <2>4. FileTypes'
    BY <1>1, <2>1, <2>2, <2>3 DEF FileTypes
  <2> QED
    BY <1>1, <1>3, <2>1, <2>2, <2>3, <2>4
<1> QED
  BY <1>2, <1>3

\* A file that is removed, and one that is renamed.
LEMMA UnlinkFacts ==
  ASSUME FileTypes, NEW p \in Paths, Unlink(p)
  PROVE  /\ file[p] # None
         /\ file' = [file EXCEPT ![p] = None]
         /\ open' \in [Actors -> Paths \cup {None}]
         /\ \A d \in Actors : open'[d] = IF open[d] = p THEN None ELSE open[d]
BY DEF FileTypes, Unlink, Exists

LEMMA ReplaceFacts ==
  ASSUME FileTypes, NEW from \in Paths, NEW to \in Paths, from # to, Replace(from, to)
  PROVE  /\ file[from] \in Content
         /\ file' \in [Paths -> Content \cup {None}]
         /\ file'[to] = file[from] /\ file'[from] = None
         /\ \A p \in Paths \ {from, to} : file'[p] = file[p]
         /\ open' \in [Actors -> Paths \cup {None}]
         /\ \A d \in Actors : open'[d] = IF open[d] = from THEN to
                                          ELSE IF open[d] = to THEN None ELSE open[d]
<1>1. file[from] \in Content
  BY DEF FileTypes, Replace, Exists
<1>2. open' = [d \in Actors |-> CASE open[d] = from -> to
                                  [] open[d] = to   -> None
                                  [] OTHER          -> open[d]]
  BY DEF Replace
<1>3. \A d \in Actors : open'[d] = IF open[d] = from THEN to
                                    ELSE IF open[d] = to THEN None ELSE open[d]
  BY <1>2
<1>4. open' \in [Actors -> Paths \cup {None}]
  BY <1>2, <1>3 DEF FileTypes
<1>5. /\ file' \in [Paths -> Content \cup {None}]
      /\ file'[to] = file[from] /\ file'[from] = None
      /\ \A p \in Paths \ {from, to} : file'[p] = file[p]
  BY <1>1 DEF FileTypes, Replace
<1> QED
  BY <1>1, <1>3, <1>4, <1>5

\* What a restore that is under way works on.
LEMMA AtWork ==
  ASSUME ControlTypes, CallTypes, NEW c \in Callers, pc[c] \notin {"idle", "next"}
  PROVE  LET a == asset[c] IN
         /\ a \in Assets /\ a \in Names /\ Tmp(a) \in Names /\ a # Tmp(a)
         /\ stamp[c] \in 0 .. MaxTime
         /\ Library(a) \in Paths /\ Library(Tmp(a)) \in Paths /\ Backup(a) \in Paths
         /\ Quarantine(a, stamp[c]) \in Paths /\ Library(a) # Library(Tmp(a))
<1>1. asset[c] \in Assets /\ stamp[c] \in 0 .. MaxTime
  BY ActorFacts DEF ControlTypes, CallTypes
<1> QED
  BY <1>1, PathFacts

\* Every step writes a content, or none, where a path is.
LEMMA FileStep ==
    Types /\ Writers /\ [Next]_vars
  => FileTypes'
<1> SUFFICES ASSUME Types, Writers, [Next]_vars
             PROVE  FileTypes'
  OBVIOUS
<1>t. FileTypes /\ ControlTypes /\ CallTypes
  BY TypeParts
<1> USE ActorFacts
<1>1. ASSUME SyncReview PROVE  FileTypes'
  BY <1>1, <1>t DEF SyncReview, actorVars, FileTypes
<1>2. ASSUME SyncOpen PROVE  FileTypes'
  <2>1. PICK n \in plan : OpenCopy(Sync, Library(n), Backup(n))
    BY <1>2 DEF SyncOpen
  <2>2. Library(n) \in Paths /\ Backup(n) \in Paths
    BY <1>t, PathFacts DEF CallTypes
  <2> QED
    BY <1>t, <2>1, <2>2, OpenFacts
<1>3. ASSUME SyncClose PROVE  FileTypes'
  BY <1>3, <1>t, CloseFacts DEF SyncClose, Writers
<1>4. ASSUME SyncVerify PROVE  FileTypes'
  BY <1>4, <1>t DEF SyncVerify, actorVars, FileTypes
<1>5. ASSUME SyncFails PROVE  FileTypes'
  BY <1>5, <1>t DEF SyncFails, actorVars, FileTypes
<1>6. ASSUME SyncEnds PROVE  FileTypes'
  BY <1>6, <1>t DEF SyncEnds, actorVars, FileTypes
<1>7. ASSUME NEW c \in Callers, RestoreReview(c) PROVE  FileTypes'
  BY <1>7, <1>t DEF RestoreReview, actorVars, FileTypes
<1>8. ASSUME NEW c \in Callers, RestoreSkip(c) PROVE  FileTypes'
  BY <1>8, <1>t DEF RestoreSkip, actorVars, FileTypes
<1>9. ASSUME NEW c \in Callers, RestoreBegin(c) PROVE  FileTypes'
  BY <1>9, <1>t DEF RestoreBegin, actorVars, FileTypes
<1>10. ASSUME NEW c \in Callers, MoveOpen(c) PROVE  FileTypes'
  <2>1. pc[c] \notin {"idle", "next"} /\ asset[c] \in Names
    BY <1>10, <1>t, AtWork DEF MoveOpen
  <2> QED
    BY <1>10, <1>t, <2>1, AtWork, OpenFacts DEF MoveOpen
<1>11. ASSUME NEW c \in Callers, MoveUnlink(c) PROVE  FileTypes'
  <2>1. pc[c] \notin {"idle", "next"}
    BY <1>11 DEF MoveUnlink
  <2> QED
    BY <1>11, <1>t, <2>1, AtWork, UnlinkFacts DEF MoveUnlink, FileTypes
<1>12. ASSUME NEW c \in Callers, TempOpen(c) PROVE  FileTypes'
  <2>1. pc[c] \notin {"idle", "next"} /\ asset[c] \in Names
    BY <1>12, <1>t, AtWork DEF TempOpen
  <2> QED
    BY <1>12, <1>t, <2>1, AtWork, OpenFacts DEF TempOpen
<1>13. ASSUME NEW c \in Callers, RestoreClose(c) PROVE  FileTypes'
  BY <1>13, <1>t, CloseFacts DEF RestoreClose, Writers, Copying
<1>14. ASSUME NEW c \in Callers, RestoreReplace(c) PROVE  FileTypes'
  <2>1. pc[c] \notin {"idle", "next"}
    BY <1>14 DEF RestoreReplace
  <2> QED
    BY <1>14, <1>t, <2>1, AtWork, ReplaceFacts DEF RestoreReplace, FileTypes
<1>15. ASSUME NEW c \in Callers, RestoreVerify(c) PROVE  FileTypes'
  BY <1>15, <1>t DEF RestoreVerify, actorVars, FileTypes
<1>16. ASSUME NEW c \in Callers, RestoreRaises(c) PROVE  FileTypes'
  BY <1>16, <1>t DEF RestoreRaises, actorVars, FileTypes
<1>17. ASSUME NEW c \in Callers, RestoreCleanup(c) PROVE  FileTypes'
  <2>1. pc[c] \notin {"idle", "next"}
    BY <1>17 DEF RestoreCleanup
  <2>2. CASE Exists(Library(Tmp(asset[c])))
    BY <1>17, <1>t, <2>1, <2>2, AtWork, UnlinkFacts DEF RestoreCleanup, FileTypes
  <2>3. CASE ~Exists(Library(Tmp(asset[c])))
    BY <1>17, <1>t, <2>3 DEF RestoreCleanup, FileTypes
  <2> QED
    BY <2>2, <2>3
<1>18. ASSUME NEW c \in Callers, Rollback(c) PROVE  FileTypes'
  BY <1>18, <1>t DEF Rollback, actorVars, FileTypes
<1>19. ASSUME NEW c \in Callers, MoveBackOpen(c) PROVE  FileTypes'
  <2>1. pc[c] \notin {"idle", "next"} /\ asset[c] \in Names
    BY <1>19, <1>t, AtWork DEF MoveBackOpen
  <2> QED
    BY <1>19, <1>t, <2>1, AtWork, OpenFacts DEF MoveBackOpen
<1>20. ASSUME NEW c \in Callers, MoveBackUnlink(c) PROVE  FileTypes'
  <2>1. pc[c] \notin {"idle", "next"}
    BY <1>20 DEF MoveBackUnlink
  <2> QED
    BY <1>20, <1>t, <2>1, AtWork, UnlinkFacts DEF MoveBackUnlink, FileTypes
<1>21. ASSUME NEW c \in Callers, RollbackRaises(c) PROVE  FileTypes'
  BY <1>21, <1>t DEF RollbackRaises, actorVars, FileTypes
<1>22. ASSUME NEW c \in Callers, RestoreEnds(c) PROVE  FileTypes'
  BY <1>22, <1>t DEF RestoreEnds, actorVars, FileTypes
<1>23. ASSUME NEW a \in Assets, ImmichWrites(a) PROVE  FileTypes'
  <2>1. Whole(spent["writes"] + 2) \in Content
    BY <1>23, <1>t, BoundsAssumption DEF ImmichWrites, Spend, CallTypes, Content, Whole, Versions, Bounded, Budgets
  <2>2. PICK new \in {None, Whole(spent["writes"] + 2)} : file' = [file EXCEPT ![Library(a)] = new]
    BY <1>23 DEF ImmichWrites
  <2>3. Library(a) \in Paths
    BY PathFacts
  <2> QED
    BY <1>23, <1>t, <2>1, <2>2, <2>3 DEF ImmichWrites, FileTypes
<1>24. ASSUME Tick PROVE  FileTypes'
  BY <1>24, <1>t DEF Tick, actorVars, FileTypes
<1>25. ASSUME Crash PROVE  FileTypes'
  BY <1>25, <1>t DEF Crash, actorVars, FileTypes
<1>26. CASE UNCHANGED vars
  BY <1>26, <1>t DEF vars, actorVars, FileTypes
<1> QED
  BY <1>1, <1>2, <1>3, <1>4, <1>5, <1>6, <1>7, <1>8, <1>9, <1>10, <1>11, <1>12, <1>13,
     <1>14, <1>15, <1>16, <1>17, <1>18, <1>19, <1>20, <1>21, <1>22, <1>23, <1>24, <1>25, <1>26 DEF Next, SyncStep, RestoreStep

\* Calls, plans and histories keep their types.
LEMMA CallStep ==
    Types /\ [Next]_vars
  => CallTypes'
<1> SUFFICES ASSUME Types, [Next]_vars
             PROVE  CallTypes'
  OBVIOUS
<1>t. FileTypes /\ ControlTypes /\ CallTypes
  BY TypeParts
<1> USE ActorFacts
<1>1. ASSUME SyncReview PROVE  CallTypes'
  <2>1. {n \in Names : SyncEligible(n)} \in SUBSET Names
    OBVIOUS
  <2>2. [n \in Names |-> file[Library(n)]] \in [Names -> Content \cup {None}]
    BY <1>t, PathFacts DEF FileTypes
  <2>3. (\E n \in Names : NeedsReview(n)) \in BOOLEAN
    OBVIOUS
  <2>4. spent' \in [Bounded -> Nat]
    BY <1>1, <1>t DEF SyncReview, Spend, CallTypes, Bounded
  <2> QED
    BY <1>1, <1>t, <2>1, <2>2, <2>3, <2>4 DEF SyncReview, CallTypes, callVars, history
<1>2. ASSUME SyncOpen PROVE  CallTypes'
  BY <1>2, <1>t DEF SyncOpen, Spend, Bounded, CallTypes, callVars, syncVars, history
<1>3. ASSUME SyncClose PROVE  CallTypes'
  BY <1>3, <1>t DEF SyncClose, Spend, Bounded, CallTypes, callVars, syncVars, history
<1>4. ASSUME SyncVerify PROVE  CallTypes'
  BY <1>4, <1>t DEF SyncVerify, Spend, Bounded, CallTypes, callVars, syncVars, history
<1>5. ASSUME SyncFails PROVE  CallTypes'
  <2>1. spent' \in [Bounded -> Nat]
    BY <1>5, <1>t DEF SyncFails, Spend, CallTypes, Bounded
  <2>2. UNCHANGED <<callVars, report, reviewed, now, history>>
    BY <1>5 DEF SyncFails, syncVars
  <2>3. plan' \subseteq plan /\ trouble' \in BOOLEAN
    BY <1>5, <1>t DEF SyncFails, syncVars, CallTypes
  <2> QED
    BY <1>t, <2>1, <2>2, <2>3 DEF CallTypes, callVars, history
<1>6. ASSUME SyncEnds PROVE  CallTypes'
  BY <1>6, <1>t DEF SyncEnds, Spend, Bounded, CallTypes, callVars, syncVars, history
<1>7. ASSUME NEW c \in Callers, RestoreReview(c) PROVE  CallTypes'
  <2>1. PICK ids \in UNION {[1 .. n -> Assets] : n \in 1 .. MaxItems} :
           todo' = [todo EXCEPT ![c] = ids]
    BY <1>7 DEF RestoreReview
  <2>2. ids \in Seq(Assets)
    BY BoundsAssumption, SeqDef
  <2>3. {n \in Names : RestoreEligible(n)} \in SUBSET Names
    OBVIOUS
  <2> HIDE DEF RestoreEligible
  <2> QED
    BY <1>7, <1>t, <2>1, <2>2, <2>3 DEF RestoreReview, CallTypes, Spend, Bounded, syncVars, history
<1>8. ASSUME NEW c \in Callers, RestoreSkip(c) PROVE  CallTypes'
  <2>1. Tail(todo[c]) \in Seq(Assets)
    BY <1>8, <1>t, HeadTailProperties DEF RestoreSkip, CallTypes
  <2> QED
    BY <1>8, <1>t, <2>1 DEF RestoreSkip, NextItem, CallTypes, syncVars, history
<1>9. ASSUME NEW c \in Callers, RestoreBegin(c) PROVE  CallTypes'
  <2>1. Tail(todo[c]) \in Seq(Assets) /\ Head(todo[c]) \in Assets
    BY <1>9, <1>t, HeadTailProperties DEF RestoreBegin, CallTypes
  <2> QED
    BY <1>9, <1>t, <2>1 DEF RestoreBegin, NextItem, CallTypes, syncVars
<1>10. ASSUME NEW c \in Callers, MoveOpen(c) PROVE  CallTypes'
  BY <1>10, <1>t DEF MoveOpen, Spend, Bounded, CallTypes, callVars, syncVars, history
<1>11. ASSUME NEW c \in Callers, MoveUnlink(c) PROVE  CallTypes'
  BY <1>11, <1>t DEF MoveUnlink, Spend, Bounded, CallTypes, callVars, syncVars, history
<1>12. ASSUME NEW c \in Callers, TempOpen(c) PROVE  CallTypes'
  BY <1>12, <1>t DEF TempOpen, Spend, Bounded, CallTypes, callVars, syncVars, history
<1>13. ASSUME NEW c \in Callers, RestoreClose(c) PROVE  CallTypes'
  BY <1>13, <1>t DEF RestoreClose, Spend, Bounded, CallTypes, callVars, syncVars, history
<1>14. ASSUME NEW c \in Callers, RestoreReplace(c) PROVE  CallTypes'
  BY <1>14, <1>t DEF RestoreReplace, Spend, Bounded, CallTypes, callVars, syncVars, history
<1>15. ASSUME NEW c \in Callers, RestoreVerify(c) PROVE  CallTypes'
  BY <1>15, <1>t DEF RestoreVerify, Spend, Bounded, CallTypes, callVars, syncVars, history
<1>16. ASSUME NEW c \in Callers, RestoreRaises(c) PROVE  CallTypes'
  BY <1>16, <1>t DEF RestoreRaises, Spend, Bounded, CallTypes, callVars, syncVars, history
<1>17. ASSUME NEW c \in Callers, RestoreCleanup(c) PROVE  CallTypes'
  BY <1>17, <1>t DEF RestoreCleanup, Spend, Bounded, CallTypes, callVars, syncVars, history
<1>18. ASSUME NEW c \in Callers, Rollback(c) PROVE  CallTypes'
  BY <1>18, <1>t DEF Rollback, Spend, Bounded, CallTypes, callVars, syncVars, history
<1>19. ASSUME NEW c \in Callers, MoveBackOpen(c) PROVE  CallTypes'
  BY <1>19, <1>t DEF MoveBackOpen, Spend, Bounded, CallTypes, callVars, syncVars, history
<1>20. ASSUME NEW c \in Callers, MoveBackUnlink(c) PROVE  CallTypes'
  BY <1>20, <1>t DEF MoveBackUnlink, Spend, Bounded, CallTypes, callVars, syncVars, history
<1>21. ASSUME NEW c \in Callers, RollbackRaises(c) PROVE  CallTypes'
  <2>1. spent' \in [Bounded -> Nat]
    BY <1>21, <1>t DEF RollbackRaises, Spend, CallTypes, Bounded
  <2>2. UNCHANGED <<callVars, report, reviewed, now, history>>
    BY <1>21 DEF RollbackRaises, syncVars
  <2>3. plan' \subseteq plan /\ trouble' \in BOOLEAN
    BY <1>21, <1>t DEF RollbackRaises, syncVars, CallTypes
  <2> QED
    BY <1>t, <2>1, <2>2, <2>3 DEF CallTypes, callVars, history
<1>22. ASSUME NEW c \in Callers, RestoreEnds(c) PROVE  CallTypes'
  BY <1>22, <1>t DEF RestoreEnds, Spend, Bounded, CallTypes, callVars, syncVars, history
<1>23. ASSUME NEW a \in Assets, ImmichWrites(a) PROVE  CallTypes'
  <2>1. spent["writes"] + 2 \in Versions
    BY <1>23, <1>t, BoundsAssumption
       DEF ImmichWrites, Spend, CallTypes, Versions, Bounded, Budgets
  <2>2. PICK new \in {None, Whole(spent["writes"] + 2)} :
           owed' = [owed EXCEPT ![a] =
                      (@ \ Held(a)) \cup (IF new = None THEN {} ELSE {new.version})]
    BY <1>23 DEF ImmichWrites
  <2>3. (IF new = None THEN {} ELSE {new.version}) \subseteq Versions
    BY <2>1, <2>2 DEF Whole
  <2>4. owed' \in [Assets -> SUBSET Versions]
    BY <1>t, <2>2, <2>3 DEF CallTypes
  <2>5. spent' \in [Bounded -> Nat]
    BY <1>23, <1>t DEF ImmichWrites, Spend, CallTypes, Bounded
  <2> QED
    BY <1>23, <1>t, <2>4, <2>5 DEF ImmichWrites, CallTypes, callVars, syncVars
<1>24. ASSUME Tick PROVE  CallTypes'
  BY <1>24, <1>t, BoundsAssumption DEF Tick, CallTypes, callVars, syncVars, history
<1>25. ASSUME Crash PROVE  CallTypes'
  <2>1. << >> \in Seq(Assets)
    OBVIOUS
  <2> QED
    BY <1>25, <1>t, <2>1 DEF Crash, Spend, Bounded, CallTypes, history
<1>26. CASE UNCHANGED vars
  BY <1>26, <1>t DEF vars, callVars, syncVars, history, CallTypes
<1> QED
  BY <1>1, <1>2, <1>3, <1>4, <1>5, <1>6, <1>7, <1>8, <1>9, <1>10, <1>11, <1>12, <1>13,
     <1>14, <1>15, <1>16, <1>17, <1>18, <1>19, <1>20, <1>21, <1>22, <1>23, <1>24, <1>25, <1>26 DEF Next, SyncStep, RestoreStep

LEMMA TypesStep == Types /\ Writers /\ [Next]_vars => Types'
<1> SUFFICES ASSUME Types, Writers, [Next]_vars PROVE Types'
  OBVIOUS
<1>1. FileTypes' /\ CallTypes'
  BY FileStep, CallStep
<1>2. ControlTypes'
  BY TypeParts, ControlStep
<1> QED
  BY <1>1, <1>2, TypeParts DEF Types, TypeOK, FileTypes, ControlTypes, CallTypes, RestoreSteps

-----------------------------------------------------------------------------
(* Who writes what.                                                         *)

\* A copy is begun by an actor for its own asset, and is over before it goes on.
LEMMA WritersStep ==
    Types /\ Writers /\ [Next]_vars
  => Writers'
<1> SUFFICES ASSUME Types, Writers, [Next]_vars
             PROVE  Writers'
  OBVIOUS
<1>t. FileTypes /\ ControlTypes /\ CallTypes
  BY TypeParts
<1> USE ActorFacts
<1>1. ASSUME SyncReview PROVE  Writers'
  BY <1>1, <1>t DEF SyncReview, Goes, Leave, actorVars, Writers, FileTypes, ControlTypes, Copying
<1>2. ASSUME SyncOpen PROVE  Writers'
  <2>1. PICK n \in plan : OpenCopy(Sync, Library(n), Backup(n)) /\ asset' = [asset EXCEPT ![Sync] = n]
    BY <1>2 DEF SyncOpen
  <2>2. Library(n) \in Paths /\ Backup(n) \in Paths
    BY <1>t, PathFacts DEF CallTypes
  <2>3. open' = [open EXCEPT ![Sync] = Backup(n)] /\ copied'[Sync] \in Content
    BY <1>t, <2>1, <2>2, OpenFacts DEF FileTypes
  <2>4. copied' = [copied EXCEPT ![Sync] = copied'[Sync]]
    BY <1>t, <2>1 DEF OpenCopy, FileTypes
  <2> QED
    BY <1>2, <1>t, <2>1, <2>3, <2>4, NamesAssumption DEF SyncOpen, Goes, Writers, FileTypes, ControlTypes, Copying
<1>3. ASSUME SyncClose PROVE  Writers'
  <2>1. /\ open' = [open EXCEPT ![Sync] = None]
        /\ copied' = [copied EXCEPT ![Sync] = None]
    BY <1>3 DEF SyncClose, CloseCopy
  <2>2. /\ UNCHANGED asset /\ \A d \in Actors \ {Sync} : pc'[d] = pc[d]
        /\ pc'[Sync] \notin Copying \cup {"close"}
    BY <1>3, <1>t DEF SyncClose, Goes, ControlTypes, AfterClose, Copying
  <2> QED
    BY <1>t, <2>1, <2>2 DEF Writers, FileTypes, ControlTypes, Copying
<1>4. ASSUME SyncVerify PROVE  Writers'
  BY <1>4, <1>t DEF SyncVerify, Goes, Leave, actorVars, Writers, FileTypes, ControlTypes, Copying
<1>5. ASSUME SyncFails PROVE  Writers'
  BY <1>5, <1>t DEF SyncFails, Goes, Leave, actorVars, Writers, FileTypes, ControlTypes, Copying
<1>6. ASSUME SyncEnds PROVE  Writers'
  BY <1>6, <1>t DEF SyncEnds, Goes, Leave, actorVars, Writers, FileTypes, ControlTypes, Copying
<1>7. ASSUME NEW c \in Callers, RestoreReview(c) PROVE  Writers'
  BY <1>7, <1>t DEF RestoreReview, Goes, Leave, actorVars, Writers, FileTypes, ControlTypes, Copying
<1>8. ASSUME NEW c \in Callers, RestoreSkip(c) PROVE  Writers'
  BY <1>8, <1>t DEF RestoreSkip, Goes, Leave, actorVars, Writers, FileTypes, ControlTypes, Copying
<1>9. ASSUME NEW c \in Callers, RestoreBegin(c) PROVE  Writers'
  <2>1. /\ UNCHANGED <<open, copied>> /\ \A d \in Actors \ {c} : pc'[d] = pc[d] /\ asset'[d] = asset[d]
        /\ pc[c] = "next" /\ pc'[c] \in {"move", "copy"}
    BY <1>9, <1>t DEF RestoreBegin, Goes, FirstStep, ControlTypes
  <2> QED
    BY <1>t, <2>1 DEF Writers, FileTypes, ControlTypes, Copying
<1>10. ASSUME NEW c \in Callers, MoveOpen(c) PROVE  Writers'
  <2>1. pc[c] \notin {"idle", "next"}
    BY <1>10 DEF MoveOpen
  <2>2. open' = [open EXCEPT ![c] = Quarantine(asset[c], stamp[c])] /\ copied'[c] \in Content
    BY <1>10, <1>t, <2>1, AtWork, OpenFacts DEF MoveOpen, FileTypes
  <2>3. Quarantine(asset[c], stamp[c]) \in PathsOf(asset[c])
    BY <1>t, <2>1, AtWork, Apart
  <2>4. /\ pc' = [pc EXCEPT ![c] = "moving"] /\ UNCHANGED asset
        /\ \A d \in Actors \ {c} : copied'[d] = copied[d]
    BY <1>10, <1>t DEF MoveOpen, Goes, OpenCopy, FileTypes
  <2> QED
    BY <1>t, <2>2, <2>3, <2>4, NamesAssumption DEF Writers, FileTypes, ControlTypes, Copying
<1>11. ASSUME NEW c \in Callers, MoveUnlink(c) PROVE  Writers'
  <2>1. pc[c] \notin {"idle", "next"}
    BY <1>11 DEF MoveUnlink
  <2>2. \A d \in Actors : open'[d] = IF open[d] = Library(asset[c]) THEN None ELSE open[d]
    BY <1>11, <1>t, <2>1, AtWork, UnlinkFacts DEF MoveUnlink
  <2>3. \A n \in Names : Library(asset[c]) # Backup(n)
    BY <1>t, <2>1, AtWork, PathFacts
  <2> QED
    BY <1>11, <1>t, <2>2, <2>3 DEF MoveUnlink, Goes, Leave, Writers, FileTypes, ControlTypes, Copying
<1>12. ASSUME NEW c \in Callers, TempOpen(c) PROVE  Writers'
  <2>1. pc[c] \notin {"idle", "next"}
    BY <1>12 DEF TempOpen
  <2>2. open' = [open EXCEPT ![c] = Library(Tmp(asset[c]))] /\ copied'[c] \in Content
    BY <1>12, <1>t, <2>1, AtWork, OpenFacts DEF TempOpen, FileTypes
  <2>3. Library(Tmp(asset[c])) \in PathsOf(asset[c])
    BY <1>t, <2>1, AtWork, Apart
  <2>4. /\ pc' = [pc EXCEPT ![c] = "copying"] /\ UNCHANGED asset
        /\ \A d \in Actors \ {c} : copied'[d] = copied[d]
    BY <1>12, <1>t DEF TempOpen, Goes, OpenCopy, FileTypes
  <2> QED
    BY <1>t, <2>2, <2>3, <2>4, NamesAssumption DEF Writers, FileTypes, ControlTypes, Copying
<1>13. ASSUME NEW c \in Callers, RestoreClose(c) PROVE  Writers'
  <2>1. /\ open' = [open EXCEPT ![c] = None]
        /\ copied' = [copied EXCEPT ![c] = None]
    BY <1>13 DEF RestoreClose, CloseCopy
  <2>2. /\ UNCHANGED asset /\ \A d \in Actors \ {c} : pc'[d] = pc[d]
        /\ pc'[c] \notin Copying \cup {"close"}
    BY <1>13, <1>t DEF RestoreClose, Goes, ControlTypes, AfterClose, Copying
  <2> QED
    BY <1>t, <2>1, <2>2 DEF Writers, FileTypes, ControlTypes, Copying
<1>14. ASSUME NEW c \in Callers, RestoreReplace(c) PROVE  Writers'
  <2> DEFINE a == asset[c]
  <2>1. pc[c] \notin {"idle", "next"}
    BY <1>14 DEF RestoreReplace
  <2>2. \A d \in Actors : open'[d] = IF open[d] = Library(Tmp(a)) THEN Library(a)
                                      ELSE IF open[d] = Library(a) THEN None ELSE open[d]
    BY <1>14, <1>t, <2>1, AtWork, ReplaceFacts DEF RestoreReplace
  <2>3. /\ \A n \in Names : Library(Tmp(a)) # Backup(n) /\ Library(a) # Backup(n)
        /\ Library(Tmp(a)) # None /\ a \in Assets
        /\ Library(a) \in PathsOf(a) /\ Library(Tmp(a)) \in PathsOf(a)
    BY <1>t, <2>1, AtWork, PathFacts, Apart, NamesAssumption
  <2>4. \A d \in Callers : open[d] = Library(Tmp(a)) => asset[d] = a
    <3> SUFFICES ASSUME NEW d \in Callers, open[d] = Library(Tmp(a)) PROVE asset[d] = a
      OBVIOUS
    <3>1. open[d] \in PathsOf(asset[d]) /\ pc[d] \in Copying
      BY <2>3 DEF Writers
    <3>2. asset[d] \in Assets
      BY <1>t, <3>1 DEF ControlTypes, Copying
    <3> QED
      BY <2>3, <3>1, <3>2, Apart
  <2>5. pc' = [pc EXCEPT ![c] = "verify"] /\ UNCHANGED <<asset, copied>> /\ pc[c] = "replace"
    BY <1>14 DEF RestoreReplace, Goes
  <2> HIDE DEF a
  <2>6. \A d \in Callers : open'[d] # None => pc'[d] \in Copying /\ open'[d] \in PathsOf(asset[d])
    BY <1>t, <2>2, <2>3, <2>4, <2>5 DEF Writers, FileTypes, ControlTypes, Copying
  <2> QED
    BY <1>t, <2>2, <2>3, <2>5, <2>6 DEF Writers, FileTypes, ControlTypes, Copying
<1>15. ASSUME NEW c \in Callers, RestoreVerify(c) PROVE  Writers'
  BY <1>15, <1>t DEF RestoreVerify, Goes, Leave, actorVars, Writers, FileTypes, ControlTypes, Copying
<1>16. ASSUME NEW c \in Callers, RestoreRaises(c) PROVE  Writers'
  <2>1. /\ open' = [open EXCEPT ![c] = None] /\ copied' = [copied EXCEPT ![c] = None]
        /\ pc' = [pc EXCEPT ![c] = "cleanup"] /\ UNCHANGED asset
    BY <1>16 DEF RestoreRaises, Goes
  <2> QED
    BY <1>t, <2>1 DEF Writers, FileTypes, ControlTypes, Copying
<1>17. ASSUME NEW c \in Callers, RestoreCleanup(c) PROVE  Writers'
  <2>1. pc[c] \notin {"idle", "next"}
    BY <1>17 DEF RestoreCleanup
  <2> DEFINE Same(d) == open'[d] = open[d] \/ (open'[d] = None /\ open[d] = Library(Tmp(asset[c])))
  <2>2. \A d \in Actors : Same(d)
    <3>1. CASE Exists(Library(Tmp(asset[c])))
      BY <1>17, <1>t, <2>1, <3>1, AtWork, UnlinkFacts DEF RestoreCleanup
    <3>2. CASE ~Exists(Library(Tmp(asset[c])))
      BY <1>17, <3>2 DEF RestoreCleanup
    <3> QED
      BY <3>1, <3>2
  <2>3. \A n \in Names : Library(Tmp(asset[c])) # Backup(n)
    BY <1>t, <2>1, AtWork, PathFacts
  <2> QED
    BY <1>17, <1>t, <2>2, <2>3 DEF RestoreCleanup, Goes, Writers, FileTypes, ControlTypes, Copying
<1>18. ASSUME NEW c \in Callers, Rollback(c) PROVE  Writers'
  <2>1. /\ UNCHANGED <<open, copied>> /\ \A d \in Actors \ {c} : pc'[d] = pc[d] /\ asset'[d] = asset[d]
        /\ pc[c] = "rollback" /\ pc'[c] \in {"move_back", "next"}
    <3>1. CASE MayRollBack(c)
      BY <1>18, <1>t, <3>1 DEF Rollback, Goes, ControlTypes
    <3>2. CASE ~MayRollBack(c)
      BY <1>18, <1>t, <3>2 DEF Rollback, Leave, Goes, ControlTypes
    <3> QED
      BY <3>1, <3>2
  <2> QED
    BY <1>t, <2>1 DEF Writers, FileTypes, ControlTypes, Copying
<1>19. ASSUME NEW c \in Callers, MoveBackOpen(c) PROVE  Writers'
  <2>1. pc[c] \notin {"idle", "next"}
    BY <1>19 DEF MoveBackOpen
  <2>2. open' = [open EXCEPT ![c] = Library(asset[c])] /\ copied'[c] \in Content
    BY <1>19, <1>t, <2>1, AtWork, OpenFacts DEF MoveBackOpen, FileTypes
  <2>3. Library(asset[c]) \in PathsOf(asset[c])
    BY <1>t, <2>1, AtWork, Apart
  <2>4. /\ pc' = [pc EXCEPT ![c] = "moving_back"] /\ UNCHANGED asset
        /\ \A d \in Actors \ {c} : copied'[d] = copied[d]
    BY <1>19, <1>t DEF MoveBackOpen, Goes, OpenCopy, FileTypes
  <2> QED
    BY <1>t, <2>2, <2>3, <2>4, NamesAssumption DEF Writers, FileTypes, ControlTypes, Copying
<1>20. ASSUME NEW c \in Callers, MoveBackUnlink(c) PROVE  Writers'
  <2>1. pc[c] \notin {"idle", "next"}
    BY <1>20 DEF MoveBackUnlink
  <2>2. \A d \in Actors : open'[d] = IF open[d] = Quarantine(asset[c], stamp[c]) THEN None ELSE open[d]
    BY <1>20, <1>t, <2>1, AtWork, UnlinkFacts DEF MoveBackUnlink
  <2>3. \A n \in Names : Quarantine(asset[c], stamp[c]) # Backup(n)
    BY <1>t, <2>1, AtWork, PathFacts
  <2> QED
    BY <1>20, <1>t, <2>2, <2>3 DEF MoveBackUnlink, Goes, Leave, Writers, FileTypes, ControlTypes, Copying
<1>21. ASSUME NEW c \in Callers, RollbackRaises(c) PROVE  Writers'
  <2>1. /\ open' = [open EXCEPT ![c] = None] /\ copied' = [copied EXCEPT ![c] = None]
        /\ pc' = [pc EXCEPT ![c] = "next"] /\ asset' = [asset EXCEPT ![c] = None]
    BY <1>21 DEF RollbackRaises, Leave, Goes
  <2> QED
    BY <1>t, <2>1 DEF Writers, FileTypes, ControlTypes, Copying
<1>22. ASSUME NEW c \in Callers, RestoreEnds(c) PROVE  Writers'
  BY <1>22, <1>t DEF RestoreEnds, Goes, Leave, actorVars, Writers, FileTypes, ControlTypes, Copying
<1>23. ASSUME NEW a \in Assets, ImmichWrites(a) PROVE  Writers'
  <2>1. \A d \in Actors : open'[d] = open[d] \/ (open'[d] = None /\ open[d] = Library(a))
    BY <1>23 DEF ImmichWrites
  <2>2. \A n \in Names : Library(a) # Backup(n)
    BY PathFacts
  <2> QED
    BY <1>23, <1>t, <2>1, <2>2 DEF ImmichWrites, Writers, FileTypes, ControlTypes, Copying
<1>24. ASSUME Tick PROVE  Writers'
  BY <1>24, <1>t DEF Tick, Goes, Leave, actorVars, Writers, FileTypes, ControlTypes, Copying
<1>25. ASSUME Crash PROVE  Writers'
  BY <1>25, <1>t DEF Crash, Goes, Leave, actorVars, Writers, FileTypes, ControlTypes, Copying
<1>26. CASE UNCHANGED vars
  BY <1>26, <1>t DEF vars, actorVars, Writers
<1> QED
  BY <1>1, <1>2, <1>3, <1>4, <1>5, <1>6, <1>7, <1>8, <1>9, <1>10, <1>11, <1>12, <1>13,
     <1>14, <1>15, <1>16, <1>17, <1>18, <1>19, <1>20, <1>21, <1>22, <1>23, <1>24, <1>25, <1>26 DEF Next, SyncStep, RestoreStep

\* A restore writes the files of its asset only.
LEMMA RestoreTouches ==
  ASSUME Types, Writers, NEW c \in Callers, RestoreStep(c), NEW p \in Paths, file'[p] # file[p]
  PROVE  asset[c] \in Assets /\ p \in PathsOf(asset[c])
<1>t. FileTypes /\ ControlTypes /\ CallTypes
  BY TypeParts
<1> USE ActorFacts
<1> DEFINE Here == asset[c] \in Assets /\ p \in PathsOf(asset[c])
<1>1. CASE RestoreReview(c)
  BY <1>1 DEF RestoreReview
<1>2. CASE RestoreSkip(c)
  BY <1>2 DEF RestoreSkip
<1>3. CASE RestoreBegin(c)
  BY <1>3 DEF RestoreBegin
<1>4. CASE MoveOpen(c)
  <2>1. pc[c] \notin {"idle", "next"}
    BY <1>4 DEF MoveOpen
  <2> QED
    BY <1>4, <1>t, <2>1, AtWork, Apart DEF MoveOpen, OpenCopy, FileTypes
<1>5. CASE MoveUnlink(c)
  <2>1. pc[c] \notin {"idle", "next"}
    BY <1>5 DEF MoveUnlink
  <2> QED
    BY <1>5, <1>t, <2>1, AtWork, Apart DEF MoveUnlink, Unlink, FileTypes
<1>6. CASE TempOpen(c)
  <2>1. pc[c] \notin {"idle", "next"}
    BY <1>6 DEF TempOpen
  <2> QED
    BY <1>6, <1>t, <2>1, AtWork, Apart DEF TempOpen, OpenCopy, FileTypes
<1>7. CASE RestoreClose(c)
  <2>1. pc[c] \in Copying /\ pc[c] \notin {"idle", "next"} /\ (open[c] # None => copied[c] # None)
    BY <1>7 DEF RestoreClose, Writers, Copying
  <2>2. p = open[c] /\ open[c] # None
    BY <1>7, <1>t, <2>1, CloseFacts DEF RestoreClose, FileTypes
  <2> QED
    BY <1>t, <2>1, <2>2, AtWork DEF Writers
<1>8. CASE RestoreReplace(c)
  <2>1. pc[c] \notin {"idle", "next"}
    BY <1>8 DEF RestoreReplace
  <2> QED
    BY <1>8, <1>t, <2>1, AtWork, Apart, ReplaceFacts DEF RestoreReplace
<1>9. CASE RestoreVerify(c)
  BY <1>9 DEF RestoreVerify
<1>10. CASE RestoreRaises(c)
  BY <1>10 DEF RestoreRaises
<1>11. CASE RestoreCleanup(c)
  <2>1. pc[c] \notin {"idle", "next"}
    BY <1>11 DEF RestoreCleanup
  <2> QED
    BY <1>11, <1>t, <2>1, AtWork, Apart DEF RestoreCleanup, Unlink, FileTypes
<1>12. CASE Rollback(c)
  BY <1>12 DEF Rollback
<1>13. CASE MoveBackOpen(c)
  <2>1. pc[c] \notin {"idle", "next"}
    BY <1>13 DEF MoveBackOpen
  <2> QED
    BY <1>13, <1>t, <2>1, AtWork, Apart DEF MoveBackOpen, OpenCopy, FileTypes
<1>14. CASE MoveBackUnlink(c)
  <2>1. pc[c] \notin {"idle", "next"}
    BY <1>14 DEF MoveBackUnlink
  <2> QED
    BY <1>14, <1>t, <2>1, AtWork, Apart DEF MoveBackUnlink, Unlink, FileTypes
<1>15. CASE RollbackRaises(c)
  BY <1>15 DEF RollbackRaises
<1>16. CASE RestoreEnds(c)
  BY <1>16 DEF RestoreEnds
<1> QED
  BY <1>1, <1>2, <1>3, <1>4, <1>5, <1>6, <1>7, <1>8, <1>9, <1>10, <1>11, <1>12, <1>13,
     <1>14, <1>15, <1>16 DEF RestoreStep

\* A restore leaves the sync job alone, and the other restores where they are.
LEMMA RestoreLeaves ==
  ASSUME Types, NEW c \in Callers, RestoreStep(c)
  PROVE  /\ UNCHANGED <<syncVars, now, owed>>
         /\ \A d \in Actors \ {c} : /\ pc'[d] = pc[d] /\ asset'[d] = asset[d]
                                    /\ copied'[d] = copied[d]
         /\ \A d \in Callers \ {c} : stamp'[d] = stamp[d] /\ eligible'[d] = eligible[d]
<1>t. FileTypes /\ ControlTypes /\ CallTypes
  BY TypeParts
<1> USE <1>t, ActorFacts DEF FileTypes, ControlTypes, CallTypes
<1>1. CASE RestoreReview(c)
  BY <1>1 DEF RestoreReview, Goes, Leave, history, callVars, actorVars
<1>2. CASE RestoreSkip(c)
  BY <1>2 DEF RestoreSkip, Goes, Leave, history, callVars, actorVars
<1>3. CASE RestoreBegin(c)
  BY <1>3 DEF RestoreBegin, Goes, Leave, history, callVars, actorVars
<1>4. CASE MoveOpen(c)
  BY <1>4 DEF MoveOpen, OpenCopy, Goes, history, callVars
<1>5. CASE MoveUnlink(c)
  BY <1>5 DEF MoveUnlink, Goes, Leave, history, callVars, actorVars
<1>6. CASE TempOpen(c)
  BY <1>6 DEF TempOpen, OpenCopy, Goes, history, callVars
<1>7. CASE RestoreClose(c)
  BY <1>7 DEF RestoreClose, CloseCopy, Goes, history, callVars
<1>8. CASE RestoreReplace(c)
  BY <1>8 DEF RestoreReplace, Goes, Leave, history, callVars, actorVars
<1>9. CASE RestoreVerify(c)
  BY <1>9 DEF RestoreVerify, Goes, Leave, history, callVars, actorVars
<1>10. CASE RestoreRaises(c)
  BY <1>10 DEF RestoreRaises, Goes, Leave, history, callVars, actorVars
<1>11. CASE RestoreCleanup(c)
  BY <1>11 DEF RestoreCleanup, Goes, Leave, history, callVars, actorVars
<1>12. CASE Rollback(c)
  <2>1. CASE MayRollBack(c)
    BY <1>12, <2>1 DEF Rollback, Goes, history, callVars
  <2>2. CASE ~MayRollBack(c)
    BY <1>12, <2>2 DEF Rollback, Leave, Goes, history, callVars
  <2> QED
    BY <2>1, <2>2
<1>13. CASE MoveBackOpen(c)
  BY <1>13 DEF MoveBackOpen, OpenCopy, Goes, history, callVars
<1>14. CASE MoveBackUnlink(c)
  BY <1>14 DEF MoveBackUnlink, Goes, Leave, history, callVars, actorVars
<1>15. CASE RollbackRaises(c)
  BY <1>15 DEF RollbackRaises, Goes, Leave, history, callVars, actorVars
<1>16. CASE RestoreEnds(c)
  BY <1>16 DEF RestoreEnds, Goes, Leave, history, callVars, actorVars
<1> QED
  BY <1>1, <1>2, <1>3, <1>4, <1>5, <1>6, <1>7, <1>8, <1>9, <1>10, <1>11, <1>12, <1>13,
     <1>14, <1>15, <1>16 DEF RestoreStep

-----------------------------------------------------------------------------
(* The mirror.                                                              *)

\* No step takes a file from the mirror or touches a whole one.
MirrorKept ==
    \A n \in Names :
        file[Backup(n)] # None =>
            /\ file'[Backup(n)] # None
            /\ file[Backup(n)].whole => file'[Backup(n)] = file[Backup(n)]

\* The sync job opens copies where the mirror has nothing, and writes what it opened.
LEMMA MirrorStep ==
    Types /\ Writers /\ MirrorAt /\ [Next]_vars
  => MirrorAt' /\ MirrorKept
<1> SUFFICES ASSUME Types, Writers, MirrorAt, [Next]_vars
             PROVE  MirrorAt' /\ MirrorKept
  OBVIOUS
<1>t. FileTypes /\ ControlTypes /\ CallTypes
  BY TypeParts
<1> USE ActorFacts
<1>1. ASSUME NEW c \in Callers, RestoreStep(c) PROVE  MirrorAt' /\ MirrorKept
  <2>1. /\ \A n \in Names : file'[Backup(n)] = file[Backup(n)]
        /\ UNCHANGED plan /\ pc'[Sync] = pc[Sync] /\ asset'[Sync] = asset[Sync]
    <3>1. \A n \in Names : file'[Backup(n)] = file[Backup(n)]
      BY <1>1, RestoreTouches, PathFacts, Apart
    <3> QED
      BY <1>1, <3>1, RestoreLeaves DEF syncVars
  <2> QED
    BY <1>t, <2>1 DEF MirrorAt, MirrorKept, CallTypes, ControlTypes
<1>2. ASSUME NEW a \in Assets, ImmichWrites(a) PROVE  MirrorAt' /\ MirrorKept
  <2>1. /\ \A n \in Names : file'[Backup(n)] = file[Backup(n)]
        /\ UNCHANGED plan /\ pc'[Sync] = pc[Sync] /\ asset'[Sync] = asset[Sync]
    BY <1>2, <1>t, PathFacts DEF ImmichWrites, FileTypes, syncVars
  <2> QED
    BY <1>t, <2>1 DEF MirrorAt, MirrorKept, CallTypes, ControlTypes
<1>3. CASE SyncReview
  <2>1. plan' = {n \in Names : SyncEligible(n)} /\ UNCHANGED file /\ pc'[Sync] = "next"
    BY <1>3, <1>t DEF SyncReview, Goes, ControlTypes
  <2> QED
    BY <1>t, <2>1 DEF SyncEligible, MissingInBackup, Exists, MirrorAt, MirrorKept
<1>4. CASE SyncOpen
  <2>1. PICK n \in plan : /\ OpenCopy(Sync, Library(n), Backup(n))
                          /\ plan' = plan \ {n} /\ asset' = [asset EXCEPT ![Sync] = n]
    BY <1>4 DEF SyncOpen
  <2>2. n \in Names /\ Library(n) \in Paths /\ Backup(n) \in Paths
    BY <1>t, PathFacts DEF CallTypes
  <2>3. PICK part \in Content : ~part.whole /\ file' = [file EXCEPT ![Backup(n)] = part]
    BY <1>t, <2>1, <2>2, OpenFacts
  <2>4. /\ file'[Backup(n)] # None /\ ~file'[Backup(n)].whole
        /\ \A m \in Names \ {n} : file'[Backup(m)] = file[Backup(m)]
    BY <1>t, <2>2, <2>3, PathFacts, NamesAssumption DEF FileTypes
  <2>5. asset'[Sync] = n /\ file[Backup(n)] = None
    BY <1>t, <2>1 DEF MirrorAt, ControlTypes
  <2>6. \A m \in plan' : m \in Names \ {n} /\ m \in plan
    BY <1>t, <2>1 DEF CallTypes
  <2>7. MirrorAt'
    BY <2>4, <2>5, <2>6 DEF MirrorAt
  <2>8. MirrorKept
    BY <2>4, <2>5 DEF MirrorKept
  <2> QED
    BY <2>7, <2>8
<1>5. CASE SyncClose
  <2>1. pc[Sync] = "close" /\ open[Sync] = Backup(asset[Sync]) /\ copied[Sync] # None
    BY <1>5 DEF SyncClose, Writers
  <2>2. asset[Sync] \in Names
    BY <1>t, <2>1 DEF ControlTypes
  <2>3. PICK kept \in Content : file' = [file EXCEPT ![Backup(asset[Sync])] = kept]
    BY <1>5, <1>t, <2>1, <2>2, PathFacts, NamesAssumption, CloseFacts DEF SyncClose
  <2>4. /\ file'[Backup(asset[Sync])] # None
        /\ \A m \in Names \ {asset[Sync]} : file'[Backup(m)] = file[Backup(m)]
    BY <1>t, <2>2, <2>3, PathFacts, NamesAssumption DEF FileTypes
  <2>5. UNCHANGED plan /\ pc'[Sync] = "verify"
    BY <1>5, <1>t DEF SyncClose, Goes, syncVars, ControlTypes
  <2> QED
    BY <1>t, <2>1, <2>2, <2>4, <2>5 DEF MirrorAt, MirrorKept, CallTypes
<1>6. CASE SyncVerify \/ SyncFails \/ SyncEnds \/ Crash
  <2>1. UNCHANGED file /\ plan' \subseteq plan /\ pc'[Sync] # "close"
    BY <1>6, <1>t DEF SyncVerify, SyncFails, SyncEnds, Crash, Goes, ControlTypes
  <2> QED
    BY <1>t, <2>1 DEF MirrorAt, MirrorKept, CallTypes
<1>7. CASE Tick \/ UNCHANGED vars
  BY <1>7 DEF Tick, vars, actorVars, syncVars, MirrorAt, MirrorKept
<1> QED
  BY <1>1, <1>2, <1>3, <1>4, <1>5, <1>6, <1>7 DEF Next, SyncStep

-----------------------------------------------------------------------------
(* Versions.                                                                *)

\* What was spent stays spent, and is written by nothing but Spend.
LEMMA SpentGrows ==
    Types /\ [Next]_vars
  => spent["writes"] \in Nat /\ spent'["writes"] \in Nat /\ spent["writes"] <= spent'["writes"]
<1> SUFFICES ASSUME Types, [Next]_vars
             PROVE  spent["writes"] \in Nat /\ spent'["writes"] \in Nat /\ spent["writes"] <= spent'["writes"]
  OBVIOUS
<1>t. spent \in [Bounded -> Nat] /\ "writes" \in Bounded
  BY DEF Types, TypeOK, Bounded
<1>s. (\E b \in Bounded : Spend(b)) \/ spent' = spent
  <2>1. ASSUME SyncReview PROVE  (\E b \in Bounded : Spend(b)) \/ spent' = spent
    BY <2>1 DEF SyncReview, Bounded, vars
  <2>2. ASSUME SyncOpen PROVE  (\E b \in Bounded : Spend(b)) \/ spent' = spent
    BY <2>2 DEF SyncOpen, Bounded, vars
  <2>3. ASSUME SyncClose PROVE  (\E b \in Bounded : Spend(b)) \/ spent' = spent
    BY <2>3 DEF SyncClose, Bounded, vars
  <2>4. ASSUME SyncVerify PROVE  (\E b \in Bounded : Spend(b)) \/ spent' = spent
    BY <2>4 DEF SyncVerify, Bounded, vars
  <2>5. ASSUME SyncFails PROVE  (\E b \in Bounded : Spend(b)) \/ spent' = spent
    BY <2>5 DEF SyncFails, Bounded, vars
  <2>6. ASSUME SyncEnds PROVE  (\E b \in Bounded : Spend(b)) \/ spent' = spent
    BY <2>6 DEF SyncEnds, Bounded, vars
  <2>7. ASSUME NEW c \in Callers, RestoreReview(c)
        PROVE  (\E b \in Bounded : Spend(b)) \/ spent' = spent
    BY <2>7 DEF RestoreReview, Bounded, vars
  <2>8. ASSUME NEW c \in Callers, RestoreSkip(c)
        PROVE  (\E b \in Bounded : Spend(b)) \/ spent' = spent
    BY <2>8 DEF RestoreSkip, Bounded, vars
  <2>9. ASSUME NEW c \in Callers, RestoreBegin(c)
        PROVE  (\E b \in Bounded : Spend(b)) \/ spent' = spent
    BY <2>9 DEF RestoreBegin, Bounded, vars
  <2>10. ASSUME NEW c \in Callers, MoveOpen(c)
        PROVE  (\E b \in Bounded : Spend(b)) \/ spent' = spent
    BY <2>10 DEF MoveOpen, Bounded, vars
  <2>11. ASSUME NEW c \in Callers, MoveUnlink(c)
        PROVE  (\E b \in Bounded : Spend(b)) \/ spent' = spent
    BY <2>11 DEF MoveUnlink, Bounded, vars
  <2>12. ASSUME NEW c \in Callers, TempOpen(c)
        PROVE  (\E b \in Bounded : Spend(b)) \/ spent' = spent
    BY <2>12 DEF TempOpen, Bounded, vars
  <2>13. ASSUME NEW c \in Callers, RestoreClose(c)
        PROVE  (\E b \in Bounded : Spend(b)) \/ spent' = spent
    BY <2>13 DEF RestoreClose, Bounded, vars
  <2>14. ASSUME NEW c \in Callers, RestoreReplace(c)
        PROVE  (\E b \in Bounded : Spend(b)) \/ spent' = spent
    BY <2>14 DEF RestoreReplace, Bounded, vars
  <2>15. ASSUME NEW c \in Callers, RestoreVerify(c)
        PROVE  (\E b \in Bounded : Spend(b)) \/ spent' = spent
    BY <2>15 DEF RestoreVerify, Bounded, vars
  <2>16. ASSUME NEW c \in Callers, RestoreRaises(c)
        PROVE  (\E b \in Bounded : Spend(b)) \/ spent' = spent
    BY <2>16 DEF RestoreRaises, Bounded, vars
  <2>17. ASSUME NEW c \in Callers, RestoreCleanup(c)
        PROVE  (\E b \in Bounded : Spend(b)) \/ spent' = spent
    BY <2>17 DEF RestoreCleanup, Bounded, vars
  <2>18. ASSUME NEW c \in Callers, Rollback(c)
        PROVE  (\E b \in Bounded : Spend(b)) \/ spent' = spent
    BY <2>18 DEF Rollback, Bounded, vars
  <2>19. ASSUME NEW c \in Callers, MoveBackOpen(c)
        PROVE  (\E b \in Bounded : Spend(b)) \/ spent' = spent
    BY <2>19 DEF MoveBackOpen, Bounded, vars
  <2>20. ASSUME NEW c \in Callers, MoveBackUnlink(c)
        PROVE  (\E b \in Bounded : Spend(b)) \/ spent' = spent
    BY <2>20 DEF MoveBackUnlink, Bounded, vars
  <2>21. ASSUME NEW c \in Callers, RollbackRaises(c)
        PROVE  (\E b \in Bounded : Spend(b)) \/ spent' = spent
    BY <2>21 DEF RollbackRaises, Bounded, vars
  <2>22. ASSUME NEW c \in Callers, RestoreEnds(c)
        PROVE  (\E b \in Bounded : Spend(b)) \/ spent' = spent
    BY <2>22 DEF RestoreEnds, Bounded, vars
  <2>23. ASSUME NEW a \in Assets, ImmichWrites(a)
        PROVE  (\E b \in Bounded : Spend(b)) \/ spent' = spent
    BY <2>23 DEF ImmichWrites, Bounded, vars
  <2>24. ASSUME Tick PROVE  (\E b \in Bounded : Spend(b)) \/ spent' = spent
    BY <2>24 DEF Tick, Bounded, vars
  <2>25. ASSUME Crash PROVE  (\E b \in Bounded : Spend(b)) \/ spent' = spent
    BY <2>25 DEF Crash, Bounded, vars
  <2>26. CASE UNCHANGED vars
    BY <2>26 DEF Bounded, vars
  <2> QED
    BY <2>1, <2>2, <2>3, <2>4, <2>5, <2>6, <2>7, <2>8, <2>9, <2>10, <2>11, <2>12, <2>13,
       <2>14, <2>15, <2>16, <2>17, <2>18, <2>19, <2>20, <2>21, <2>22, <2>23, <2>24, <2>25, <2>26 DEF Next, SyncStep, RestoreStep
<1>1. CASE spent' = spent
  BY <1>t, <1>1
<1>2. ASSUME NEW b \in Bounded, Spend(b)
      PROVE  spent'["writes"] \in Nat /\ spent["writes"] <= spent'["writes"]
  BY <1>t, <1>2 DEF Spend
<1> QED
  BY <1>t, <1>s, <1>1, <1>2

-----------------------------------------------------------------------------
(* Where the content of a restored asset comes from.                        *)

\* What a restore leaves in a file is of a version another file of the asset, or its
\* copy in the mirror, has, or of the one it is copying.
Sources(a) == {q \in PathsOf(a) \cup {Backup(a)} : file[q] # None}
FromSources(c, content) ==
    \/ \E q \in Sources(asset[c]) : content.version = file[q].version
    \/ pc[c] \in Copying /\ copied[c] # None /\ content.version = copied[c].version

LEMMA RestoreMoves ==
  ASSUME Types, Writers, NEW c \in Callers, RestoreStep(c)
  PROVE  /\ \A p \in Paths :
               file'[p] # None => file'[p] = file[p] \/ FromSources(c, file'[p])
         /\ pc'[c] \in Copying =>
               asset'[c] = asset[c] /\ \E q \in Sources(asset[c]) : copied'[c] = file[q]
<1> DEFINE Moved == \A p \in Paths :
                       file'[p] # None => file'[p] = file[p] \/ FromSources(c, file'[p])
           Read == pc'[c] \in Copying =>
                      /\ asset'[c] = asset[c]
                      /\ \E q \in Sources(asset[c]) : copied'[c] = file[q]
<1> SUFFICES Moved /\ Read
  OBVIOUS
<1>t. FileTypes /\ ControlTypes /\ CallTypes
  BY TypeParts
<1> USE ActorFacts
<1>1. CASE RestoreReview(c)
  BY <1>1, <1>t DEF RestoreReview, Leave, Goes, actorVars, ControlTypes, FirstStep, Copying
<1>2. CASE RestoreSkip(c)
  BY <1>2, <1>t DEF RestoreSkip, Leave, Goes, actorVars, ControlTypes, FirstStep, Copying
<1>3. CASE RestoreBegin(c)
  BY <1>3, <1>t DEF RestoreBegin, Leave, Goes, actorVars, ControlTypes, FirstStep, Copying
<1>4. CASE MoveOpen(c)
  <2>1. pc[c] \notin {"idle", "next"}
    BY <1>4 DEF MoveOpen
  <2>2. PICK part \in Content : /\ part.version = file[Library(asset[c])].version
                                /\ file' = [file EXCEPT ![Quarantine(asset[c], stamp[c])] = part]
    BY <1>4, <1>t, <2>1, AtWork, OpenFacts DEF MoveOpen
  <2>3. copied'[c] = file[Library(asset[c])] /\ UNCHANGED asset
    BY <1>4, <1>t DEF MoveOpen, OpenCopy, FileTypes
  <2>4. Library(asset[c]) \in Sources(asset[c])
    BY <1>4, <1>t, <2>1, AtWork, Apart DEF MoveOpen, OpenCopy, Exists, Sources
  <2>5. Moved
    BY <1>t, <2>2, <2>4 DEF FileTypes, FromSources
  <2> QED
    BY <2>3, <2>4, <2>5
<1>5. CASE MoveUnlink(c)
  <2>1. pc[c] \notin {"idle", "next"}
    BY <1>5 DEF MoveUnlink
  <2>2. \A p \in Paths : file'[p] \in {None, file[p]}
    BY <1>5, <1>t, <2>1, AtWork DEF MoveUnlink, Unlink, FileTypes
  <2>3. pc'[c] \notin Copying
    BY <1>5, <1>t DEF MoveUnlink, Leave, Goes, ControlTypes, Copying
  <2> QED
    BY <2>2, <2>3
<1>6. CASE TempOpen(c)
  <2>1. pc[c] \notin {"idle", "next"}
    BY <1>6 DEF TempOpen
  <2>2. PICK part \in Content : /\ part.version = file[Backup(asset[c])].version
                                /\ file' = [file EXCEPT ![Library(Tmp(asset[c]))] = part]
    BY <1>6, <1>t, <2>1, AtWork, OpenFacts DEF TempOpen
  <2>3. copied'[c] = file[Backup(asset[c])] /\ UNCHANGED asset
    BY <1>6, <1>t DEF TempOpen, OpenCopy, FileTypes
  <2>4. Backup(asset[c]) \in Sources(asset[c])
    BY <1>6, <1>t, <2>1, AtWork, Apart DEF TempOpen, OpenCopy, Exists, Sources
  <2>5. Moved
    BY <1>t, <2>2, <2>4 DEF FileTypes, FromSources
  <2> QED
    BY <2>3, <2>4, <2>5
<1>7. CASE RestoreClose(c)
  <2>1. (open[c] # None => copied[c] # None) /\ CloseCopy(c) /\ pc[c] \in Copying
    BY <1>7 DEF RestoreClose, Writers, Copying
  <2>2. \/ file' = file
        \/ \E kept \in Content : /\ open[c] # None /\ kept.version = copied[c].version
                                 /\ file' = [file EXCEPT ![open[c]] = kept]
    BY <1>t, <2>1, CloseFacts
  <2>3. Moved
    BY <1>t, <2>1, <2>2 DEF FileTypes, FromSources
  <2>4. pc'[c] \notin Copying
    BY <1>7, <1>t DEF RestoreClose, Goes, ControlTypes, AfterClose, Copying
  <2> QED
    BY <2>3, <2>4
<1>8. CASE RestoreReplace(c)
  <2> DEFINE from == Library(Tmp(asset[c]))
             to == Library(asset[c])
  <2>1. pc[c] \notin {"idle", "next"}
    BY <1>8 DEF RestoreReplace
  <2>2. from \in Paths /\ to \in Paths /\ from # to /\ from \in PathsOf(asset[c])
    BY <1>t, <2>1, AtWork, Apart
  <2>3. Replace(from, to) /\ pc'[c] \notin Copying
    BY <1>8, <1>t DEF RestoreReplace, Goes, ControlTypes, Copying
  <2> HIDE DEF from, to
  <2>4. file[from] # None /\ \A p \in Paths : file'[p] \in {None, file[p], file[from]}
    BY <1>t, <2>2, <2>3, ReplaceFacts DEF Replace, Exists
  <2> QED
    BY <2>2, <2>3, <2>4 DEF Sources, FromSources
<1>9. CASE RestoreVerify(c)
  BY <1>9, <1>t DEF RestoreVerify, Leave, Goes, actorVars, ControlTypes, FirstStep, Copying
<1>10. CASE RestoreRaises(c)
  BY <1>10, <1>t DEF RestoreRaises, Leave, Goes, actorVars, ControlTypes, FirstStep, Copying
<1>11. CASE RestoreCleanup(c)
  <2>1. pc[c] \notin {"idle", "next"}
    BY <1>11 DEF RestoreCleanup
  <2>2. \A p \in Paths : file'[p] \in {None, file[p]}
    BY <1>11, <1>t, <2>1, AtWork DEF RestoreCleanup, Unlink, FileTypes
  <2>3. pc'[c] \notin Copying
    BY <1>11, <1>t DEF RestoreCleanup, Leave, Goes, ControlTypes, Copying
  <2> QED
    BY <2>2, <2>3
<1>12. CASE Rollback(c)
  <2>1. UNCHANGED file
    BY <1>12 DEF Rollback
  <2>2. CASE MayRollBack(c)
    BY <1>12, <1>t, <2>1, <2>2 DEF Rollback, Goes, ControlTypes, Copying
  <2>3. CASE ~MayRollBack(c)
    BY <1>12, <1>t, <2>1, <2>3 DEF Rollback, Leave, Goes, ControlTypes, Copying
  <2> QED
    BY <2>2, <2>3
<1>13. CASE MoveBackOpen(c)
  <2>1. pc[c] \notin {"idle", "next"}
    BY <1>13 DEF MoveBackOpen
  <2>2. PICK part \in Content : /\ part.version = file[Quarantine(asset[c], stamp[c])].version
                                /\ file' = [file EXCEPT ![Library(asset[c])] = part]
    BY <1>13, <1>t, <2>1, AtWork, OpenFacts DEF MoveBackOpen
  <2>3. copied'[c] = file[Quarantine(asset[c], stamp[c])] /\ UNCHANGED asset
    BY <1>13, <1>t DEF MoveBackOpen, OpenCopy, FileTypes
  <2>4. Quarantine(asset[c], stamp[c]) \in Sources(asset[c])
    BY <1>13, <1>t, <2>1, AtWork, Apart DEF MoveBackOpen, OpenCopy, Exists, Sources
  <2>5. Moved
    BY <1>t, <2>2, <2>4 DEF FileTypes, FromSources
  <2> QED
    BY <2>3, <2>4, <2>5
<1>14. CASE MoveBackUnlink(c)
  <2>1. pc[c] \notin {"idle", "next"}
    BY <1>14 DEF MoveBackUnlink
  <2>2. \A p \in Paths : file'[p] \in {None, file[p]}
    BY <1>14, <1>t, <2>1, AtWork DEF MoveBackUnlink, Unlink, FileTypes
  <2>3. pc'[c] \notin Copying
    BY <1>14, <1>t DEF MoveBackUnlink, Leave, Goes, ControlTypes, Copying
  <2> QED
    BY <2>2, <2>3
<1>15. CASE RollbackRaises(c)
  BY <1>15, <1>t DEF RollbackRaises, Leave, Goes, actorVars, ControlTypes, FirstStep, Copying
<1>16. CASE RestoreEnds(c)
  BY <1>16, <1>t DEF RestoreEnds, Leave, Goes, actorVars, ControlTypes, FirstStep, Copying
<1> QED
  BY <1>1, <1>2, <1>3, <1>4, <1>5, <1>6, <1>7, <1>8, <1>9, <1>10, <1>11, <1>12, <1>13,
     <1>14, <1>15, <1>16 DEF RestoreStep

\* Copies are of versions there are; only Immich makes a new one.
LEMMA NumberedStep ==
    Types /\ Types' /\ Writers /\ Numbered /\ [Next]_vars
  => Numbered'
<1> SUFFICES ASSUME Types, Types', Writers, Numbered, [Next]_vars
             PROVE  Numbered'
  OBVIOUS
<1>t. FileTypes /\ ControlTypes /\ CallTypes
  BY TypeParts
<1> USE ActorFacts
<1> DEFINE Later(x) == x # None => x.version < spent'["writes"] + 2
<1>x. \A x \in Content \cup {None} : Known(x) => Later(x)
  <2>1. \A x \in Content : x.version \in Nat
    BY BoundsAssumption DEF Content, Versions
  <2> QED
    BY <2>1, SpentGrows DEF Known
<1>y. /\ \A p \in Paths : file'[p] \in Content \cup {None}
      /\ \A c \in Actors : copied'[c] \in Content \cup {None}
      /\ \A n \in Names : reviewed'[n] \in Content \cup {None}
  BY DEF Types, TypeOK
<1>o. ASSUME \A p \in Paths : Known(file'[p]),
             \A c \in Actors : pc'[c] \in Copying \cup {"close"} => Known(copied'[c]),
             \A n \in Names : Known(reviewed'[n])
      PROVE  Numbered'
  <2>1. /\ \A p \in Paths : Later(file'[p])
        /\ \A c \in Actors : pc'[c] \in Copying \cup {"close"} => Later(copied'[c])
        /\ \A n \in Names : Later(reviewed'[n])
    BY <1>o, <1>x, <1>y
  <2> QED
    BY <2>1 DEF Numbered, Known
<1>1. ASSUME NEW c \in Callers, RestoreStep(c) PROVE Numbered'
  <2>1. asset[c] \in Assets => \A q \in Sources(asset[c]) : q \in Paths /\ file[q] # None
    BY Apart, PathFacts DEF Sources
  <2>2. ASSUME NEW p \in Paths, file'[p] # None, file'[p] # file[p] PROVE Known(file'[p])
    <3>1. asset[c] \in Assets /\ FromSources(c, file'[p])
      BY <1>1, <2>2, RestoreMoves, RestoreTouches
    <3> QED
      BY <2>1, <2>2, <3>1 DEF FromSources, Numbered, Known
  <2>3. pc'[c] \in Copying => Known(copied'[c])
    <3>1. pc'[c] \in Copying => asset'[c] \in Assets
      BY DEF Types, TypeOK, Copying
    <3> QED
      BY <1>1, <2>1, <3>1, RestoreMoves DEF Numbered, Known
  <2>4. /\ \A d \in Actors \ {c} : pc'[d] = pc[d] /\ copied'[d] = copied[d]
        /\ UNCHANGED reviewed /\ pc'[c] # "close"
    BY <1>1, RestoreLeaves DEF syncVars, Types, RestoreSteps
  <2>5. \A p \in Paths : Known(file'[p])
    BY <2>2 DEF Numbered, Known
  <2> QED
    BY <1>o, <2>3, <2>4, <2>5 DEF Numbered
<1>2. ASSUME NEW a \in Assets, ImmichWrites(a) PROVE Numbered'
  <2>1. PICK new \in {None, Whole(spent["writes"] + 2)} :
           file' = [file EXCEPT ![Library(a)] = new]
    BY <1>2 DEF ImmichWrites
  <2>2. Later(new)
    <3>1. spent'["writes"] = spent["writes"] + 1 /\ spent["writes"] \in Nat
      BY <1>2, <1>t DEF ImmichWrites, Spend, CallTypes, Bounded
    <3> QED
      BY <2>1, <3>1 DEF Whole
  <2>3. UNCHANGED <<pc, copied, reviewed>>
    BY <1>2 DEF ImmichWrites, syncVars
  <2>4. \A p \in Paths : file'[p] = new \/ file'[p] = file[p]
    BY <1>t, <2>1 DEF FileTypes
  <2>5. \A p \in Paths : Later(file'[p])
    BY <1>x, <1>y, <2>2, <2>4 DEF Numbered
  <2>6. /\ \A c \in Actors : pc'[c] \in Copying \cup {"close"} => Later(copied'[c])
        /\ \A n \in Names : Later(reviewed'[n])
    BY <1>x, <1>y, <2>3 DEF Numbered
  <2> QED
    BY <2>5, <2>6 DEF Numbered, Known
<1>3. CASE SyncOpen
  <2>1. PICK n \in plan : OpenCopy(Sync, Library(n), Backup(n))
    BY <1>3 DEF SyncOpen
  <2>2. Library(n) \in Paths /\ Backup(n) \in Paths
    BY <1>t, PathFacts DEF CallTypes
  <2>3. PICK part \in Content : /\ part.version = file[Library(n)].version
                                /\ file' = [file EXCEPT ![Backup(n)] = part]
    BY <1>t, <2>1, <2>2, OpenFacts
  <2>4. /\ copied' = [copied EXCEPT ![Sync] = file[Library(n)]] /\ UNCHANGED reviewed
        /\ file[Library(n)] # None /\ pc' = [pc EXCEPT ![Sync] = "close"]
    BY <1>3, <2>1 DEF SyncOpen, OpenCopy, Exists, Goes
  <2>5. \A p \in Paths : Known(file'[p])
    BY <1>t, <2>2, <2>3, <2>4 DEF Numbered, Known, FileTypes
  <2>6. \A c \in Actors : pc'[c] \in Copying \cup {"close"} => Known(copied'[c])
    BY <1>t, <2>2, <2>4 DEF Numbered, FileTypes, ControlTypes
  <2> QED
    BY <1>o, <2>4, <2>5, <2>6 DEF Numbered
<1>4. CASE SyncClose
  <2>1. /\ open[Sync] = Backup(asset[Sync]) /\ copied[Sync] # None /\ asset[Sync] \in Names
        /\ pc[Sync] = "close" /\ pc' = [pc EXCEPT ![Sync] = "verify"] /\ UNCHANGED reviewed
        /\ CloseCopy(Sync)
    BY <1>4, <1>t DEF SyncClose, Writers, ControlTypes, Goes, syncVars
  <2>2. PICK kept \in Content : /\ kept.version = copied[Sync].version
                                /\ file' = [file EXCEPT ![Backup(asset[Sync])] = kept]
    BY <1>t, <2>1, PathFacts, NamesAssumption, CloseFacts
  <2>3. copied' = [copied EXCEPT ![Sync] = None]
    BY <2>1 DEF CloseCopy
  <2>4. Known(kept)
    BY <2>1, <2>2 DEF Numbered, Known
  <2>5. \A p \in Paths : Known(file'[p])
    BY <1>t, <2>2, <2>4 DEF Numbered, FileTypes
  <2>6. \A c \in Actors : pc'[c] \in Copying \cup {"close"} => Known(copied'[c])
    BY <1>t, <2>1, <2>3 DEF Numbered, FileTypes, ControlTypes, Copying
  <2> QED
    BY <1>o, <2>1, <2>5, <2>6 DEF Numbered
<1>5. CASE SyncReview \/ SyncVerify \/ SyncFails \/ SyncEnds
  <2>1. /\ UNCHANGED file /\ pc'[Sync] \in {"next", "idle"}
        /\ \A d \in Callers : pc'[d] = pc[d] /\ copied'[d] = copied[d]
        /\ UNCHANGED reviewed \/ reviewed' = [n \in Names |-> file[Library(n)]]
    BY <1>5, <1>t DEF SyncReview, SyncVerify, SyncFails, SyncEnds, Goes, ControlTypes, FileTypes
  <2>2. \A n \in Names : Known(reviewed'[n])
    BY <2>1, PathFacts DEF Numbered
  <2> QED
    BY <1>o, <2>1, <2>2 DEF Numbered, Actors, Copying
<1>6. CASE Crash
  <2>1. UNCHANGED <<file, reviewed>> /\ \A c \in Actors : pc'[c] = "idle"
    BY <1>6 DEF Crash
  <2> QED
    BY <1>o, <2>1 DEF Numbered, Copying
<1>7. CASE Tick \/ UNCHANGED vars
  <2>1. UNCHANGED <<file, pc, copied, reviewed>>
    BY <1>7 DEF Tick, vars, actorVars, syncVars
  <2> QED
    BY <1>o, <2>1 DEF Numbered
<1> QED
  BY <1>1, <1>2, <1>3, <1>4, <1>5, <1>6, <1>7 DEF Next, SyncStep

\* A restore takes up, or finds eligible, only assets that have a copy in the mirror.
LEMMA RestoreTakes ==
  ASSUME Types, NEW c \in Callers, RestoreStep(c), NEW a \in Assets, file[Backup(a)] = None
  PROVE  /\ asset'[c] = a => asset[c] = a
         /\ a \in eligible'[c] => a \in eligible[c]
<1>t. FileTypes /\ ControlTypes /\ CallTypes
  BY TypeParts
<1> USE ActorFacts
<1>1. CASE RestoreReview(c)
  <2>1. eligible'[c] = {n \in Names : RestoreEligible(n)} /\ UNCHANGED asset
    BY <1>1, <1>t DEF RestoreReview, CallTypes
  <2> QED
    BY <2>1 DEF RestoreEligible, RestoreCandidate, Mismatch, Exists
<1>2. CASE RestoreSkip(c)
  BY <1>2, <1>t, PathFacts, NamesAssumption DEF RestoreSkip, Leave, actorVars, callVars, ControlTypes
<1>3. CASE RestoreBegin(c)
  <2>1. /\ asset' = [asset EXCEPT ![c] = Head(todo[c])] /\ Exists(Backup(Head(todo[c])))
        /\ UNCHANGED eligible
    BY <1>3 DEF RestoreBegin
  <2> QED
    BY <1>t, <2>1 DEF Exists, ControlTypes
<1>4. CASE MoveOpen(c)
  BY <1>4, <1>t, PathFacts, NamesAssumption DEF MoveOpen, Leave, actorVars, callVars, ControlTypes
<1>5. CASE MoveUnlink(c)
  BY <1>5, <1>t, PathFacts, NamesAssumption DEF MoveUnlink, Leave, actorVars, callVars, ControlTypes
<1>6. CASE TempOpen(c)
  BY <1>6, <1>t, PathFacts, NamesAssumption DEF TempOpen, Leave, actorVars, callVars, ControlTypes
<1>7. CASE RestoreClose(c)
  BY <1>7, <1>t, PathFacts, NamesAssumption DEF RestoreClose, Leave, actorVars, callVars, ControlTypes
<1>8. CASE RestoreReplace(c)
  BY <1>8, <1>t, PathFacts, NamesAssumption DEF RestoreReplace, Leave, actorVars, callVars, ControlTypes
<1>9. CASE RestoreVerify(c)
  BY <1>9, <1>t, PathFacts, NamesAssumption DEF RestoreVerify, Leave, actorVars, callVars, ControlTypes
<1>10. CASE RestoreRaises(c)
  BY <1>10, <1>t, PathFacts, NamesAssumption DEF RestoreRaises, Leave, actorVars, callVars, ControlTypes
<1>11. CASE RestoreCleanup(c)
  BY <1>11, <1>t, PathFacts, NamesAssumption DEF RestoreCleanup, Leave, actorVars, callVars, ControlTypes
<1>12. CASE Rollback(c)
  <2>1. asset'[c] \in {asset[c], None} /\ UNCHANGED eligible
    BY <1>12, <1>t DEF Rollback, Leave, Goes, ControlTypes, callVars
  <2> QED
    BY <2>1, PathFacts, NamesAssumption
<1>13. CASE MoveBackOpen(c)
  BY <1>13, <1>t, PathFacts, NamesAssumption DEF MoveBackOpen, Leave, actorVars, callVars, ControlTypes
<1>14. CASE MoveBackUnlink(c)
  BY <1>14, <1>t, PathFacts, NamesAssumption DEF MoveBackUnlink, Leave, actorVars, callVars, ControlTypes
<1>15. CASE RollbackRaises(c)
  BY <1>15, <1>t, PathFacts, NamesAssumption DEF RollbackRaises, Leave, actorVars, callVars, ControlTypes
<1>16. CASE RestoreEnds(c)
  BY <1>16, <1>t DEF RestoreEnds, CallTypes
<1> QED
  BY <1>1, <1>2, <1>3, <1>4, <1>5, <1>6, <1>7, <1>8, <1>9, <1>10, <1>11, <1>12, <1>13,
     <1>14, <1>15, <1>16 DEF RestoreStep

\* Before there is a copy in the mirror, nothing of a restore is there.
LEMMA PristineStep ==
    Types /\ Writers /\ MirrorAt /\ Pristine /\ [Next]_vars
  => Pristine'
<1> SUFFICES ASSUME Types, Writers, MirrorAt, Pristine, [Next]_vars
             PROVE  Pristine'
  OBVIOUS
<1>t. FileTypes /\ ControlTypes /\ CallTypes
  BY TypeParts
<1> USE ActorFacts
<1> SUFFICES ASSUME NEW a \in Assets, file'[Backup(a)] = None
             PROVE  Untouched(a)'
  BY DEF Pristine
<1>u. file[Backup(a)] = None /\ Untouched(a)
  BY MirrorStep, PathFacts DEF MirrorKept, Pristine
<1>o. ASSUME /\ file'[Library(Tmp(a))] = file[Library(Tmp(a))]
             /\ \A s \in 0 .. MaxTime : file'[Quarantine(a, s)] = file[Quarantine(a, s)]
             /\ \A c \in Callers : asset'[c] # a /\ a \notin eligible'[c]
      PROVE  Untouched(a)'
  BY <1>u, <1>o DEF Untouched
<1>1. ASSUME NEW c \in Callers, RestoreStep(c) PROVE Untouched(a)'
  <2>1. \A p \in PathsOf(a) : file'[p] = file[p]
    BY <1>1, <1>u, RestoreTouches, Apart DEF Untouched
  <2>2. \A d \in Callers : asset'[d] # a /\ a \notin eligible'[d]
    BY <1>1, <1>u, RestoreTakes, RestoreLeaves DEF Untouched
  <2> QED
    BY <1>o, <2>1, <2>2, Apart
<1>2. ASSUME NEW b \in Assets, ImmichWrites(b) PROVE Untouched(a)'
  <2>1. \A p \in Paths \ {Library(b)} : file'[p] = file[p]
    BY <1>2, <1>t DEF ImmichWrites, FileTypes
  <2>2. Library(Tmp(a)) # Library(b) /\ \A s \in 0 .. MaxTime : Quarantine(a, s) # Library(b)
    BY PathFacts
  <2>3. UNCHANGED <<asset, eligible>>
    BY <1>2 DEF ImmichWrites, callVars
  <2> QED
    BY <1>o, <1>u, <2>1, <2>2, <2>3, PathFacts DEF Untouched
<1>3. CASE SyncOpen
  <2>1. PICK n \in plan : OpenCopy(Sync, Library(n), Backup(n)) /\ asset' = [asset EXCEPT ![Sync] = n]
    BY <1>3 DEF SyncOpen
  <2>2. \A p \in Paths : (\A n1 \in Names : p # Backup(n1)) => file'[p] = file[p]
    BY <1>t, <2>1 DEF OpenCopy, FileTypes, CallTypes
  <2>3. UNCHANGED eligible /\ \A c \in Callers : asset'[c] = asset[c]
    BY <1>3, <1>t, <2>1 DEF SyncOpen, callVars, ControlTypes
  <2> QED
    BY <1>o, <1>u, <2>2, <2>3, PathFacts DEF Untouched
<1>4. CASE SyncClose
  <2>1. open[Sync] = Backup(asset[Sync]) /\ copied[Sync] # None /\ asset[Sync] \in Names
    BY <1>4, <1>t DEF SyncClose, Writers, ControlTypes
  <2>2. \A p \in Paths : (\A n1 \in Names : p # Backup(n1)) => file'[p] = file[p]
    BY <1>4, <1>t, <2>1, CloseFacts DEF SyncClose, FileTypes
  <2>3. UNCHANGED <<asset, eligible>>
    BY <1>4 DEF SyncClose, callVars
  <2> QED
    BY <1>o, <1>u, <2>2, <2>3, PathFacts DEF Untouched
<1>5. CASE SyncReview \/ SyncVerify \/ SyncFails \/ SyncEnds
  <2>1. UNCHANGED <<file, eligible>> /\ \A c \in Callers : asset'[c] = asset[c]
    BY <1>5, <1>t DEF SyncReview, SyncVerify, SyncFails, SyncEnds, callVars, ControlTypes
  <2> QED
    BY <1>o, <1>u, <2>1 DEF Untouched
<1>6. CASE Crash
  <2>1. UNCHANGED file /\ \A c \in Callers : asset'[c] = None /\ eligible'[c] = {}
    BY <1>6 DEF Crash
  <2> QED
    BY <1>o, <2>1, PathFacts, NamesAssumption
<1>7. CASE Tick \/ UNCHANGED vars
  BY <1>7, <1>o, <1>u DEF Tick, vars, actorVars, callVars, Untouched
<1> QED
  BY <1>1, <1>2, <1>3, <1>4, <1>5, <1>6, <1>7 DEF Next, SyncStep

\* A version that is gone does not come back.
LEMMA GoneStep ==
  ASSUME Types, Types', Writers, Numbered, [Next]_vars, NEW a \in Assets,
         reviewed[a] # None, reviewed'[a] = reviewed[a], Gone(a)
  PROVE  Gone(a)'
<1>t. FileTypes /\ ControlTypes /\ CallTypes
  BY TypeParts
<1> USE ActorFacts
<1> DEFINE Mine == PathsOf(a) \cup {Backup(a)}
           Differs(content) == content # None => content.version # reviewed[a].version
<1>g. /\ \A p \in Mine : Differs(file[p])
      /\ \A d \in Actors : asset[d] = a /\ pc[d] \in Copying \cup {"close"} => Differs(copied[d])
  BY DEF Gone, Other
<1>m. Mine \subseteq Paths
  BY Apart, PathFacts
<1>o. ASSUME \A p \in Mine : Differs(file'[p]),
             \A d \in Actors : asset'[d] = a /\ pc'[d] \in Copying \cup {"close"}
                                 => Differs(copied'[d])
      PROVE  Gone(a)'
  BY <1>o DEF Gone, Other
<1>1. ASSUME NEW c \in Callers, RestoreStep(c) PROVE Gone(a)'
  <2>1. \A d \in Actors \ {c} : pc'[d] = pc[d] /\ asset'[d] = asset[d] /\ copied'[d] = copied[d]
    BY <1>1, RestoreLeaves
  <2>2. CASE asset[c] = a
    <3>1. \A q \in Sources(a) : file[q] # None /\ Differs(file[q])
      BY <1>g DEF Sources
    <3>2. ASSUME NEW p \in Mine PROVE Differs(file'[p])
      <4>1. pc[c] \in Copying /\ copied[c] # None => copied[c].version # reviewed[a].version
        BY <1>g, <2>2
      <4>2. file'[p] = None \/ file'[p] = file[p] \/ FromSources(c, file'[p])
        BY <1>1, <1>m, RestoreMoves
      <4> QED
        BY <1>g, <2>2, <3>1, <4>1, <4>2 DEF FromSources
    <3>3. pc'[c] \in Copying => Differs(copied'[c])
      BY <1>1, <2>2, <3>1, RestoreMoves
    <3>4. pc'[c] # "close"
      BY DEF Types, RestoreSteps
    <3> QED
      BY <1>g, <1>o, <2>1, <3>2, <3>3, <3>4
  <2>3. CASE asset[c] # a
    <3>1. \A p \in Mine : file'[p] = file[p]
      BY <1>1, <2>3, <1>m, RestoreTouches, Apart, PathFacts
    <3>2. pc'[c] \in Copying => asset'[c] # a
      BY <1>1, <2>3, RestoreMoves
    <3>3. pc'[c] # "close"
      BY DEF Types, RestoreSteps
    <3> QED
      BY <1>g, <1>o, <2>1, <3>1, <3>2, <3>3
  <2> QED
    BY <2>2, <2>3
<1>2. ASSUME NEW b \in Assets, ImmichWrites(b) PROVE Gone(a)'
  <2>1. PICK new \in {None, Whole(spent["writes"] + 2)} :
           file' = [file EXCEPT ![Library(b)] = new]
    BY <1>2 DEF ImmichWrites
  <2>2. Differs(new)
    <3>1. reviewed[a].version < spent["writes"] + 2 /\ reviewed[a].version \in Nat
      BY <1>t, PathFacts, BoundsAssumption DEF Numbered, Known, CallTypes, Content, Versions
    <3>2. spent["writes"] \in Nat
      BY SpentGrows
    <3> QED
      BY <2>1, <3>1, <3>2 DEF Whole
  <2>3. UNCHANGED <<pc, asset, copied>>
    BY <1>2 DEF ImmichWrites
  <2>4. \A p \in Mine : file'[p] = file[p] \/ file'[p] = new
    BY <1>t, <1>m, <2>1 DEF FileTypes
  <2> QED
    BY <1>g, <1>o, <2>2, <2>3, <2>4
<1>3. CASE SyncOpen
  <2>1. PICK n \in plan : /\ OpenCopy(Sync, Library(n), Backup(n))
                          /\ asset' = [asset EXCEPT ![Sync] = n]
    BY <1>3 DEF SyncOpen
  <2>2. n \in Names /\ Library(n) \in Paths /\ Backup(n) \in Paths
    BY <1>t, PathFacts DEF CallTypes
  <2>3. PICK part \in Content : /\ part.version = file[Library(n)].version
                                /\ file' = [file EXCEPT ![Backup(n)] = part]
    BY <1>t, <2>1, <2>2, OpenFacts
  <2>4. /\ copied' = [copied EXCEPT ![Sync] = file[Library(n)]] /\ file[Library(n)] # None
        /\ \A d \in Callers : pc'[d] = pc[d] /\ asset'[d] = asset[d] /\ copied'[d] = copied[d]
    BY <1>3, <1>t, <2>1 DEF SyncOpen, OpenCopy, Exists, Goes, ControlTypes, FileTypes
  <2>5. n = a => Differs(file[Library(n)])
    BY <1>g, Apart
  <2>6. n # a => \A p \in Mine : file'[p] = file[p]
    BY <1>t, <1>m, <2>2, <2>3, Apart, PathFacts DEF FileTypes
  <2>7. \A p \in Mine : Differs(file'[p])
    BY <1>g, <1>t, <1>m, <2>3, <2>4, <2>5, <2>6 DEF FileTypes
  <2>8. asset'[Sync] = n /\ copied'[Sync] = file[Library(n)]
    BY <1>t, <2>1, <2>4 DEF ControlTypes, FileTypes
  <2> QED
    BY <1>g, <1>o, <2>4, <2>5, <2>7, <2>8 DEF Actors
<1>4. CASE SyncClose
  <2>1. /\ open[Sync] = Backup(asset[Sync]) /\ copied[Sync] # None /\ asset[Sync] \in Names
        /\ pc[Sync] = "close"
    BY <1>4, <1>t DEF SyncClose, Writers, ControlTypes
  <2>2. PICK kept \in Content : /\ kept.version = copied[Sync].version
                                /\ file' = [file EXCEPT ![Backup(asset[Sync])] = kept]
    BY <1>4, <1>t, <2>1, PathFacts, NamesAssumption, CloseFacts DEF SyncClose
  <2>3. /\ UNCHANGED asset /\ \A d \in Callers : pc'[d] = pc[d] /\ copied'[d] = copied[d]
        /\ pc'[Sync] = "verify"
    BY <1>4, <1>t DEF SyncClose, CloseCopy, Goes, ControlTypes, FileTypes
  <2>4. \A p \in Mine : file'[p] = file[p] \/ (asset[Sync] = a /\ file'[p] = kept)
    BY <1>t, <1>m, <2>1, <2>2, Apart, PathFacts DEF FileTypes
  <2>5. asset[Sync] = a => copied[Sync].version # reviewed[a].version
    BY <1>g, <2>1
  <2> QED
    BY <1>g, <1>o, <2>2, <2>3, <2>4, <2>5 DEF Actors, Copying
<1>5. CASE SyncReview \/ SyncVerify \/ SyncFails \/ SyncEnds
  <2>1. /\ UNCHANGED file /\ pc'[Sync] \in {"next", "idle"}
        /\ \A d \in Callers : pc'[d] = pc[d] /\ asset'[d] = asset[d] /\ copied'[d] = copied[d]
    BY <1>5, <1>t
       DEF SyncReview, SyncVerify, SyncFails, SyncEnds, Goes, ControlTypes, FileTypes
  <2> QED
    BY <1>g, <1>o, <2>1 DEF Actors, Copying
<1>6. CASE Crash
  <2>1. UNCHANGED file /\ \A c \in Actors : pc'[c] = "idle"
    BY <1>6 DEF Crash
  <2> QED
    BY <1>g, <1>o, <2>1 DEF Copying
<1>7. CASE Tick \/ UNCHANGED vars
  <2>1. UNCHANGED <<file, pc, asset, copied>>
    BY <1>7 DEF Tick, vars, actorVars
  <2> QED
    BY <1>g, <1>o, <2>1
<1> QED
  BY <1>1, <1>2, <1>3, <1>4, <1>5, <1>6, <1>7 DEF Next, SyncStep

\* What the sync job saw is covered, gone, or still to be copied, until it meets
\* trouble.
LEMMA CoversStep ==
  ASSUME Types, Types', Writers, MirrorAt, Numbered, Pristine, Covers, ReportAt, [Next]_vars
  PROVE  Covers' /\ ReportAt'
<1>t. FileTypes /\ ControlTypes /\ CallTypes
  BY TypeParts
<1> USE ActorFacts
<1> DEFINE Watching == report = "completed" \/ (pc[Sync] # "idle" /\ ~trouble)
           Closing(a) == pc[Sync] = "close" /\ asset[Sync] = a
<1>r. ReportAt'
  <2>1. CASE SyncReview
    BY <2>1, NamesAssumption DEF SyncReview, ReportAt
  <2>2. CASE SyncEnds
    BY <2>2, <1>t DEF SyncEnds, Goes, ReportAt, ControlTypes
  <2>3. CASE SyncOpen \/ SyncClose \/ SyncVerify \/ SyncFails
    BY <2>3 DEF SyncOpen, SyncClose, SyncVerify, SyncFails, ReportAt, syncVars
  <2>4. ASSUME NEW c \in Callers, RestoreStep(c) PROVE ReportAt'
    BY <2>4, RestoreLeaves DEF ReportAt, syncVars
  <2>5. ASSUME NEW a \in Assets, ImmichWrites(a) PROVE ReportAt'
    BY <2>5 DEF ImmichWrites, ReportAt, syncVars
  <2>6. CASE Tick \/ Crash \/ UNCHANGED vars
    BY <2>6 DEF Tick, Crash, ReportAt, vars, actorVars, syncVars
  <2> QED
    BY <2>1, <2>2, <2>3, <2>4, <2>5, <2>6 DEF Next, SyncStep
<1>1. CASE SyncReview
  <2>1. /\ reviewed' = [n \in Names |-> file[Library(n)]] /\ UNCHANGED file
        /\ plan' = {n \in Names : SyncEligible(n)} /\ trouble' = \E n \in Names : NeedsReview(n)
        /\ report' = None /\ pc'[Sync] = "next"
    BY <1>1, <1>t DEF SyncReview, Goes, ControlTypes
  <2>2. ASSUME ~trouble', NEW a \in Assets, reviewed'[a] # None PROVE CoveredOr(a)'
    <3>1. a \in Names /\ reviewed'[a] = file[Library(a)] /\ file[Library(a)] # None
      BY <2>1, <2>2, PathFacts
    <3>2. ~Mismatch(a)
      BY <2>1, <2>2, <3>1 DEF NeedsReview
    <3>3. CASE file[Backup(a)] = None
      BY <2>1, <3>1, <3>3 DEF CoveredOr, SyncEligible, MissingInBackup, Exists
    <3>4. CASE file[Backup(a)] # None
      BY <2>1, <3>1, <3>2, <3>4 DEF CoveredOr, Mismatch, Exists
    <3> QED
      BY <3>3, <3>4
  <2> QED
    BY <1>r, <2>1, <2>2, NamesAssumption DEF Covers
<1>2. CASE ~SyncReview
  <2>1. Watching' => Watching
    <3>1. CASE SyncOpen \/ SyncClose \/ SyncVerify \/ SyncFails
      BY <3>1 DEF SyncOpen, SyncClose, SyncVerify, SyncFails, syncVars
    <3>2. CASE SyncEnds
      BY <3>2, <1>t DEF SyncEnds, Goes, ControlTypes
    <3>3. ASSUME NEW c \in Callers, RestoreStep(c) PROVE Watching' => Watching
      BY <3>3, RestoreLeaves DEF syncVars
    <3>4. ASSUME NEW a \in Assets, ImmichWrites(a) PROVE Watching' => Watching
      BY <3>4 DEF ImmichWrites, syncVars
    <3>5. CASE Tick \/ Crash \/ UNCHANGED vars
      BY <3>5 DEF Tick, Crash, vars, actorVars, syncVars
    <3> QED
      BY <1>2, <3>1, <3>2, <3>3, <3>4, <3>5 DEF Next, SyncStep
  <2>2. UNCHANGED reviewed
    <3>1. CASE SyncOpen \/ SyncClose \/ SyncVerify \/ SyncFails \/ SyncEnds
      BY <3>1 DEF SyncOpen, SyncClose, SyncVerify, SyncFails, SyncEnds, syncVars
    <3>2. ASSUME NEW c \in Callers, RestoreStep(c) PROVE UNCHANGED reviewed
      BY <3>2, RestoreLeaves DEF syncVars
    <3>3. ASSUME NEW a \in Assets, ImmichWrites(a) PROVE UNCHANGED reviewed
      BY <3>3 DEF ImmichWrites, syncVars
    <3>4. CASE Tick \/ Crash \/ UNCHANGED vars
      BY <3>4 DEF Tick, Crash, vars, syncVars
    <3> QED
      BY <1>2, <3>1, <3>2, <3>3, <3>4 DEF Next, SyncStep
  <2> SUFFICES ASSUME Watching', NEW a \in Assets, reviewed[a] # None
               PROVE  CoveredOr(a)'
    BY <1>r, <2>2 DEF Covers
  <2>3. CoveredOr(a) /\ a \in Names
    BY <2>1, PathFacts DEF Covers
  <2>4. Gone(a) => CoveredOr(a)'
    BY <2>2, GoneStep DEF CoveredOr
  <2>5. ASSUME file[Backup(a)] = reviewed[a], ~Closing(a) PROVE CoveredOr(a)'
    <3>1. ASSUME file'[Backup(a)] = file[Backup(a)], ~Closing(a)' PROVE CoveredOr(a)'
      BY <2>2, <2>5, <3>1 DEF CoveredOr
    <3>2. CASE SyncOpen
      <4>1. PICK n \in plan : /\ OpenCopy(Sync, Library(n), Backup(n))
                              /\ asset' = [asset EXCEPT ![Sync] = n]
        BY <3>2 DEF SyncOpen
      <4>2. n \in Names /\ n # a
        BY <1>t, <2>5, <4>1 DEF MirrorAt, CallTypes
      <4>3. file'[Backup(a)] = file[Backup(a)]
        BY <1>t, <2>3, <4>1, <4>2, PathFacts DEF OpenCopy, FileTypes
      <4> QED
        BY <1>t, <3>1, <4>1, <4>2, <4>3 DEF ControlTypes
    <3>3. CASE SyncClose
      <4>1. /\ open[Sync] = Backup(asset[Sync]) /\ copied[Sync] # None /\ asset[Sync] \in Names
            /\ asset[Sync] # a /\ pc'[Sync] = "verify"
        BY <3>3, <1>t, <2>5 DEF SyncClose, Writers, ControlTypes, Goes
      <4>2. file'[Backup(a)] = file[Backup(a)]
        BY <3>3, <1>t, <2>3, <4>1, CloseFacts, PathFacts DEF SyncClose, FileTypes
      <4> QED
        BY <3>1, <4>1, <4>2
    <3>4. CASE SyncVerify \/ SyncFails \/ SyncEnds \/ Crash
      BY <3>1, <3>4, <1>t DEF SyncVerify, SyncFails, SyncEnds, Crash, Goes, ControlTypes
    <3>5. ASSUME NEW c \in Callers, RestoreStep(c) PROVE CoveredOr(a)'
      <4>1. file'[Backup(a)] = file[Backup(a)]
        BY <3>5, <2>3, RestoreTouches, PathFacts, Apart
      <4> QED
        BY <2>5, <3>1, <3>5, <4>1, RestoreLeaves
    <3>6. ASSUME NEW b \in Assets, ImmichWrites(b) PROVE CoveredOr(a)'
      BY <2>3, <2>5, <3>1, <3>6, <1>t, PathFacts DEF ImmichWrites, FileTypes
    <3>7. CASE Tick \/ UNCHANGED vars
      BY <2>5, <3>1, <3>7 DEF Tick, vars, actorVars
    <3> QED
      BY <1>2, <3>2, <3>3, <3>4, <3>5, <3>6, <3>7 DEF Next, SyncStep
  <2>6. ASSUME a \in plan, file[Library(a)] = reviewed[a] PROVE CoveredOr(a)'
    <3>1. ASSUME a \in plan', file'[Library(a)] = reviewed[a] PROVE CoveredOr(a)'
      BY <2>2, <3>1 DEF CoveredOr
    <3>2. file[Backup(a)] = None /\ Untouched(a) /\ ~Closing(a)
      BY <2>6 DEF MirrorAt, Pristine
    <3>3. CASE SyncOpen
      <4>1. PICK n \in plan : /\ OpenCopy(Sync, Library(n), Backup(n)) /\ plan' = plan \ {n}
                              /\ asset' = [asset EXCEPT ![Sync] = n]
        BY <3>3 DEF SyncOpen
      <4>2. CASE n = a
        <5>1. copied'[Sync] = reviewed[a] /\ asset'[Sync] = a /\ pc'[Sync] = "close"
          BY <3>3, <1>t, <2>6, <4>1, <4>2
             DEF SyncOpen, OpenCopy, Goes, FileTypes, ControlTypes
        <5> QED
          BY <2>2, <5>1 DEF CoveredOr
      <4>3. CASE n # a
        <5>1. file'[Library(a)] = file[Library(a)]
          BY <1>t, <2>3, <4>1, PathFacts DEF OpenCopy, FileTypes, CallTypes
        <5> QED
          BY <2>6, <3>1, <4>1, <4>3, <5>1
      <4> QED
        BY <4>2, <4>3
    <3>4. CASE SyncClose
      <4>1. /\ open[Sync] = Backup(asset[Sync]) /\ copied[Sync] # None /\ asset[Sync] \in Names
            /\ UNCHANGED plan
        BY <3>4, <1>t DEF SyncClose, Writers, ControlTypes, syncVars
      <4>2. file'[Library(a)] = file[Library(a)]
        BY <3>4, <1>t, <2>3, <4>1, CloseFacts, PathFacts DEF SyncClose, FileTypes
      <4> QED
        BY <2>6, <3>1, <4>1, <4>2
    <3>5. CASE SyncVerify
      BY <2>6, <3>1, <3>5 DEF SyncVerify
    <3>6. CASE SyncFails \/ SyncEnds \/ Crash
      <4>1. CASE SyncFails
        BY <4>1, <1>t DEF SyncFails, ReportAt, Goes, ControlTypes
      <4>2. CASE SyncEnds
        BY <4>2, <2>6 DEF SyncEnds
      <4>3. CASE Crash
        BY <4>3, <1>t, <2>6 DEF Crash, ReportAt, ControlTypes
      <4> QED
        BY <3>6, <4>1, <4>2, <4>3
    <3>7. ASSUME NEW c \in Callers, RestoreStep(c) PROVE CoveredOr(a)'
      <4>1. file'[Library(a)] = file[Library(a)]
        BY <3>7, <2>3, <3>2, RestoreTouches, PathFacts, Apart DEF Untouched
      <4> QED
        BY <2>6, <3>1, <3>7, <4>1, RestoreLeaves DEF syncVars
    <3>8. ASSUME NEW b \in Assets, ImmichWrites(b) PROVE CoveredOr(a)'
      <4>1. CASE b # a
        <5>1. file'[Library(a)] = file[Library(a)] /\ UNCHANGED plan
          BY <3>8, <2>3, <4>1, <1>t, PathFacts DEF ImmichWrites, FileTypes, syncVars
        <5> QED
          BY <2>6, <3>1, <5>1
      <4>2. CASE b = a
        <5>1. PICK new \in {None, Whole(spent["writes"] + 2)} :
                 file' = [file EXCEPT ![Library(a)] = new]
          BY <3>8, <4>2 DEF ImmichWrites
        <5>2. new # None => new.version # reviewed[a].version
          <6>1. /\ reviewed[a].version < spent["writes"] + 2
                /\ reviewed[a].version \in Nat
            BY <1>t, <2>3, BoundsAssumption DEF Numbered, Known, CallTypes, Content, Versions
          <6>2. spent["writes"] \in Nat
            BY SpentGrows
          <6> QED
            BY <5>1, <6>1, <6>2 DEF Whole
        <5>3. \A p \in PathsOf(a) \cup {Backup(a)} : file'[p] = None \/ file'[p] = new
          BY <1>t, <2>3, <3>2, <5>1, PathFacts DEF FileTypes, PathsOf, Untouched
        <5>4. UNCHANGED <<pc, asset, copied>>
          BY <3>8 DEF ImmichWrites
        <5>5. \A c \in Actors : ~(asset'[c] = a /\ pc'[c] \in Copying \cup {"close"})
          <6>1. \A c \in Callers : asset[c] # a
            BY <3>2 DEF Untouched
          <6>2. pc[Sync] \notin Copying
            BY <1>t DEF ControlTypes, Copying
          <6> QED
            BY <3>2, <5>4, <6>1, <6>2 DEF Actors
        <5>6. Gone(a)'
          BY <2>2, <5>2, <5>3, <5>5 DEF Gone, Other
        <5> QED
          BY <5>6 DEF CoveredOr
      <4> QED
        BY <4>1, <4>2
    <3>9. CASE Tick \/ UNCHANGED vars
      BY <2>6, <3>1, <3>9 DEF Tick, vars, syncVars
    <3> QED
      BY <1>2, <3>3, <3>4, <3>5, <3>6, <3>7, <3>8, <3>9 DEF Next, SyncStep
  <2>7. ASSUME Closing(a), copied[Sync] = reviewed[a] PROVE CoveredOr(a)'
    <3>1. ASSUME Closing(a)', copied'[Sync] = reviewed[a] PROVE CoveredOr(a)'
      BY <2>2, <3>1 DEF CoveredOr
    <3>2. CASE SyncClose
      <4>1. open[Sync] = Backup(a) /\ copied[Sync] # None /\ pc'[Sync] = "verify"
        BY <3>2, <1>t, <2>7 DEF SyncClose, Writers, Goes, ControlTypes
      <4>2. \A d \in Actors \ {Sync} : open[d] # Backup(a)
        <5> SUFFICES ASSUME NEW d \in Callers, open[d] = Backup(a) PROVE FALSE
          BY DEF Actors
        <5>1. Backup(a) # None /\ pc[d] \in Copying /\ Backup(a) \in PathsOf(asset[d])
          BY <2>3, PathFacts, NamesAssumption DEF Writers
        <5>2. asset[d] \in Assets
          BY <1>t, <5>1 DEF ControlTypes, Copying
        <5> QED
          BY <2>3, <5>1, <5>2, Apart
      <4>3. file'[Backup(a)] = copied[Sync]
        BY <3>2, <1>t, <2>3, <4>1, <4>2, CloseFacts, PathFacts, NamesAssumption
           DEF SyncClose, FileTypes
      <4> QED
        BY <2>2, <2>7, <4>1, <4>3 DEF CoveredOr
    <3>3. CASE SyncOpen \/ SyncVerify \/ SyncFails \/ SyncEnds \/ Crash
      <4>1. CASE SyncOpen \/ SyncVerify \/ SyncEnds
        BY <4>1, <2>7 DEF SyncOpen, SyncVerify, SyncEnds
      <4>2. CASE SyncFails
        BY <4>2, <2>7 DEF SyncFails, ReportAt
      <4>3. CASE Crash
        BY <4>3, <2>7 DEF Crash, ReportAt
      <4> QED
        BY <3>3, <4>1, <4>2, <4>3
    <3>4. ASSUME NEW c \in Callers, RestoreStep(c) PROVE CoveredOr(a)'
      BY <2>7, <3>1, <3>4, RestoreLeaves
    <3>5. ASSUME NEW b \in Assets, ImmichWrites(b) PROVE CoveredOr(a)'
      BY <2>7, <3>1, <3>5 DEF ImmichWrites
    <3>6. CASE Tick \/ UNCHANGED vars
      BY <2>7, <3>1, <3>6 DEF Tick, vars, actorVars
    <3> QED
      BY <1>2, <3>2, <3>3, <3>4, <3>5, <3>6 DEF Next, SyncStep
  <2> QED
    BY <2>3, <2>4, <2>5, <2>6, <2>7 DEF CoveredOr
<1> QED
  BY <1>r, <1>1, <1>2

-----------------------------------------------------------------------------
(* Restores.                                                                *)

\* An asset is taken up by RestoreBegin only, which exposes it if that is shared.
LEMMA RestoreKeepsAsset ==
  ASSUME Types, NEW c \in Callers, RestoreStep(c), ~RestoreBegin(c)
  PROVE  asset'[c] \in {asset[c], None} /\ UNCHANGED <<stamp, exposed>>
<1>t. FileTypes /\ ControlTypes /\ CallTypes
  BY TypeParts
<1> USE ActorFacts
<1>1. CASE RestoreReview(c)
  BY <1>1, <1>t DEF RestoreReview, Leave, actorVars, callVars, history, ControlTypes
<1>2. CASE RestoreSkip(c)
  BY <1>2, <1>t DEF RestoreSkip, Leave, actorVars, callVars, history, ControlTypes
<1>3. CASE RestoreBegin(c)
  BY <1>3
<1>4. CASE MoveOpen(c)
  BY <1>4, <1>t DEF MoveOpen, Leave, actorVars, callVars, history, ControlTypes
<1>5. CASE MoveUnlink(c)
  BY <1>5, <1>t DEF MoveUnlink, Leave, actorVars, callVars, history, ControlTypes
<1>6. CASE TempOpen(c)
  BY <1>6, <1>t DEF TempOpen, Leave, actorVars, callVars, history, ControlTypes
<1>7. CASE RestoreClose(c)
  BY <1>7, <1>t DEF RestoreClose, Leave, actorVars, callVars, history, ControlTypes
<1>8. CASE RestoreReplace(c)
  BY <1>8, <1>t DEF RestoreReplace, Leave, actorVars, callVars, history, ControlTypes
<1>9. CASE RestoreVerify(c)
  BY <1>9, <1>t DEF RestoreVerify, Leave, actorVars, callVars, history, ControlTypes
<1>10. CASE RestoreRaises(c)
  BY <1>10, <1>t DEF RestoreRaises, Leave, actorVars, callVars, history, ControlTypes
<1>11. CASE RestoreCleanup(c)
  BY <1>11, <1>t DEF RestoreCleanup, Leave, actorVars, callVars, history, ControlTypes
<1>12. CASE Rollback(c)
  BY <1>12, <1>t DEF Rollback, Leave, actorVars, callVars, history, ControlTypes
<1>13. CASE MoveBackOpen(c)
  BY <1>13, <1>t DEF MoveBackOpen, Leave, actorVars, callVars, history, ControlTypes
<1>14. CASE MoveBackUnlink(c)
  BY <1>14, <1>t DEF MoveBackUnlink, Leave, actorVars, callVars, history, ControlTypes
<1>15. CASE RollbackRaises(c)
  BY <1>15, <1>t DEF RollbackRaises, Leave, actorVars, callVars, history, ControlTypes
<1>16. CASE RestoreEnds(c)
  BY <1>16, <1>t DEF RestoreEnds, Leave, actorVars, callVars, history, ControlTypes
<1> QED
  BY <1>1, <1>2, <1>3, <1>4, <1>5, <1>6, <1>7, <1>8, <1>9, <1>10, <1>11, <1>12, <1>13,
     <1>14, <1>15, <1>16 DEF RestoreStep

\* A restore changes what another has open only where both write.
LEMMA RestoreOpens ==
  ASSUME Types, NEW c \in Callers, RestoreStep(c), NEW d \in Actors, d # c, open'[d] # open[d]
  PROVE  asset[c] \in Assets /\ open[d] \in PathsOf(asset[c])
<1>t. FileTypes /\ ControlTypes /\ CallTypes
  BY TypeParts
<1> USE ActorFacts
<1>1. CASE RestoreReview(c)
  BY <1>1, <1>t DEF RestoreReview, OpenCopy, CloseCopy, actorVars, FileTypes
<1>2. CASE RestoreSkip(c)
  BY <1>2, <1>t DEF RestoreSkip, OpenCopy, CloseCopy, actorVars, FileTypes
<1>3. CASE RestoreBegin(c)
  BY <1>3, <1>t DEF RestoreBegin, OpenCopy, CloseCopy, actorVars, FileTypes
<1>4. CASE MoveOpen(c)
  BY <1>4, <1>t DEF MoveOpen, OpenCopy, CloseCopy, actorVars, FileTypes
<1>5. CASE MoveUnlink(c)
  <2>1. pc[c] \notin {"idle", "next"}
    BY <1>5 DEF MoveUnlink
  <2> QED
    BY <1>5, <1>t, <2>1, AtWork, Apart, UnlinkFacts DEF MoveUnlink
<1>6. CASE TempOpen(c)
  BY <1>6, <1>t DEF TempOpen, OpenCopy, CloseCopy, actorVars, FileTypes
<1>7. CASE RestoreClose(c)
  BY <1>7, <1>t DEF RestoreClose, OpenCopy, CloseCopy, actorVars, FileTypes
<1>8. CASE RestoreReplace(c)
  <2>1. pc[c] \notin {"idle", "next"}
    BY <1>8 DEF RestoreReplace
  <2> QED
    BY <1>8, <1>t, <2>1, AtWork, Apart, ReplaceFacts DEF RestoreReplace
<1>9. CASE RestoreVerify(c)
  BY <1>9, <1>t DEF RestoreVerify, OpenCopy, CloseCopy, actorVars, FileTypes
<1>10. CASE RestoreRaises(c)
  BY <1>10, <1>t DEF RestoreRaises, OpenCopy, CloseCopy, actorVars, FileTypes
<1>11. CASE RestoreCleanup(c)
  <2>1. pc[c] \notin {"idle", "next"}
    BY <1>11 DEF RestoreCleanup
  <2> QED
    BY <1>11, <1>t, <2>1, AtWork, Apart, UnlinkFacts DEF RestoreCleanup
<1>12. CASE Rollback(c)
  BY <1>12, <1>t DEF Rollback, OpenCopy, CloseCopy, actorVars, FileTypes
<1>13. CASE MoveBackOpen(c)
  BY <1>13, <1>t DEF MoveBackOpen, OpenCopy, CloseCopy, actorVars, FileTypes
<1>14. CASE MoveBackUnlink(c)
  <2>1. pc[c] \notin {"idle", "next"}
    BY <1>14 DEF MoveBackUnlink
  <2> QED
    BY <1>14, <1>t, <2>1, AtWork, Apart, UnlinkFacts DEF MoveBackUnlink
<1>15. CASE RollbackRaises(c)
  BY <1>15, <1>t DEF RollbackRaises, OpenCopy, CloseCopy, actorVars, FileTypes
<1>16. CASE RestoreEnds(c)
  BY <1>16, <1>t DEF RestoreEnds, OpenCopy, CloseCopy, actorVars, FileTypes
<1> QED
  BY <1>1, <1>2, <1>3, <1>4, <1>5, <1>6, <1>7, <1>8, <1>9, <1>10, <1>11, <1>12, <1>13,
     <1>14, <1>15, <1>16 DEF RestoreStep

\* The steps of the sync job, and what Immich writes to other assets, leave a restore
\* and its files alone.
LEMMA OthersLeave ==
  ASSUME Types, Writers, NEW d \in Callers, asset'[d] # None,
         SyncStep \/ Tick \/ UNCHANGED vars \/ \E b \in Assets \ {asset[d]} : ImmichWrites(b)
  PROVE  /\ asset'[d] = asset[d] /\ pc'[d] = pc[d] /\ stamp'[d] = stamp[d]
         /\ copied'[d] = copied[d] /\ open'[d] = open[d]
         /\ \A p \in PathsOf(asset[d]) : file'[p] = file[p]
<1>t. FileTypes /\ ControlTypes /\ CallTypes
  BY TypeParts
<1> USE ActorFacts
<1> DEFINE Alone == /\ asset'[d] = asset[d] /\ pc'[d] = pc[d] /\ stamp'[d] = stamp[d]
                    /\ copied'[d] = copied[d]
<1>1. ASSUME NEW b \in Assets \ {asset[d]}, ImmichWrites(b)
      PROVE  /\ Alone /\ open'[d] = open[d]
             /\ \A p \in PathsOf(asset[d]) : file'[p] = file[p]
  <2>1. Alone /\ asset[d] \in Assets
    BY <1>1, <1>t DEF ImmichWrites, callVars, ControlTypes
  <2>2. \A p \in Paths \ {Library(b)} : file'[p] = file[p]
    BY <1>1, <1>t DEF ImmichWrites, FileTypes
  <2>3. Library(b) \notin PathsOf(asset[d])
    BY <2>1, Apart
  <2>4. open'[d] = open[d]
    BY <1>1, <2>3, <1>t DEF ImmichWrites, Writers, FileTypes
  <2> QED
    BY <2>1, <2>2, <2>3, <2>4, Apart
<1>2. CASE SyncOpen
  <2>1. PICK n \in plan : OpenCopy(Sync, Library(n), Backup(n)) /\ asset' = [asset EXCEPT ![Sync] = n]
    BY <1>2 DEF SyncOpen
  <2>2. Alone /\ open'[d] = open[d] /\ asset[d] \in Assets
    BY <1>2, <1>t, <2>1 DEF SyncOpen, OpenCopy, Goes, callVars, ControlTypes, FileTypes
  <2>3. \A p \in Paths : p # Backup(n) => file'[p] = file[p]
    BY <1>t, <2>1 DEF OpenCopy, FileTypes
  <2> QED
    BY <1>t, <2>1, <2>2, <2>3, Apart DEF CallTypes
<1>3. CASE SyncClose
  <2>1. open[Sync] = Backup(asset[Sync]) /\ copied[Sync] # None /\ asset[Sync] \in Names
    BY <1>3, <1>t DEF SyncClose, Writers, ControlTypes
  <2>2. Alone /\ open'[d] = open[d] /\ asset[d] \in Assets
    BY <1>3, <1>t DEF SyncClose, CloseCopy, Goes, callVars, ControlTypes, FileTypes
  <2>3. \A p \in Paths : p # Backup(asset[Sync]) => file'[p] = file[p]
    BY <1>3, <1>t, <2>1, CloseFacts DEF SyncClose, FileTypes
  <2> QED
    BY <2>1, <2>2, <2>3, Apart
<1>4. CASE SyncReview \/ SyncVerify \/ SyncFails \/ SyncEnds
  BY <1>4, <1>t
     DEF SyncReview, SyncVerify, SyncFails, SyncEnds, Goes, callVars, ControlTypes, FileTypes
<1>5. CASE Tick \/ UNCHANGED vars
  BY <1>5 DEF Tick, vars, actorVars, callVars
<1> QED
  BY <1>1, <1>2, <1>3, <1>4, <1>5 DEF SyncStep

\* What is exposed stays so.
LEMMA ExposedStays == [Next]_vars => exposed \subseteq exposed'
<1> SUFFICES ASSUME [Next]_vars PROVE exposed \subseteq exposed'
  OBVIOUS
<1>1. ASSUME SyncReview PROVE  exposed \subseteq exposed'
  BY <1>1 DEF SyncReview, vars, history, syncVars
<1>2. ASSUME SyncOpen PROVE  exposed \subseteq exposed'
  BY <1>2 DEF SyncOpen, vars, history, syncVars
<1>3. ASSUME SyncClose PROVE  exposed \subseteq exposed'
  BY <1>3 DEF SyncClose, vars, history, syncVars
<1>4. ASSUME SyncVerify PROVE  exposed \subseteq exposed'
  BY <1>4 DEF SyncVerify, vars, history, syncVars
<1>5. ASSUME SyncFails PROVE  exposed \subseteq exposed'
  BY <1>5 DEF SyncFails, vars, history, syncVars
<1>6. ASSUME SyncEnds PROVE  exposed \subseteq exposed'
  BY <1>6 DEF SyncEnds, vars, history, syncVars
<1>7. ASSUME NEW c \in Callers, RestoreReview(c) PROVE  exposed \subseteq exposed'
  BY <1>7 DEF RestoreReview, vars, history, syncVars
<1>8. ASSUME NEW c \in Callers, RestoreSkip(c) PROVE  exposed \subseteq exposed'
  BY <1>8 DEF RestoreSkip, vars, history, syncVars
<1>9. ASSUME NEW c \in Callers, RestoreBegin(c) PROVE  exposed \subseteq exposed'
  BY <1>9 DEF RestoreBegin, vars, history, syncVars
<1>10. ASSUME NEW c \in Callers, MoveOpen(c) PROVE  exposed \subseteq exposed'
  BY <1>10 DEF MoveOpen, vars, history, syncVars
<1>11. ASSUME NEW c \in Callers, MoveUnlink(c) PROVE  exposed \subseteq exposed'
  BY <1>11 DEF MoveUnlink, vars, history, syncVars
<1>12. ASSUME NEW c \in Callers, TempOpen(c) PROVE  exposed \subseteq exposed'
  BY <1>12 DEF TempOpen, vars, history, syncVars
<1>13. ASSUME NEW c \in Callers, RestoreClose(c) PROVE  exposed \subseteq exposed'
  BY <1>13 DEF RestoreClose, vars, history, syncVars
<1>14. ASSUME NEW c \in Callers, RestoreReplace(c) PROVE  exposed \subseteq exposed'
  BY <1>14 DEF RestoreReplace, vars, history, syncVars
<1>15. ASSUME NEW c \in Callers, RestoreVerify(c) PROVE  exposed \subseteq exposed'
  BY <1>15 DEF RestoreVerify, vars, history, syncVars
<1>16. ASSUME NEW c \in Callers, RestoreRaises(c) PROVE  exposed \subseteq exposed'
  BY <1>16 DEF RestoreRaises, vars, history, syncVars
<1>17. ASSUME NEW c \in Callers, RestoreCleanup(c) PROVE  exposed \subseteq exposed'
  BY <1>17 DEF RestoreCleanup, vars, history, syncVars
<1>18. ASSUME NEW c \in Callers, Rollback(c) PROVE  exposed \subseteq exposed'
  BY <1>18 DEF Rollback, vars, history, syncVars
<1>19. ASSUME NEW c \in Callers, MoveBackOpen(c) PROVE  exposed \subseteq exposed'
  BY <1>19 DEF MoveBackOpen, vars, history, syncVars
<1>20. ASSUME NEW c \in Callers, MoveBackUnlink(c) PROVE  exposed \subseteq exposed'
  BY <1>20 DEF MoveBackUnlink, vars, history, syncVars
<1>21. ASSUME NEW c \in Callers, RollbackRaises(c) PROVE  exposed \subseteq exposed'
  BY <1>21 DEF RollbackRaises, vars, history, syncVars
<1>22. ASSUME NEW c \in Callers, RestoreEnds(c) PROVE  exposed \subseteq exposed'
  BY <1>22 DEF RestoreEnds, vars, history, syncVars
<1>23. ASSUME NEW a \in Assets, ImmichWrites(a) PROVE  exposed \subseteq exposed'
  BY <1>23 DEF ImmichWrites, vars, history, syncVars
<1>24. ASSUME Tick PROVE  exposed \subseteq exposed'
  BY <1>24 DEF Tick, vars, history, syncVars
<1>25. ASSUME Crash PROVE  exposed \subseteq exposed'
  BY <1>25 DEF Crash, vars, history, syncVars
<1>26. CASE UNCHANGED vars
  BY <1>26 DEF vars, history, syncVars
<1> QED
  BY <1>1, <1>2, <1>3, <1>4, <1>5, <1>6, <1>7, <1>8, <1>9, <1>10, <1>11, <1>12, <1>13,
     <1>14, <1>15, <1>16, <1>17, <1>18, <1>19, <1>20, <1>21, <1>22, <1>23, <1>24, <1>25, <1>26 DEF Next, SyncStep, RestoreStep

\* An asset that a second restore takes up is exposed.
LEMMA ExclusiveStep ==
    Types /\ Exclusive /\ [Next]_vars
  => Exclusive'
<1> SUFFICES ASSUME Types, Exclusive, [Next]_vars
             PROVE  Exclusive'
  OBVIOUS
<1>t. FileTypes /\ ControlTypes /\ CallTypes
  BY TypeParts
<1> USE ActorFacts
<1>e. exposed \subseteq exposed'
  BY ExposedStays
<1>1. ASSUME NEW c \in Callers, RestoreBegin(c) PROVE Exclusive'
  <2>1. /\ asset' = [asset EXCEPT ![c] = Head(todo[c])]
        /\ Shares(Head(todo[c])) => Head(todo[c]) \in exposed'
    BY <1>1 DEF RestoreBegin
  <2>2. (\E d \in Callers : asset[d] = Head(todo[c])) => Head(todo[c]) \in exposed'
    BY <2>1 DEF Shares, Restoring
  <2> HIDE DEF Shares
  <2> QED
    BY <1>e, <1>t, <2>1, <2>2 DEF Exclusive, ControlTypes
<1>2. ASSUME NEW c \in Callers, RestoreStep(c), ~RestoreBegin(c) PROVE Exclusive'
  <2>1. asset'[c] \in {asset[c], None} /\ \A d \in Callers \ {c} : asset'[d] = asset[d]
    BY <1>2, RestoreKeepsAsset, RestoreLeaves
  <2> QED
    BY <1>e, <2>1 DEF Exclusive
<1>3. CASE SyncStep \/ Tick \/ Crash \/ (\E a \in Assets : ImmichWrites(a)) \/ UNCHANGED vars
  <2>1. \A d \in Callers : asset'[d] \in {asset[d], None}
    BY <1>3, <1>t
       DEF SyncStep, SyncReview, SyncOpen, SyncClose, SyncVerify, SyncFails, SyncEnds, Tick,
           Crash, ImmichWrites, vars, actorVars, ControlTypes
  <2> QED
    BY <1>e, <2>1 DEF Exclusive
<1> QED
  BY <1>1, <1>2, <1>3 DEF Next

\* What a step of a restore that goes on does to where its files are.
LEMMA OwnStep ==
  ASSUME Types, Types', Writers, Writers', Exclusive, NEW c \in Callers, RestoreStep(c),
         asset[c] # None => asset[c] \in exposed \/ AtStep(c),
         asset'[c] # None, asset'[c] \notin exposed'
  PROVE  AtStep(c)'
<1>t. FileTypes /\ ControlTypes /\ CallTypes
  BY TypeParts
<1> USE ActorFacts
<1> DEFINE a == asset[c]
           L == Library(a)
           M == Library(Tmp(a))
           Q == Quarantine(a, stamp[c])
<1>a. ASSUME ~RestoreBegin(c)
      PROVE  /\ a # None /\ asset'[c] = a /\ stamp'[c] = stamp[c] /\ AtStep(c)
             /\ pc[c] \notin {"idle", "next"} /\ a \notin exposed
             /\ L \in Paths /\ M \in Paths /\ Q \in Paths /\ L # M /\ L # Q /\ M # Q
  <2>1. asset'[c] = a /\ UNCHANGED <<stamp, exposed>>
    BY <1>a, RestoreKeepsAsset
  <2>2. pc[c] \notin {"idle", "next"} /\ a # None
    BY <1>t, <2>1 DEF ControlTypes
  <2> QED
    BY <1>t, <2>1, <2>2, AtWork, PathFacts
<1>e. \A x \in Content : x # None
  BY NamesAssumption
<1>f. file' \in [Paths -> Content \cup {None}] /\ copied' \in [Actors -> Content \cup {None}]
  BY DEF Types, TypeOK
<1> HIDE DEF L, M, Q
<1>1. CASE RestoreReview(c)
  <2>1. asset'[c] = asset[c] /\ pc[c] \in {"idle", "next"}
    BY <1>1 DEF RestoreReview, actorVars
  <2> QED
    BY <1>t, <2>1 DEF ControlTypes
<1>2. CASE RestoreSkip(c)
  <2>1. asset'[c] = asset[c] /\ pc[c] \in {"idle", "next"}
    BY <1>2 DEF RestoreSkip, actorVars
  <2> QED
    BY <1>t, <2>1 DEF ControlTypes
<1>3. CASE RestoreBegin(c)
  <2> DEFINE b == Head(todo[c])
             Fresh == Quarantine(b, now)
  <2>1. /\ asset'[c] = b /\ stamp'[c] = now /\ pc'[c] = FirstStep(b) /\ UNCHANGED file
        /\ Shares(b) => b \in exposed'
    BY <1>3, <1>t DEF RestoreBegin, Goes, ControlTypes, CallTypes
  <2>2. file[Fresh] = None
    BY <2>1 DEF Shares, Exists
  <2>3. pc'[c] = IF file[Library(b)] # None THEN "move" ELSE "copy"
    BY <2>1 DEF FirstStep, Exists
  <2> HIDE DEF b
  <2> QED
    BY <2>1, <2>2, <2>3 DEF AtStep
<1>4. CASE MoveOpen(c)
  <2>0. ~RestoreBegin(c)
    BY <1>4 DEF MoveOpen, RestoreBegin
  <2>1. pc[c] = "move" /\ OpenCopy(c, L, Q) /\ pc'[c] = "moving"
    BY <1>4, <1>t DEF MoveOpen, Goes, ControlTypes, L, Q
  <2>2. PICK part \in Content : ~part.whole /\ file' = [file EXCEPT ![Q] = part]
    BY <1>t, <1>a, <2>0, <2>1, OpenFacts
  <2>3. open'[c] = Q /\ copied'[c] = file[L]
    BY <1>t, <2>1 DEF OpenCopy, FileTypes
  <2>4. file'[Q] # None /\ ~file'[Q].whole /\ file'[L] = file[L]
    BY <1>t, <1>a, <1>e, <2>0, <2>2 DEF FileTypes
  <2> QED
    BY <1>a, <2>0, <2>1, <2>3, <2>4 DEF AtStep, L, Q
<1>5. CASE MoveUnlink(c)
  <2>0. ~RestoreBegin(c)
    BY <1>5 DEF MoveUnlink, RestoreBegin
  <2>1. pc'[c] = "copy" /\ file' = [file EXCEPT ![L] = None]
    BY <1>5, <1>t DEF MoveUnlink, Unlink, Goes, ControlTypes, L
  <2> QED
    BY <1>t, <1>a, <2>0, <2>1 DEF AtStep, FileTypes, L
<1>6. CASE TempOpen(c)
  <2>0. ~RestoreBegin(c)
    BY <1>6 DEF TempOpen, RestoreBegin
  <2>1. pc[c] = "copy" /\ OpenCopy(c, Backup(a), M) /\ pc'[c] = "copying"
    BY <1>6, <1>t DEF TempOpen, Goes, ControlTypes, M
  <2>2. open'[c] = M /\ file'[L] = file[L]
    BY <1>t, <1>a, <2>0, <2>1 DEF OpenCopy, FileTypes
  <2>3. file[L] = None
    BY <1>a, <2>0, <2>1 DEF AtStep, L
  <2> QED
    BY <1>a, <2>0, <2>1, <2>2, <2>3 DEF AtStep, L, M
<1>7. CASE RestoreClose(c)
  <2>0. ~RestoreBegin(c)
    BY <1>7 DEF RestoreClose, RestoreBegin
  <2>1. /\ CloseCopy(c) /\ copied[c] # None /\ pc[c] \in Copying /\ pc'[c] = AfterClose(pc[c])
    BY <1>7, <1>t DEF RestoreClose, Writers, Goes, ControlTypes, Copying
  <2>2. \A d \in Actors \ {c} : open[d] # open[c] \/ open[c] = None
    <3> SUFFICES ASSUME NEW d \in Actors \ {c}, open[d] = open[c], open[c] # None PROVE FALSE
      OBVIOUS
    <3>1. open[c] \in PathsOf(a) /\ a \in Assets
      BY <1>t, <1>a, <2>0 DEF Writers, ControlTypes
    <3>2. CASE d = Sync
      <4>1. pc[Sync] = "close" /\ open[d] = Backup(asset[Sync])
        BY <3>2 DEF Writers
      <4>2. asset[Sync] \in Names
        BY <1>t, <4>1 DEF ControlTypes
      <4> QED
        BY <3>1, <4>1, <4>2, Apart
    <3>3. CASE d \in Callers
      <4>1. pc[d] \in Copying /\ open[d] \in PathsOf(asset[d])
        BY <3>3 DEF Writers
      <4>2. asset[d] \in Assets
        BY <1>t, <3>3, <4>1 DEF ControlTypes, Copying
      <4>3. asset[d] = a
        BY <3>1, <4>1, <4>2, Apart
      <4>4. a \in exposed
        BY <1>a, <2>0, <3>3, <4>3 DEF Exclusive
      <4> QED
        BY <1>a, <2>0, <4>4
    <3> QED
      BY <3>2, <3>3 DEF Actors
  <2>3. \/ open[c] = None /\ file' = file
        \/ open[c] # None /\ open[c] \in Paths /\ file' = [file EXCEPT ![open[c]] = copied[c]]
    BY <1>t, <2>1, <2>2, CloseFacts
  <2>4. CASE pc[c] = "moving"
    <3>1. open[c] = Q /\ file[L] = copied[c] /\ pc'[c] = "unlink"
      BY <1>a, <2>0, <2>1, <2>4 DEF AtStep, AfterClose, L, Q
    <3>2. file'[Q] = copied[c] /\ file'[L] = file[L]
      BY <1>t, <1>a, <1>e, <2>0, <2>3, <3>1, NamesAssumption DEF FileTypes
    <3> QED
      BY <1>a, <2>0, <2>1, <3>1, <3>2 DEF AtStep, L, Q
  <2>5. CASE pc[c] = "copying"
    <3>1. open[c] = M /\ file[L] = None /\ pc'[c] = "replace"
      BY <1>a, <2>0, <2>1, <2>5 DEF AtStep, AfterClose, L, M
    <3>2. file'[L] = None
      BY <1>t, <1>a, <2>0, <2>3, <3>1 DEF FileTypes
    <3> QED
      BY <1>a, <2>0, <3>1, <3>2 DEF AtStep, L
  <2>6. CASE pc[c] = "moving_back"
    <3>1. open[c] = L /\ file[Q] = copied[c] /\ pc'[c] = "unlink_back"
      BY <1>a, <2>0, <2>1, <2>6 DEF AtStep, AfterClose, L, Q
    <3>2. file'[L] = copied[c] /\ file'[Q] = file[Q]
      BY <1>t, <1>a, <1>e, <2>0, <2>3, <3>1, NamesAssumption DEF FileTypes
    <3> QED
      BY <1>a, <2>0, <2>1, <3>1, <3>2 DEF AtStep, L, Q
  <2> QED
    BY <2>1, <2>4, <2>5, <2>6 DEF Copying
<1>8. CASE RestoreReplace(c)
  <2>1. pc'[c] = "verify"
    BY <1>8, <1>t DEF RestoreReplace, Goes, ControlTypes
  <2> QED
    BY <2>1 DEF AtStep
<1>9. CASE RestoreVerify(c)
  <2>1. asset'[c] = None
    BY <1>9, <1>t DEF RestoreVerify, Leave, ControlTypes
  <2> QED
    BY <2>1
<1>10. CASE RestoreRaises(c)
  <2>1. pc'[c] = "cleanup"
    BY <1>10, <1>t DEF RestoreRaises, Goes, ControlTypes
  <2> QED
    BY <2>1 DEF AtStep
<1>11. CASE RestoreCleanup(c)
  <2>1. pc'[c] = "rollback"
    BY <1>11, <1>t DEF RestoreCleanup, Goes, ControlTypes
  <2> QED
    BY <2>1 DEF AtStep
<1>12. CASE Rollback(c)
  <2>0. ~RestoreBegin(c)
    BY <1>12 DEF Rollback, RestoreBegin
  <2>1. CASE MayRollBack(c)
    <3>1. pc'[c] = "move_back" /\ file[L] = None /\ UNCHANGED file
      BY <1>12, <1>t, <2>1 DEF Rollback, Goes, MayRollBack, Exists, ControlTypes, L
    <3> QED
      BY <1>a, <2>0, <3>1 DEF AtStep, L
  <2>2. CASE ~MayRollBack(c)
    BY <1>12, <1>t, <2>2 DEF Rollback, Leave, ControlTypes
  <2> QED
    BY <2>1, <2>2
<1>13. CASE MoveBackOpen(c)
  <2>0. ~RestoreBegin(c)
    BY <1>13 DEF MoveBackOpen, RestoreBegin
  <2>1. pc[c] = "move_back" /\ OpenCopy(c, Q, L) /\ pc'[c] = "moving_back"
    BY <1>13, <1>t DEF MoveBackOpen, Goes, ControlTypes, L, Q
  <2>2. PICK part \in Content : ~part.whole /\ file' = [file EXCEPT ![L] = part]
    BY <1>t, <1>a, <2>0, <2>1, OpenFacts
  <2>3. open'[c] = L /\ copied'[c] = file[Q]
    BY <1>t, <2>1 DEF OpenCopy, FileTypes
  <2>4. file'[L] # None /\ ~file'[L].whole /\ file'[Q] = file[Q]
    BY <1>t, <1>a, <1>e, <2>0, <2>2 DEF FileTypes
  <2> QED
    BY <1>a, <2>0, <2>1, <2>3, <2>4 DEF AtStep, L, Q
<1>14. CASE MoveBackUnlink(c)
  <2>1. asset'[c] = None
    BY <1>14, <1>t DEF MoveBackUnlink, Leave, ControlTypes
  <2> QED
    BY <2>1
<1>15. CASE RollbackRaises(c)
  <2>1. asset'[c] = None
    BY <1>15, <1>t DEF RollbackRaises, Leave, ControlTypes
  <2> QED
    BY <2>1
<1>16. CASE RestoreEnds(c)
  <2>1. asset'[c] = asset[c] /\ pc[c] \in {"idle", "next"}
    BY <1>16 DEF RestoreEnds, actorVars
  <2> QED
    BY <1>t, <2>1 DEF ControlTypes
<1> QED
  BY <1>1, <1>2, <1>3, <1>4, <1>5, <1>6, <1>7, <1>8, <1>9, <1>10, <1>11, <1>12, <1>13,
     <1>14, <1>15, <1>16 DEF RestoreStep

\* Every step leaves the file of a restored asset where the restore expects it.
LEMMA RestoresStep ==
    /\ Types
    /\ Types'
    /\ Writers
    /\ Writers'
    /\ Exclusive
    /\ Restores
    /\ [Next]_vars
  => Restores'
<1> SUFFICES ASSUME Types, Types', Writers, Writers', Exclusive, Restores, [Next]_vars
             PROVE  Restores'
  OBVIOUS
<1>t. FileTypes /\ ControlTypes /\ CallTypes
  BY TypeParts
<1> USE ActorFacts
<1>e. exposed \subseteq exposed'
  BY ExposedStays
<1> SUFFICES ASSUME NEW d \in Callers, asset'[d] # None, asset'[d] \notin exposed'
             PROVE  AtStep(d)'
  BY DEF Restores
<1>o. ASSUME /\ asset'[d] = asset[d] /\ pc'[d] = pc[d] /\ stamp'[d] = stamp[d]
             /\ copied'[d] = copied[d] /\ open'[d] = open[d]
             /\ \A p \in PathsOf(asset[d]) : file'[p] = file[p]
      PROVE  AtStep(d)'
  <2>1. asset[d] \in Assets /\ stamp[d] \in 0 .. MaxTime /\ AtStep(d)
    BY <1>o, <1>e, <1>t DEF Restores, ControlTypes, CallTypes
  <2>2. /\ file'[Library(asset[d])] = file[Library(asset[d])]
        /\ file'[Quarantine(asset[d], stamp[d])] = file[Quarantine(asset[d], stamp[d])]
    BY <1>o, <2>1, Apart
  <2> QED
    BY <1>o, <2>1, <2>2 DEF AtStep
<1>1. ASSUME NEW c \in Callers, RestoreStep(c) PROVE AtStep(d)'
  <2>1. CASE d = c
    BY <1>1, <1>e, <2>1, OwnStep DEF Restores
  <2>2. CASE d # c
    <3>1. /\ asset'[d] = asset[d] /\ pc'[d] = pc[d] /\ stamp'[d] = stamp[d]
          /\ copied'[d] = copied[d]
      BY <1>1, <2>2, RestoreLeaves
    <3>2. asset[d] \in Assets /\ asset[c] # asset[d]
      BY <1>t, <1>e, <2>2, <3>1 DEF ControlTypes, Exclusive
    <3>3. \A p \in PathsOf(asset[d]) : file'[p] = file[p]
      BY <1>1, <3>2, RestoreTouches, Apart
    <3>4. open'[d] = open[d]
      <4>1. CASE open[d] = None
        BY <1>1, <2>2, <4>1, RestoreOpens, Apart, NamesAssumption
      <4>2. CASE open[d] # None
        BY <1>1, <2>2, <3>2, <4>2, RestoreOpens, Apart DEF Writers
      <4> QED
        BY <4>1, <4>2
    <3> QED
      BY <1>o, <3>1, <3>3, <3>4
  <2> QED
    BY <2>1, <2>2
<1>2. CASE SyncStep \/ Tick \/ UNCHANGED vars \/ \E b \in Assets \ {asset[d]} : ImmichWrites(b)
  BY <1>2, <1>o, OthersLeave
<1>3. CASE ImmichWrites(asset[d])
  BY <1>3 DEF ImmichWrites, Restoring
<1>4. CASE Crash
  BY <1>4 DEF Crash
<1> QED
  BY <1>1, <1>2, <1>3, <1>4 DEF Next

\* Where a version of a may be kept.
Places(a) == {Library(a), Backup(a)} \cup {Quarantine(a, s) : s \in 0 .. MaxTime}

LEMMA KeptAt == \A a \in Assets, v \in Versions :
                   Kept(a, v) <=> \E p \in Places(a) : file[p] = Whole(v)
  BY DEF Kept, Places

LEMMA PlaceFacts ==
    /\ \A a \in Assets : Places(a) \subseteq PathsOf(a) \cup {Backup(a)}
    /\ \A a \in Assets : Places(a) \subseteq Paths /\ Library(Tmp(a)) \notin Places(a)
    /\ \A v \in Versions : Whole(v) \in Content /\ Whole(v) # None /\ Whole(v).whole
<1>1. \A v \in Versions : Whole(v) \in Content /\ Whole(v) # None /\ Whole(v).whole
  <2>1. \A v \in Versions : Whole(v) \in Content
    BY DEF Whole, Content
  <2>2. \A v \in Versions : Whole(v).whole
    BY DEF Whole
  <2> QED
    BY <2>1, <2>2, NamesAssumption
<1>2. \A a \in Assets : Places(a) \subseteq PathsOf(a) \cup {Backup(a)}
  BY DEF Places, PathsOf
<1>3. ASSUME NEW a \in Assets
      PROVE  Places(a) \subseteq Paths /\ Library(Tmp(a)) \notin Places(a)
  <2>1. Tmp(a) \in Names /\ a \in Names /\ Tmp(a) # a
    BY PathFacts
  <2>2. Library(Tmp(a)) # Library(a) /\ Library(Tmp(a)) # Backup(a)
    BY <2>1, PathFacts
  <2>3. \A s \in 0 .. MaxTime : Library(Tmp(a)) # Quarantine(a, s)
    BY <2>1, PathFacts
  <2>4. Places(a) \subseteq Paths
    BY <2>1, PathFacts DEF Places
  <2> QED
    BY <2>2, <2>3, <2>4 DEF Places
<1> QED
  BY <1>1, <1>2, <1>3

\* A step of an unexposed restore destroys no whole file but one it has a copy of.
LEMMA OwnKeeps ==
  ASSUME Types, Writers, MirrorAt, NEW c \in Callers, RestoreStep(c),
         asset[c] \in Assets, AtStep(c),
         NEW v \in Versions, NEW p \in Places(asset[c]), file[p] = Whole(v)
  PROVE  \E q \in Places(asset[c]) : file'[q] = Whole(v)
<1>t. FileTypes /\ ControlTypes /\ CallTypes
  BY TypeParts
<1> USE ActorFacts
<1> DEFINE a == asset[c]
           L == Library(a)
           M == Library(Tmp(a))
           Q == Quarantine(a, stamp[c])
<1>a. /\ stamp[c] \in 0 .. MaxTime /\ p \in Paths
      /\ L \in Paths /\ M \in Paths /\ Q \in Paths /\ L # M /\ L # Q /\ M # Q
      /\ L \in Places(a) /\ Q \in Places(a) /\ M \notin Places(a)
  BY <1>t, PathFacts, PlaceFacts DEF CallTypes, Places
<1>w. file[p] # None /\ file[p].whole
  BY PlaceFacts
<1>s. ASSUME file'[p] = file[p]
      PROVE  \E q \in Places(a) : file'[q] = Whole(v)
  BY <1>s
<1> HIDE DEF L, M, Q
<1> SUFFICES \E q \in Places(a) : file'[q] = Whole(v)
  OBVIOUS
<1> HIDE DEF a
<1>1. CASE RestoreReview(c)
  BY <1>1, <1>s DEF RestoreReview
<1>2. CASE RestoreSkip(c)
  BY <1>2, <1>s DEF RestoreSkip
<1>3. CASE RestoreBegin(c)
  BY <1>3, <1>s DEF RestoreBegin
<1>4. CASE MoveOpen(c)
  <2>1. pc[c] = "move" /\ OpenCopy(c, L, Q)
    BY <1>4 DEF MoveOpen, L, Q, a
  <2>2. p # Q
    BY <1>w, <2>1 DEF AtStep, Q, a
  <2> QED
    BY <1>t, <1>a, <1>s, <2>1, <2>2 DEF OpenCopy, FileTypes
<1>5. CASE MoveUnlink(c)
  <2>1. pc[c] = "unlink" /\ file' = [file EXCEPT ![L] = None]
    BY <1>5 DEF MoveUnlink, Unlink, L, a
  <2>2. file[Q] = file[L] /\ file'[Q] = file[Q]
    BY <1>t, <1>a, <2>1 DEF AtStep, FileTypes, L, Q, a
  <2> QED
    BY <1>t, <1>a, <1>s, <2>1, <2>2 DEF FileTypes
<1>6. CASE TempOpen(c)
  <2>1. OpenCopy(c, Backup(a), M)
    BY <1>6 DEF TempOpen, M, a
  <2>2. p # M
    BY <1>a DEF a
  <2> QED
    BY <1>t, <1>a, <1>s, <2>1, <2>2 DEF OpenCopy, FileTypes
<1>7. CASE RestoreClose(c)
  <2>1. CloseCopy(c) /\ copied[c] # None /\ pc[c] \in Copying
    BY <1>7 DEF RestoreClose, Writers, Copying
  <2>2. open[c] = None \/ p # open[c]
    <3>1. CASE pc[c] = "moving"
      BY <1>w, <3>1 DEF AtStep
    <3>2. CASE pc[c] = "copying"
      BY <1>a, <3>2 DEF AtStep, M, a
    <3>3. CASE pc[c] = "moving_back"
      BY <1>w, <3>3 DEF AtStep
    <3> QED
      BY <2>1, <3>1, <3>2, <3>3 DEF Copying
  <2>3. file' = file \/ \E kept \in Content : /\ open[c] # None
                                              /\ file' = [file EXCEPT ![open[c]] = kept]
    BY <1>t, <2>1, CloseFacts
  <2> QED
    BY <1>t, <1>a, <1>s, <2>2, <2>3 DEF FileTypes
<1>8. CASE RestoreReplace(c)
  <2>1. pc[c] = "replace" /\ Replace(M, L)
    BY <1>8 DEF RestoreReplace, M, L, a
  <2>2. p # L /\ p # M
    BY <1>a, <1>w, <2>1 DEF AtStep, L, a
  <2> QED
    BY <1>t, <1>a, <1>s, <2>1, <2>2, ReplaceFacts
<1>9. CASE RestoreVerify(c)
  BY <1>9, <1>s DEF RestoreVerify
<1>10. CASE RestoreRaises(c)
  BY <1>10, <1>s DEF RestoreRaises
<1>11. CASE RestoreCleanup(c)
  <2>1. file' = file \/ file' = [file EXCEPT ![M] = None]
    BY <1>11 DEF RestoreCleanup, Unlink, M, a
  <2>2. p # M
    BY <1>a DEF a
  <2> QED
    BY <1>t, <1>a, <1>s, <2>1, <2>2 DEF FileTypes
<1>12. CASE Rollback(c)
  BY <1>12, <1>s DEF Rollback
<1>13. CASE MoveBackOpen(c)
  <2>1. pc[c] = "move_back" /\ OpenCopy(c, Q, L)
    BY <1>13 DEF MoveBackOpen, L, Q, a
  <2>2. p # L
    BY <1>w, <2>1 DEF AtStep, L, a
  <2> QED
    BY <1>t, <1>a, <1>s, <2>1, <2>2 DEF OpenCopy, FileTypes
<1>14. CASE MoveBackUnlink(c)
  <2>1. pc[c] = "unlink_back" /\ file' = [file EXCEPT ![Q] = None]
    BY <1>14 DEF MoveBackUnlink, Unlink, Q, a
  <2>2. file[Q] = file[L] /\ file'[L] = file[L]
    BY <1>t, <1>a, <2>1 DEF AtStep, FileTypes, L, Q, a
  <2> QED
    BY <1>t, <1>a, <1>s, <2>1, <2>2 DEF FileTypes
<1>15. CASE RollbackRaises(c)
  BY <1>15, <1>s DEF RollbackRaises
<1>16. CASE RestoreEnds(c)
  BY <1>16, <1>s DEF RestoreEnds
<1> QED
  BY <1>1, <1>2, <1>3, <1>4, <1>5, <1>6, <1>7, <1>8, <1>9, <1>10, <1>11, <1>12, <1>13,
     <1>14, <1>15, <1>16 DEF RestoreStep

\* No step loses a version that is owed.
LEMMA NothingLostStep ==
    /\ Types
    /\ Types'
    /\ Writers
    /\ MirrorAt
    /\ Restores
    /\ NothingLost
    /\ [Next]_vars
  => NothingLost'
<1> SUFFICES ASSUME Types, Types', Writers, MirrorAt, Restores, NothingLost, [Next]_vars
             PROVE  NothingLost'
  OBVIOUS
<1>t. FileTypes /\ ControlTypes /\ CallTypes
  BY TypeParts
<1> USE ActorFacts
<1>e. exposed \subseteq exposed' /\ MirrorKept
  BY ExposedStays, MirrorStep
<1> SUFFICES ASSUME NEW a \in Assets, a \notin exposed', NEW v \in owed'[a]
             PROVE  Kept(a, v)'
  BY DEF NothingLost
<1>v. v \in Versions
  BY DEF Types, TypeOK
<1>k. ASSUME \E p \in Places(a) : file'[p] = Whole(v) PROVE Kept(a, v)'
  BY <1>k DEF Kept, Places
<1>o. ASSUME v \in owed[a] PROVE \E p \in Places(a) : file[p] = Whole(v)
  BY <1>e, <1>o, <1>v, KeptAt DEF NothingLost
\* It stays if only another asset's files and the mirror are written.
<1>f. ASSUME v \in owed[a], \A p \in PathsOf(a) : file'[p] = file[p] PROVE Kept(a, v)'
  <2>1. PICK p \in Places(a) : file[p] = Whole(v)
    BY <1>o, <1>f
  <2>2. CASE p = Backup(a)
    <3>1. file[Backup(a)] # None /\ file[Backup(a)].whole
      BY <1>v, <2>1, <2>2, PlaceFacts
    <3>2. file'[Backup(a)] = file[Backup(a)]
      BY <1>e, <3>1, PathFacts DEF MirrorKept
    <3> QED
      BY <1>k, <2>1, <2>2, <3>2
  <2>3. CASE p \in PathsOf(a)
    BY <1>f, <1>k, <2>1, <2>3
  <2> QED
    BY <2>1, <2>2, <2>3, PlaceFacts
<1>1. ASSUME NEW c \in Callers, RestoreStep(c) PROVE Kept(a, v)'
  <2>1. v \in owed[a]
    BY <1>1, RestoreLeaves
  <2>2. CASE asset[c] = a
    <3>1. AtStep(c)
      BY <1>e, <1>t, <2>2, PathFacts, NamesAssumption DEF Restores
    <3> QED
      BY <1>1, <1>k, <1>o, <1>v, <2>1, <2>2, <3>1, OwnKeeps
  <2>3. CASE asset[c] # a
    BY <1>1, <1>f, <2>1, <2>3, RestoreTouches, Apart
  <2> QED
    BY <2>2, <2>3
<1>2. ASSUME NEW b \in Assets, ImmichWrites(b) PROVE Kept(a, v)'
  <2>1. PICK new \in {None, Whole(spent["writes"] + 2)} :
           /\ file' = [file EXCEPT ![Library(b)] = new]
           /\ owed' = [owed EXCEPT ![b] =
                         (@ \ Held(b)) \cup (IF new = None THEN {} ELSE {new.version})]
    BY <1>2 DEF ImmichWrites
  <2>2. CASE a = b
    <3>1. v \in owed[a] \ Held(a) \/ (new # None /\ v = new.version)
      BY <1>t, <2>1, <2>2 DEF CallTypes
    <3>2. ASSUME new # None, v = new.version PROVE Kept(a, v)'
      <4>1. new = Whole(v)
        BY <2>1, <3>2 DEF Whole
      <4>2. file'[Library(a)] = new
        BY <1>t, <2>1, <2>2, PathFacts DEF FileTypes
      <4> QED
        BY <1>k, <4>1, <4>2 DEF Places
    <3>3. ASSUME v \in owed[a] \ Held(a) PROVE Kept(a, v)'
      <4>1. PICK p \in Places(a) : file[p] = Whole(v)
        BY <1>o, <3>3
      <4>2. p # Library(a)
        BY <1>v, <3>3, <4>1 DEF Held
      <4>3. file'[p] = file[p]
        BY <1>t, <2>1, <2>2, <4>2, PlaceFacts DEF FileTypes
      <4> QED
        BY <1>k, <4>1, <4>3
    <3> QED
      BY <3>1, <3>2, <3>3
  <2>3. CASE a # b
    <3>1. v \in owed[a]
      BY <1>t, <2>1, <2>3 DEF CallTypes
    <3>2. \A p \in PathsOf(a) : file'[p] = file[p]
      BY <1>t, <2>1, <2>3, Apart DEF FileTypes
    <3> QED
      BY <1>f, <3>1, <3>2
  <2> QED
    BY <2>2, <2>3
<1>3. CASE SyncStep \/ Tick \/ Crash \/ UNCHANGED vars
  <2>1. v \in owed[a]
    BY <1>3
       DEF SyncStep, SyncReview, SyncOpen, SyncClose, SyncVerify, SyncFails, SyncEnds, Tick,
           Crash, vars, history
  <2>2. \A p \in PathsOf(a) : file'[p] = file[p]
    <3>1. CASE SyncOpen
      <4>1. PICK n \in plan : OpenCopy(Sync, Library(n), Backup(n))
        BY <3>1 DEF SyncOpen
      <4> QED
        BY <1>t, <4>1, Apart DEF OpenCopy, FileTypes, CallTypes
    <3>2. CASE SyncClose
      <4>1. open[Sync] = Backup(asset[Sync]) /\ copied[Sync] # None /\ asset[Sync] \in Names
        BY <3>2, <1>t DEF SyncClose, Writers, ControlTypes
      <4>2. \A p \in Paths : p # Backup(asset[Sync]) => file'[p] = file[p]
        BY <3>2, <1>t, <4>1, CloseFacts DEF SyncClose, FileTypes
      <4> QED
        BY <4>1, <4>2, Apart
    <3>3. CASE SyncReview \/ SyncVerify \/ SyncFails \/ SyncEnds \/ Tick \/ Crash \/ UNCHANGED vars
      BY <3>3 DEF SyncReview, SyncVerify, SyncFails, SyncEnds, Tick, Crash, vars
    <3> QED
      BY <1>3, <3>1, <3>2, <3>3 DEF SyncStep
  <2> QED
    BY <1>f, <2>1, <2>2
<1> QED
  BY <1>1, <1>2, <1>3 DEF Next

-----------------------------------------------------------------------------
(* The theorems.                                                            *)

LEMMA InitInv == Init => Inv
<1> SUFFICES ASSUME Init PROVE Inv
  OBVIOUS
<1> USE ActorFacts
<1>1. PICK lib \in [Assets -> {None, Whole(0)}], bak \in [Assets -> {None, Whole(0), Whole(1)}] :
         /\ file = [p \in Paths |->
                      IF p[2] \notin Assets THEN None
                      ELSE CASE p[1] = "library" -> lib[p[2]]
                             [] p[1] = "backup"  -> bak[p[2]]
                             [] OTHER            -> None]
         /\ owed = [a \in Assets |-> IF lib[a] = None THEN {} ELSE {0}]
  BY DEF Init
<1>2. 0 \in Versions /\ 1 \in Versions /\ Whole(0) \in Content /\ Whole(1) \in Content
  BY BoundsAssumption DEF Versions, Whole, Content
<1>3. /\ Whole(0).version = 0 /\ Whole(1).version = 1
  BY DEF Whole
<1>4. \A n \in Assets : file[Library(n)] = lib[n] /\ file[Backup(n)] = bak[n]
  BY <1>1, PathFacts DEF Library, Backup
<1>5. \A a \in Assets : file[Library(Tmp(a))] = None /\ file[Backup(Tmp(a))] = None
  BY <1>1, PathFacts, NamesAssumption DEF Library, Backup
<1>6. \A a \in Assets, s \in 0 .. MaxTime : file[Quarantine(a, s)] = None
  BY <1>1, PathFacts DEF Quarantine
<1>7. \A p \in Paths : file[p] \in {None, Whole(0), Whole(1)}
  BY <1>4, <1>5, <1>6 DEF Paths, Names
<1>8. file \in [Paths -> Content \cup {None}]
  BY <1>1, <1>2, <1>7
<1>9. Types
  <2>1. owed \in [Assets -> SUBSET Versions]
    BY <1>1, <1>2
  <2>2. << >> \in Seq(Assets) /\ 0 \in 0 .. MaxTime
    BY BoundsAssumption
  <2> QED
    BY <1>8, <2>1, <2>2 DEF Init, Types, TypeOK, RestoreSteps
<1>10. Numbered
  BY <1>3, <1>7 DEF Init, Numbered, Known, Bounded
<1>11. Writers /\ MirrorAt /\ Pristine /\ Covers /\ ReportAt /\ Exclusive /\ Restores
  <2>1. Writers /\ MirrorAt /\ Exclusive /\ Restores /\ Covers /\ ReportAt
    BY NamesAssumption
       DEF Init, Writers, MirrorAt, Exclusive, Restores, Covers, ReportAt, Copying
  <2>2. Pristine
    BY <1>5, <1>6, PathFacts, NamesAssumption DEF Init, Pristine, Untouched
  <2> QED
    BY <2>1, <2>2
<1>12. NothingLost
  <2> SUFFICES ASSUME NEW a \in Assets, NEW v \in owed[a] PROVE file[Library(a)] = Whole(v)
    BY DEF NothingLost, Kept
  <2>1. v = 0 /\ lib[a] # None
    BY <1>1
  <2> QED
    BY <1>4, <2>1
<1> QED
  BY <1>9, <1>10, <1>11, <1>12 DEF Inv

LEMMA InvStep == Inv /\ [Next]_vars => Inv'
<1> SUFFICES ASSUME Inv, [Next]_vars PROVE Inv'
  OBVIOUS
<1> USE DEF Inv
<1>1. Types' /\ Writers'
  BY TypesStep, WritersStep
<1>2. MirrorAt'
  BY MirrorStep
<1>3. Numbered'
  BY <1>1, NumberedStep
<1>4. Pristine'
  BY PristineStep
<1>5. Covers' /\ ReportAt'
  BY <1>1, CoversStep
<1>6. Exclusive'
  BY ExclusiveStep
<1>7. Restores'
  BY <1>1, RestoresStep
<1>8. NothingLost'
  BY <1>1, NothingLostStep
<1> QED
  BY <1>1, <1>2, <1>3, <1>4, <1>5, <1>6, <1>7, <1>8

\* The inductive invariant holds in every reachable state
\* (backup_asset_workflow_service.py as a whole).
THEOREM SpecInv == Spec => []Inv
  BY InitInv, InvStep, PTL DEF Spec

\* A restore, whatever step of it fails or is the last before a crash, leaves every
\* version that Immich did not itself discard whole in the library, the mirror or the
\* quarantine, for assets restored one at a time (_restore_one).
THEOREM RestoreLosesNothing == Spec => []NothingLost
<1>1. Inv => NothingLost
  BY DEF Inv
<1> QED
  BY <1>1, SpecInv, PTL

\* A sync that reports "completed" has left every asset it compared, unless its
\* library file has changed since, in the mirror as it saw it (sync_missing).
THEOREM CompletedIsCovered == Spec => []CompletedMeansCovered
<1>1. Inv => CompletedMeansCovered
  <2> SUFFICES ASSUME Inv, report = "completed", NEW a \in Assets, reviewed[a] # None,
                      file[Library(a)] = reviewed[a]
               PROVE  file[Backup(a)] = reviewed[a]
    BY DEF CompletedMeansCovered
  <2>1. CoveredOr(a) /\ pc[Sync] = "idle" /\ plan = {}
    BY DEF Inv, Covers, ReportAt, Types
  <2>2. ~Gone(a)
    BY Apart DEF Gone, Other
  <2> QED
    BY <2>1, <2>2 DEF CoveredOr
<1> QED
  BY <1>1, SpecInv, PTL

\* No step touches a whole copy in the mirror (SYNC_ELIGIBLE_STATUSES).
THEOREM MirrorIsKept == Spec => MirrorOnlyGrows
<1>1. Inv /\ [Next]_vars => MirrorKept
  BY MirrorStep DEF Inv
<1>2. MirrorKept => [\A n \in Names : Exists(Backup(n)) /\ file[Backup(n)].whole
                                        => file'[Backup(n)] = file[Backup(n)]]_vars
  BY DEF MirrorKept, Exists
<1> QED
  BY <1>1, <1>2, SpecInv, PTL DEF Spec, MirrorOnlyGrows
=============================================================================
