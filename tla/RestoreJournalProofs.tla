------------------------ MODULE RestoreJournalProofs ------------------------
(***************************************************************************)
(* A restore and its recovery, for every set of entries and every number   *)
(* of recoverers, crashes and faults.                                      *)
(***************************************************************************)
EXTENDS RestoreJournal, TLAPS

USE ProcessAssumption, NamesAssumption, TroubleAssumption
USE DEF Nodes, Stages, Terminal, RStages, Filling, Working, Busy

\* Before a restore, nothing is aside and nobody is at work.
LEMMA InitInv == Init => RestoreInd
<1> SUFFICES ASSUME Init PROVE RestoreInd
  OBVIOUS
<1> USE DEF Init
<1>1. TypeOK
  <2>1. cur \in Names
    OBVIOUS
  <2>2. rcur \in [Recoverers -> Names]
    <3>1. rcur = [b \in Recoverers |-> cur]
      BY Zenon
    <3> HIDE DEF Init
    <3> QED
      BY <2>1, <3>1
  <2>3. /\ leaf \in [Names -> Nodes] /\ aside \in [Names -> BOOLEAN]
        /\ kept \in [Names -> BOOLEAN]
        /\ rpc \in [Recoverers -> RStages] /\ rtodo \in [Recoverers -> SUBSET Names]
    OBVIOUS
  <2>4. journal \in [linked: BOOLEAN, holder: Recoverers \cup {Restorer, NoOne},
                     asides: SUBSET Names, wrote: SUBSET Names, synced: SUBSET Names,
                     committed: BOOLEAN]
    OBVIOUS
  <2>5. moved \subseteq journal.asides /\ todo \in SUBSET Names /\ leaves \in SUBSET Names
    OBVIOUS
  <2>6. pc \in Stages /\ failed \in BOOLEAN /\ early \in BOOLEAN /\ stuck \in SUBSET Names
    OBVIOUS
  <2>7. troubles \in 0..MaxTroubles
    <3>1. troubles = 0
      BY Zenon
    <3> HIDE DEF Init
    <3> QED
      BY <3>1
  <2> QED
    BY <2>1, <2>2, <2>3, <2>4, <2>5, <2>6, <2>7, Zenon DEF TypeOK
<1> QED
  BY <1>1
     DEF RestoreInd, OneAtWork, NotBegun, ToRestore, AtEntry, AsideKnown, MovedAside,
         WrittenOver, OwnLeaves, FailedUndo, RecoverRight, JournalLast, OriginalSafe

\* The number of troubles stays within its bound.
LEMMA FaultTyped ==
  ASSUME troubles \in 0..MaxTroubles, Fault
  PROVE  troubles' \in 0..MaxTroubles
BY DEF Fault

\* While the restore is at work, no recoverer is.
LEMMA RestorerAlone ==
  ASSUME RestoreInd, pc \in Working
  PROVE  \A b \in Recoverers : rpc[b] \notin Busy
BY DEF RestoreInd, OneAtWork

\* While a recoverer is at work, neither the restore nor another recoverer is.
LEMMA RecovererAlone ==
  ASSUME RestoreInd, NEW b \in Recoverers, rpc[b] \in Busy
  PROVE  pc \notin Working /\ \A c \in Recoverers \ {b} : rpc[c] \notin Busy
BY DEF RestoreInd, OneAtWork

\* The journal is created before anything is touched.
LEMMA CreateJournalInv ==
  ASSUME RestoreInd, CreateJournal
  PROVE  RestoreInd'
<1> USE DEF RestoreInd, TypeOK, CreateJournal, tree, restore, recovery, trouble
<1>1. TypeOK' /\ OneAtWork' /\ NotBegun' /\ ToRestore' /\ AtEntry' /\ AsideKnown'
  BY DEF OneAtWork, NotBegun, ToRestore, AtEntry, AsideKnown
<1>2. MovedAside' /\ WrittenOver' /\ OwnLeaves' /\ FailedUndo' /\ OriginalSafe'
  BY DEF MovedAside, WrittenOver, OwnLeaves, FailedUndo, OriginalSafe
<1>3. RecoverRight'
  BY DEF RecoverRight, NotBegun
<1>4. JournalLast'
  BY DEF JournalLast, NotBegun
<1> QED
  BY <1>1, <1>2, <1>3, <1>4

\* The restore locks its journal with the tree still as it was.
LEMMA LockJournalInv ==
  ASSUME RestoreInd, LockJournal
  PROVE  RestoreInd'
<1> USE DEF RestoreInd, TypeOK, LockJournal, tree, restore, recovery, trouble
<1>1. TypeOK' /\ OneAtWork' /\ NotBegun' /\ ToRestore'
  BY DEF OneAtWork, NotBegun, ToRestore
<1>2. AtEntry' /\ FailedUndo' /\ JournalLast' /\ OriginalSafe'
  BY DEF AtEntry, FailedUndo, JournalLast, OriginalSafe
<1>3. AsideKnown' /\ MovedAside' /\ WrittenOver' /\ OwnLeaves'
  BY DEF AsideKnown, MovedAside, WrittenOver, OwnLeaves, NotBegun
<1>4. RecoverRight'
  BY DEF RecoverRight, OneAtWork
<1> QED
  BY <1>1, <1>2, <1>3, <1>4

\* The original gets a second name, which the journal holds.
LEMMA LinkAsideInv ==
  ASSUME RestoreInd, LinkAside
  PROVE  RestoreInd'
<1> USE DEF RestoreInd, TypeOK, LinkAside, tree, restore, recovery, trouble
<1>1. TypeOK' /\ OneAtWork' /\ NotBegun' /\ ToRestore' /\ AtEntry' /\ MovedAside'
  BY DEF OneAtWork, NotBegun, ToRestore, AtEntry, MovedAside
<1>2. WrittenOver' /\ OwnLeaves' /\ FailedUndo' /\ JournalLast' /\ OriginalSafe'
  BY DEF WrittenOver, OwnLeaves, FailedUndo, JournalLast, OriginalSafe
<1>3. AsideKnown'
  BY DEF AsideKnown, AtEntry
<1>4. RecoverRight'
  BY RestorerAlone DEF RecoverRight
<1> QED
  BY <1>1, <1>2, <1>3, <1>4

\* The original leaves its name once it is at its aside.
LEMMA UnlinkLeafInv ==
  ASSUME RestoreInd, UnlinkLeaf
  PROVE  RestoreInd'
<1> USE DEF RestoreInd, TypeOK, UnlinkLeaf, tree, restore, recovery, trouble
<1>1. OneAtWork' /\ NotBegun' /\ ToRestore' /\ AtEntry' /\ AsideKnown'
  BY DEF OneAtWork, NotBegun, ToRestore, AtEntry, AsideKnown
<1>2. WrittenOver' /\ OwnLeaves' /\ FailedUndo' /\ JournalLast'
  BY DEF WrittenOver, OwnLeaves, FailedUndo, JournalLast
<1>3. TypeOK'
  BY DEF AtEntry
<1>4. MovedAside' /\ OriginalSafe'
  BY DEF MovedAside, OriginalSafe, AtEntry
<1>5. RecoverRight'
  BY RestorerAlone DEF RecoverRight
<1> QED
  BY <1>1, <1>2, <1>3, <1>4, <1>5

\* The restore makes its file where nothing is.
LEMMA CreateLeafInv ==
  ASSUME RestoreInd, CreateLeaf
  PROVE  RestoreInd'
<1> USE DEF RestoreInd, TypeOK, CreateLeaf, tree, restore, recovery, trouble
<1>1. TypeOK' /\ OneAtWork' /\ NotBegun' /\ ToRestore' /\ AtEntry' /\ AsideKnown'
  BY DEF OneAtWork, NotBegun, ToRestore, AtEntry, AsideKnown
<1>2. MovedAside' /\ WrittenOver' /\ OwnLeaves' /\ FailedUndo' /\ JournalLast'
  BY DEF MovedAside, WrittenOver, OwnLeaves, FailedUndo, JournalLast
<1>3. OriginalSafe'
  BY DEF OriginalSafe, AtEntry
<1>4. RecoverRight'
  BY RestorerAlone DEF RecoverRight
<1> QED
  BY <1>1, <1>2, <1>3, <1>4

\* What the restore writes over has its original aside.
LEMMA CopyDataInv ==
  ASSUME RestoreInd, CopyData
  PROVE  RestoreInd'
<1> USE DEF RestoreInd, TypeOK, CopyData, tree, restore, recovery, trouble
<1>1. TypeOK' /\ OneAtWork' /\ NotBegun' /\ ToRestore' /\ AtEntry'
  BY DEF OneAtWork, NotBegun, ToRestore, AtEntry
<1>2. AsideKnown' /\ MovedAside' /\ FailedUndo' /\ JournalLast'
  BY DEF AsideKnown, MovedAside, FailedUndo, JournalLast
<1>3. WrittenOver'
  BY DEF WrittenOver, MovedAside
<1>4. OwnLeaves' /\ OriginalSafe'
  BY DEF OwnLeaves, OriginalSafe, AtEntry
<1>5. RecoverRight'
  BY RestorerAlone DEF RecoverRight
<1> QED
  BY <1>1, <1>2, <1>3, <1>4, <1>5

\* A file is journaled as written while its original is aside.
LEMMA JournalWroteInv ==
  ASSUME RestoreInd, JournalWrote
  PROVE  RestoreInd'
<1> USE DEF RestoreInd, TypeOK, JournalWrote, tree, restore, recovery, trouble
<1>1. TypeOK' /\ OneAtWork' /\ NotBegun' /\ ToRestore' /\ AtEntry' /\ AsideKnown'
  BY DEF OneAtWork, NotBegun, ToRestore, AtEntry, AsideKnown
<1>2. MovedAside' /\ OwnLeaves' /\ FailedUndo' /\ JournalLast' /\ OriginalSafe'
  BY DEF MovedAside, OwnLeaves, FailedUndo, JournalLast, OriginalSafe
<1>3. WrittenOver'
  BY DEF WrittenOver, MovedAside
<1>4. RecoverRight'
  BY RestorerAlone DEF RecoverRight
<1> QED
  BY <1>1, <1>2, <1>3, <1>4

\* The last entry is done: nothing changes in the tree.
LEMMA FinishInv ==
  ASSUME RestoreInd, Finish
  PROVE  RestoreInd'
<1> USE DEF RestoreInd, TypeOK, Finish, tree, restore, recovery, trouble
<1>1. TypeOK' /\ OneAtWork' /\ NotBegun' /\ ToRestore' /\ AtEntry' /\ AsideKnown'
  BY DEF OneAtWork, NotBegun, ToRestore, AtEntry, AsideKnown
<1>2. MovedAside' /\ WrittenOver' /\ OwnLeaves' /\ FailedUndo' /\ JournalLast' /\ OriginalSafe'
  BY DEF MovedAside, WrittenOver, OwnLeaves, FailedUndo, JournalLast, OriginalSafe
<1>3. RecoverRight'
  BY RestorerAlone DEF RecoverRight
<1> QED
  BY <1>1, <1>2, <1>3

\* The verdict of the verification touches nothing.
LEMMA VerifyInv ==
  ASSUME RestoreInd, Verify
  PROVE  RestoreInd'
<1> USE DEF RestoreInd, TypeOK, Verify, tree, restore, recovery, trouble
<1>1. TypeOK' /\ OneAtWork' /\ NotBegun' /\ ToRestore' /\ AtEntry' /\ AsideKnown'
  BY DEF OneAtWork, NotBegun, ToRestore, AtEntry, AsideKnown
<1>2. MovedAside' /\ WrittenOver' /\ OwnLeaves' /\ FailedUndo' /\ JournalLast' /\ OriginalSafe'
  BY DEF MovedAside, WrittenOver, OwnLeaves, FailedUndo, JournalLast, OriginalSafe
<1>3. RecoverRight'
  BY RestorerAlone DEF RecoverRight
<1> QED
  BY <1>1, <1>2, <1>3

\* The commit mark comes before any original is dropped.
LEMMA MarkKeptInv ==
  ASSUME RestoreInd, MarkKept
  PROVE  RestoreInd'
<1> USE DEF RestoreInd, TypeOK, MarkKept, tree, restore, recovery, trouble
<1>1. /\ journal' \in [linked: BOOLEAN, holder: Recoverers \cup {Restorer, NoOne},
                       asides: SUBSET Names, wrote: SUBSET Names, synced: SUBSET Names,
                       committed: BOOLEAN]
      /\ journal'.linked = journal.linked /\ journal'.holder = journal.holder
      /\ journal'.asides = journal.asides /\ journal'.wrote = journal.wrote
      /\ journal'.synced \in {journal.synced, journal.wrote}
      /\ journal.committed => journal'.committed
      /\ pc = "mark" /\ pc' \in {"drop", "undo"} /\ (pc' = "drop" => journal'.committed)
  <2>1. CASE journal' = [journal EXCEPT !.committed = TRUE, !.synced = journal.wrote]
        /\ pc' = "drop"
    BY <2>1
  <2>2. CASE journal' = journal /\ pc' = "undo"
    BY <2>2
  <2>3. CASE journal' = [journal EXCEPT !.committed = TRUE] /\ pc' = "undo"
    BY <2>3
  <2> QED
    BY <2>1, <2>2, <2>3
<1>2. TypeOK'
  BY <1>1
<1>3. OneAtWork' /\ NotBegun' /\ ToRestore' /\ AtEntry'
  BY <1>1 DEF OneAtWork, NotBegun, ToRestore, AtEntry
<1>4. AsideKnown' /\ MovedAside' /\ OwnLeaves' /\ FailedUndo' /\ JournalLast'
  BY <1>1 DEF AsideKnown, MovedAside, OwnLeaves, FailedUndo, JournalLast
<1>5. WrittenOver' /\ OriginalSafe'
  BY <1>1 DEF WrittenOver, OriginalSafe
<1>6. RecoverRight'
  BY RestorerAlone DEF RecoverRight
<1> QED
  BY <1>2, <1>3, <1>4, <1>5, <1>6

\* The journal of a kept restore is closed when no original is aside.
LEMMA CloseKeptInv ==
  ASSUME RestoreInd, CloseKept
  PROVE  RestoreInd'
<1> USE DEF RestoreInd, TypeOK, CloseKept, tree, restore, recovery, trouble
<1> USE DEF Closed
<1>1. TypeOK'
  OBVIOUS
<1>2. OneAtWork' /\ NotBegun'
  BY DEF OneAtWork, NotBegun
<1>3. ToRestore' /\ AtEntry' /\ AsideKnown' /\ MovedAside' /\ WrittenOver'
  BY DEF ToRestore, AtEntry, AsideKnown, MovedAside, WrittenOver
<1>4. OwnLeaves' /\ FailedUndo' /\ OriginalSafe'
  BY DEF OwnLeaves, FailedUndo, OriginalSafe
<1>5. JournalLast'
  BY DEF JournalLast, AsideKnown, FailedUndo
<1>6. RecoverRight'
  BY RestorerAlone DEF RecoverRight
<1> QED
  BY <1>1, <1>2, <1>3, <1>4, <1>5, <1>6

\* An original leaves its aside once it is back at its name.
LEMMA PutBackUnlinkInv ==
  ASSUME RestoreInd, PutBackUnlink
  PROVE  RestoreInd'
<1> USE DEF RestoreInd, TypeOK, PutBackUnlink, Fault, tree, restore, recovery, trouble
<1>0. TypeOK'
  <2>1. troubles' \in 0..MaxTroubles
    BY FaultTyped
  <2>2. leaf' \in [Names -> Nodes] /\ aside' \in [Names -> BOOLEAN]
    OBVIOUS
  <2>3. moved' \subseteq journal.asides /\ leaves' \in SUBSET Names /\ stuck' \in SUBSET Names
    OBVIOUS
  <2>4. pc' \in Stages /\ cur' \in Names /\ failed' \in BOOLEAN
    OBVIOUS
  <2> QED
    BY <2>1, <2>2, <2>3, <2>4
<1>1. OneAtWork' /\ NotBegun' /\ ToRestore' /\ AtEntry'
  BY DEF OneAtWork, NotBegun, ToRestore, AtEntry
<1>2. AsideKnown' /\ OwnLeaves' /\ FailedUndo' /\ JournalLast'
  BY DEF AsideKnown, OwnLeaves, FailedUndo, JournalLast
<1>3. MovedAside' /\ WrittenOver' /\ OriginalSafe'
  BY DEF MovedAside, WrittenOver, OriginalSafe, AtEntry
<1>4. RecoverRight'
  BY RestorerAlone DEF RecoverRight
<1> QED
  BY <1>0, <1>1, <1>2, <1>3, <1>4

\* The journal of an undone restore is closed when every original is back.
LEMMA CloseUndoneInv ==
  ASSUME RestoreInd, CloseUndone
  PROVE  RestoreInd'
<1> USE DEF RestoreInd, TypeOK, CloseUndone, tree, restore, recovery, trouble
<1> USE DEF Closed
<1>1. TypeOK'
  OBVIOUS
<1>2. OneAtWork' /\ NotBegun'
  BY DEF OneAtWork, NotBegun
<1>3. ToRestore' /\ AtEntry' /\ AsideKnown' /\ MovedAside' /\ WrittenOver'
  BY DEF ToRestore, AtEntry, AsideKnown, MovedAside, WrittenOver
<1>4. OwnLeaves' /\ FailedUndo' /\ OriginalSafe'
  BY DEF OwnLeaves, FailedUndo, OriginalSafe
<1>5. JournalLast'
  BY DEF JournalLast, AsideKnown
<1>6. RecoverRight'
  BY RestorerAlone DEF RecoverRight
<1> QED
  BY <1>1, <1>2, <1>3, <1>4, <1>5, <1>6

\* A failed call leaves everything to the undo.
LEMMA FailInv ==
  ASSUME RestoreInd, Fail
  PROVE  RestoreInd'
<1> USE DEF RestoreInd, TypeOK, Fail, tree, restore, recovery, trouble
<1>1. TypeOK' /\ OneAtWork' /\ NotBegun' /\ ToRestore' /\ AtEntry' /\ AsideKnown'
  BY DEF OneAtWork, NotBegun, ToRestore, AtEntry, AsideKnown
<1>2. MovedAside' /\ WrittenOver' /\ OwnLeaves' /\ FailedUndo' /\ JournalLast' /\ OriginalSafe'
  BY DEF MovedAside, WrittenOver, OwnLeaves, FailedUndo, JournalLast, OriginalSafe
<1>3. RecoverRight'
  BY RestorerAlone DEF RecoverRight
<1> QED
  BY <1>1, <1>2, <1>3

\* A crash may lose unsynced lines, and leaves the journal to recover.
LEMMA CrashInv ==
  ASSUME RestoreInd, Crash
  PROVE  RestoreInd'
<1> USE DEF RestoreInd, TypeOK, Crash, tree, restore, recovery, trouble
<1>1. TypeOK'
  <2>1. PICK w \in {journal.wrote, journal.synced} :
          journal' = [journal EXCEPT !.wrote = w,
                                     !.holder = IF @ = Restorer THEN NoOne ELSE @]
    OBVIOUS
  <2>2. w \in SUBSET Names /\ pc' \in Stages
    OBVIOUS
  <2> QED
    BY <2>1, <2>2
<1>2. OneAtWork' /\ NotBegun'
  BY DEF OneAtWork, NotBegun
<1>3. ToRestore' /\ AtEntry' /\ AsideKnown' /\ MovedAside'
  BY DEF ToRestore, AtEntry, AsideKnown, MovedAside
<1>4. WrittenOver' /\ OwnLeaves' /\ FailedUndo' /\ JournalLast' /\ OriginalSafe'
  BY DEF WrittenOver, OwnLeaves, FailedUndo, JournalLast, OriginalSafe
<1>5. RecoverRight'
  BY DEF RecoverRight, StillAsWritten, WrittenOver
<1> QED
  BY <1>1, <1>2, <1>3, <1>4, <1>5

\* An identical original stays as it is.
LEMMA SkipUnchangedInv ==
  ASSUME RestoreInd, NEW n \in Names, SkipUnchanged(n)
  PROVE  RestoreInd'
<1> USE DEF RestoreInd, TypeOK, SkipUnchanged, tree, restore, recovery, trouble
<1>1. TypeOK' /\ OneAtWork' /\ NotBegun' /\ ToRestore' /\ AtEntry' /\ AsideKnown'
  BY DEF OneAtWork, NotBegun, ToRestore, AtEntry, AsideKnown
<1>2. MovedAside' /\ WrittenOver' /\ OwnLeaves' /\ FailedUndo' /\ JournalLast' /\ OriginalSafe'
  BY DEF MovedAside, WrittenOver, OwnLeaves, FailedUndo, JournalLast, OriginalSafe
<1>3. RecoverRight'
  BY RestorerAlone DEF RecoverRight
<1> QED
  BY <1>1, <1>2, <1>3

\* A name that is taken holds its original, and is journaled first.
LEMMA BeginEntryInv ==
  ASSUME RestoreInd, NEW n \in Names, BeginEntry(n)
  PROVE  RestoreInd'
<1> USE DEF RestoreInd, TypeOK, BeginEntry, tree, restore, recovery, trouble
<1>1. RecoverRight'
  BY RestorerAlone DEF RecoverRight
<1>2. CASE leaf[n] = "none"
  <2> USE <1>2
  <2>1. TypeOK' /\ OneAtWork' /\ NotBegun' /\ ToRestore' /\ AtEntry'
    BY DEF OneAtWork, NotBegun, ToRestore, AtEntry
  <2>2. AsideKnown' /\ MovedAside' /\ WrittenOver' /\ OwnLeaves'
    BY DEF AsideKnown, MovedAside, WrittenOver, OwnLeaves
  <2>3. FailedUndo' /\ JournalLast' /\ OriginalSafe'
    BY DEF FailedUndo, JournalLast, OriginalSafe
  <2> QED
    BY <1>1, <2>1, <2>2, <2>3
<1>3. CASE leaf[n] # "none"
  <2>1. leaf[n] = "orig" /\ n \notin journal.asides
    BY <1>3 DEF ToRestore
  <2>2. /\ journal' \in [linked: BOOLEAN, holder: Recoverers \cup {Restorer, NoOne},
                         asides: SUBSET Names, wrote: SUBSET Names, synced: SUBSET Names,
                         committed: BOOLEAN]
        /\ journal'.linked = journal.linked /\ journal'.holder = journal.holder
        /\ journal'.wrote = journal.wrote /\ journal'.committed = journal.committed
        /\ journal'.asides = journal.asides \cup {n} /\ journal'.synced = journal.wrote
        /\ pc = "entry" /\ pc' = "link" /\ cur' = n /\ n \in todo
        /\ UNCHANGED <<tree, todo, leaves, moved, failed, recovery, trouble>>
    <3>1. /\ journal' = [journal EXCEPT !.asides = @ \cup {n}, !.synced = journal.wrote]
          /\ pc = "entry" /\ pc' = "link" /\ cur' = n /\ n \in todo
          /\ UNCHANGED <<tree, todo, leaves, moved, failed, recovery, trouble>>
      BY <1>3, Zenon
    <3>2. n \in Names
          /\ journal \in [linked: BOOLEAN, holder: Recoverers \cup {Restorer, NoOne},
                         asides: SUBSET Names, wrote: SUBSET Names, synced: SUBSET Names,
                         committed: BOOLEAN]
      OBVIOUS
    <3> HIDE DEF BeginEntry, RestoreInd
    <3> QED
      BY <3>1, <3>2
  <2> HIDE DEF BeginEntry
  <2>3. TypeOK' /\ OneAtWork' /\ NotBegun'
    BY <2>2 DEF OneAtWork, NotBegun
  <2>4. ToRestore' /\ AtEntry'
    BY <2>1, <2>2 DEF ToRestore, AtEntry
  <2>5. AsideKnown' /\ MovedAside' /\ WrittenOver' /\ OwnLeaves'
    BY <2>1, <2>2 DEF AsideKnown, MovedAside, WrittenOver, OwnLeaves
  <2>6. FailedUndo' /\ JournalLast' /\ OriginalSafe'
    BY <2>1, <2>2 DEF FailedUndo, JournalLast, OriginalSafe
  <2> QED
    BY <1>1, <2>3, <2>4, <2>5, <2>6
<1> QED
  BY <1>2, <1>3

\* An original is dropped after the commit mark.
LEMMA DropAsideInv ==
  ASSUME RestoreInd, NEW n \in Names, DropAside(n)
  PROVE  RestoreInd'
<1> USE DEF RestoreInd, TypeOK, DropAside, Fault, tree, restore, recovery, trouble
<1>0. TypeOK'
  <2>1. troubles' \in 0..MaxTroubles
    BY FaultTyped
  <2>2. leaf' \in [Names -> Nodes] /\ aside' \in [Names -> BOOLEAN]
    OBVIOUS
  <2>3. moved' \subseteq journal.asides /\ leaves' \in SUBSET Names /\ stuck' \in SUBSET Names
    OBVIOUS
  <2>4. pc' \in Stages /\ cur' \in Names /\ failed' \in BOOLEAN
    OBVIOUS
  <2> QED
    BY <2>1, <2>2, <2>3, <2>4
<1>1. OneAtWork' /\ NotBegun' /\ ToRestore' /\ AtEntry'
  BY DEF OneAtWork, NotBegun, ToRestore, AtEntry
<1>2. AsideKnown' /\ MovedAside' /\ OwnLeaves' /\ FailedUndo' /\ JournalLast'
  BY DEF AsideKnown, MovedAside, OwnLeaves, FailedUndo, JournalLast
<1>3. WrittenOver' /\ OriginalSafe'
  BY DEF WrittenOver, OriginalSafe, AtEntry
<1>4. RecoverRight'
  BY RestorerAlone DEF RecoverRight
<1> QED
  BY <1>0, <1>1, <1>2, <1>3, <1>4

\* An undo removes the restore's own files before it puts originals back.
LEMMA RemoveOwnedInv ==
  ASSUME RestoreInd, NEW n \in Names, RemoveOwned(n)
  PROVE  RestoreInd'
<1> USE DEF RestoreInd, TypeOK, RemoveOwned, Fault, tree, restore, recovery, trouble
<1>0. TypeOK'
  <2>1. troubles' \in 0..MaxTroubles
    BY FaultTyped
  <2>2. leaf' \in [Names -> Nodes] /\ aside' \in [Names -> BOOLEAN]
    OBVIOUS
  <2>3. moved' \subseteq journal.asides /\ leaves' \in SUBSET Names /\ stuck' \in SUBSET Names
    OBVIOUS
  <2>4. pc' \in Stages /\ cur' \in Names /\ failed' \in BOOLEAN
    OBVIOUS
  <2> QED
    BY <2>1, <2>2, <2>3, <2>4
<1>1. OneAtWork' /\ NotBegun' /\ ToRestore' /\ AtEntry' /\ AsideKnown'
  BY DEF OneAtWork, NotBegun, ToRestore, AtEntry, AsideKnown
<1>2. MovedAside' /\ WrittenOver' /\ OwnLeaves' /\ FailedUndo' /\ JournalLast' /\ OriginalSafe'
  BY DEF MovedAside, WrittenOver, OwnLeaves, FailedUndo, JournalLast, OriginalSafe
<1>3. RecoverRight'
  BY RestorerAlone DEF RecoverRight
<1> QED
  BY <1>0, <1>1, <1>2, <1>3

\* An undo puts an original back where its name is free, or leaves it aside.
LEMMA PutBackInv ==
  ASSUME RestoreInd, NEW n \in Names, PutBack(n)
  PROVE  RestoreInd'
<1> USE DEF RestoreInd, TypeOK, PutBack, Fault, tree, restore, recovery, trouble
<1>1. TypeOK'
  <2>1. troubles' \in 0..MaxTroubles
    BY FaultTyped
  <2>2. leaf' \in [Names -> Nodes] /\ aside' \in [Names -> BOOLEAN]
    OBVIOUS
  <2>3. moved' \subseteq journal.asides /\ leaves' \in SUBSET Names /\ stuck' \in SUBSET Names
    OBVIOUS
  <2>4. pc' \in Stages /\ cur' \in Names /\ failed' \in BOOLEAN
    OBVIOUS
  <2> QED
    BY <2>1, <2>2, <2>3, <2>4
<1>2. OneAtWork' /\ NotBegun'
  BY DEF OneAtWork, NotBegun
<1>3. ToRestore' /\ AtEntry'
  BY DEF ToRestore, AtEntry
<1>4. AsideKnown' /\ MovedAside' /\ WrittenOver'
  BY DEF AsideKnown, MovedAside, WrittenOver
<1>5. OwnLeaves' /\ FailedUndo' /\ JournalLast' /\ OriginalSafe'
  BY DEF OwnLeaves, FailedUndo, JournalLast, OriginalSafe
<1>6. RecoverRight'
  BY RestorerAlone DEF RecoverRight
<1> QED
  BY <1>1, <1>2, <1>3, <1>4, <1>5, <1>6

\* The user replaces no original.
LEMMA ReplaceInv ==
  ASSUME RestoreInd, NEW n \in Names, Replace(n)
  PROVE  RestoreInd'
<1> USE DEF RestoreInd, TypeOK, Replace, tree, restore, recovery, trouble, AtRest
<1>1. TypeOK' /\ OneAtWork' /\ NotBegun' /\ ToRestore' /\ AtEntry' /\ AsideKnown'
      /\ MovedAside'
  BY DEF OneAtWork, NotBegun, ToRestore, AtEntry, AsideKnown, MovedAside
<1>2. WrittenOver' /\ OwnLeaves' /\ FailedUndo' /\ RecoverRight' /\ JournalLast'
      /\ OriginalSafe'
  BY DEF WrittenOver, OwnLeaves, FailedUndo, RecoverRight, JournalLast, OriginalSafe
<1> QED
  BY <1>1, <1>2

\* The user rewrites a file of the restore's, which the restore still knows.
LEMMA EditInPlaceInv ==
  ASSUME RestoreInd, NEW n \in Names, EditInPlace(n)
  PROVE  RestoreInd'
<1> USE DEF RestoreInd, TypeOK, EditInPlace, tree, restore, recovery, trouble, AtRest
<1>1. TypeOK' /\ OneAtWork' /\ NotBegun' /\ ToRestore' /\ AtEntry' /\ AsideKnown'
      /\ MovedAside'
  BY DEF OneAtWork, NotBegun, ToRestore, AtEntry, AsideKnown, MovedAside
<1>2. WrittenOver' /\ OwnLeaves' /\ FailedUndo' /\ RecoverRight' /\ JournalLast'
      /\ OriginalSafe'
  BY DEF WrittenOver, OwnLeaves, FailedUndo, RecoverRight, JournalLast, OriginalSafe
<1> QED
  BY <1>1, <1>2

\* Opening the journal touches nothing, and one not yet locked is remembered as early.
LEMMA OpenInv ==
  ASSUME RestoreInd, NEW b \in Recoverers, Open(b)
  PROVE  RestoreInd'
<1> USE DEF RestoreInd, TypeOK, Open, tree, restore, recovery, trouble, RGoto
<1>1. TypeOK' /\ OneAtWork' /\ NotBegun' /\ ToRestore' /\ AtEntry' /\ AsideKnown'
  BY DEF OneAtWork, NotBegun, ToRestore, AtEntry, AsideKnown
<1>2. MovedAside' /\ WrittenOver' /\ OwnLeaves' /\ FailedUndo' /\ JournalLast' /\ OriginalSafe'
  BY DEF MovedAside, WrittenOver, OwnLeaves, FailedUndo, JournalLast, OriginalSafe
<1>3. RecoverRight'
  BY DEF RecoverRight, StillAsWritten
<1> QED
  BY <1>1, <1>2, <1>3

\* A recoverer that gets the lock has every original that is aside before it.
LEMMA TryLockInv ==
  ASSUME RestoreInd, NEW b \in Recoverers, TryLock(b)
  PROVE  RestoreInd'
<1> USE DEF RestoreInd, TypeOK, TryLock, tree, restore, recovery, trouble, RGoto
<1>1. TypeOK' /\ OneAtWork' /\ NotBegun' /\ ToRestore' /\ AtEntry' /\ AsideKnown'
  BY DEF OneAtWork, NotBegun, ToRestore, AtEntry, AsideKnown
<1>2. MovedAside' /\ WrittenOver' /\ OwnLeaves' /\ FailedUndo' /\ JournalLast' /\ OriginalSafe'
  BY DEF MovedAside, WrittenOver, OwnLeaves, FailedUndo, JournalLast, OriginalSafe
<1>3. RecoverRight'
  BY DEF RecoverRight, StillAsWritten, AsideKnown, OneAtWork
<1> QED
  BY <1>1, <1>2, <1>3

\* An original goes back where the file of the restore was removed.
LEMMA RelinkInv ==
  ASSUME RestoreInd, NEW b \in Recoverers, Relink(b)
  PROVE  RestoreInd'
<1> USE DEF RestoreInd, TypeOK, Relink, tree, restore, recovery, trouble, RGoto
<1>1. TypeOK' /\ OneAtWork' /\ NotBegun' /\ ToRestore' /\ AsideKnown'
  BY DEF OneAtWork, NotBegun, ToRestore, AsideKnown
<1>2. MovedAside' /\ WrittenOver' /\ OwnLeaves' /\ FailedUndo' /\ JournalLast'
  BY DEF MovedAside, WrittenOver, OwnLeaves, FailedUndo, JournalLast
<1>3. AtEntry' /\ OriginalSafe'
  BY RecovererAlone DEF AtEntry, OriginalSafe
<1>4. RecoverRight'
  BY RecovererAlone DEF RecoverRight, StillAsWritten
<1> QED
  BY <1>1, <1>2, <1>3, <1>4

\* A recoverer drops an aside name whose original is back, kept or superseded.
LEMMA UnasideInv ==
  ASSUME RestoreInd, NEW b \in Recoverers, Unaside(b)
  PROVE  RestoreInd'
<1> USE DEF RestoreInd, TypeOK, Unaside, tree, restore, recovery, trouble, RGoto
<1>1. TypeOK' /\ OneAtWork' /\ NotBegun' /\ ToRestore'
  BY DEF OneAtWork, NotBegun, ToRestore
<1>2. AsideKnown' /\ OwnLeaves' /\ FailedUndo' /\ JournalLast'
  BY DEF AsideKnown, OwnLeaves, FailedUndo, JournalLast
<1>3. AtEntry'
  BY RecovererAlone DEF AtEntry
<1>4. MovedAside'
  BY RecovererAlone DEF MovedAside
<1>5. WrittenOver' /\ OriginalSafe'
  BY DEF WrittenOver, OriginalSafe, RecoverRight, StillAsWritten
<1>6. RecoverRight'
  BY RecovererAlone DEF RecoverRight, StillAsWritten
<1> QED
  BY <1>1, <1>2, <1>3, <1>4, <1>5, <1>6

\* An entry whose clean-up fails stays as it is.
LEMMA EntryFailsInv ==
  ASSUME RestoreInd, NEW b \in Recoverers, NEW n \in Names, EntryFails(b, n)
  PROVE  RestoreInd'
<1> USE DEF RestoreInd, TypeOK, EntryFails, Fault, tree, restore, recovery, trouble, RGoto
<1>1. TypeOK' /\ OneAtWork' /\ NotBegun' /\ ToRestore' /\ AtEntry' /\ AsideKnown'
  BY DEF OneAtWork, NotBegun, ToRestore, AtEntry, AsideKnown
<1>2. MovedAside' /\ WrittenOver' /\ OwnLeaves' /\ FailedUndo' /\ OriginalSafe'
  BY DEF MovedAside, WrittenOver, OwnLeaves, FailedUndo, OriginalSafe
<1>3. JournalLast'
  BY DEF JournalLast
<1>4. RecoverRight'
  BY RecovererAlone DEF RecoverRight, StillAsWritten
<1> QED
  BY <1>1, <1>2, <1>3, <1>4

\* A recovery that cannot open the directory leaves every entry as it is.
LEMMA BaseFailsInv ==
  ASSUME RestoreInd, NEW b \in Recoverers, BaseFails(b)
  PROVE  RestoreInd'
<1> USE DEF RestoreInd, TypeOK, BaseFails, Fault, tree, restore, recovery, trouble
<1>1. TypeOK' /\ OneAtWork' /\ NotBegun' /\ ToRestore' /\ AtEntry' /\ AsideKnown'
  BY DEF OneAtWork, NotBegun, ToRestore, AtEntry, AsideKnown
<1>2. MovedAside' /\ WrittenOver' /\ OwnLeaves' /\ FailedUndo' /\ OriginalSafe'
  BY DEF MovedAside, WrittenOver, OwnLeaves, FailedUndo, OriginalSafe
<1>3. JournalLast'
  BY DEF JournalLast
<1>4. RecoverRight'
  BY RecovererAlone DEF RecoverRight, StillAsWritten
<1> QED
  BY <1>1, <1>2, <1>3, <1>4

\* A recoverer lets go of the journal when it has looked at every entry.
LEMMA UnlockInv ==
  ASSUME RestoreInd, NEW b \in Recoverers, Unlock(b)
  PROVE  RestoreInd'
<1> USE DEF RestoreInd, TypeOK, Unlock, tree, restore, recovery, trouble, RGoto
<1>1. TypeOK' /\ OneAtWork' /\ NotBegun' /\ ToRestore' /\ AtEntry' /\ AsideKnown'
  BY DEF OneAtWork, NotBegun, ToRestore, AtEntry, AsideKnown
<1>2. MovedAside' /\ WrittenOver' /\ OwnLeaves' /\ FailedUndo' /\ OriginalSafe'
  BY DEF MovedAside, WrittenOver, OwnLeaves, FailedUndo, OriginalSafe
<1>3. JournalLast'
  BY RecovererAlone DEF JournalLast, RecoverRight
<1>4. RecoverRight'
  BY DEF RecoverRight, StillAsWritten
<1> QED
  BY <1>1, <1>2, <1>3, <1>4

\* The journal goes after its recovery.
LEMMA RemoveJournalInv ==
  ASSUME RestoreInd, NEW b \in Recoverers, RemoveJournal(b)
  PROVE  RestoreInd'
<1> USE DEF RestoreInd, TypeOK, RemoveJournal, tree, restore, recovery, trouble, RGoto
<1>1. TypeOK'
  OBVIOUS
<1>2. OneAtWork' /\ NotBegun'
  BY DEF OneAtWork, NotBegun
<1>3. ToRestore' /\ AtEntry' /\ AsideKnown' /\ MovedAside'
  BY DEF ToRestore, AtEntry, AsideKnown, MovedAside
<1>4. WrittenOver' /\ OwnLeaves' /\ FailedUndo' /\ OriginalSafe'
  BY DEF WrittenOver, OwnLeaves, FailedUndo, OriginalSafe
<1>5. JournalLast'
  BY DEF JournalLast
<1>6. RecoverRight'
  BY DEF RecoverRight, StillAsWritten
<1> QED
  BY <1>1, <1>2, <1>3, <1>4, <1>5, <1>6

\* A recoverer that is killed leaves the journal and the asides to the next.
LEMMA CrashRecovererInv ==
  ASSUME RestoreInd, NEW b \in Recoverers, CrashRecoverer(b)
  PROVE  RestoreInd'
<1> USE DEF RestoreInd, TypeOK, CrashRecoverer, tree, restore, recovery, trouble, RGoto
<1>1. TypeOK' /\ OneAtWork' /\ NotBegun' /\ ToRestore' /\ AtEntry' /\ AsideKnown'
  BY DEF OneAtWork, NotBegun, ToRestore, AtEntry, AsideKnown
<1>2. MovedAside' /\ WrittenOver' /\ OwnLeaves' /\ FailedUndo' /\ JournalLast' /\ OriginalSafe'
  BY DEF MovedAside, WrittenOver, OwnLeaves, FailedUndo, JournalLast, OriginalSafe
<1>3. RecoverRight'
  BY DEF RecoverRight, StillAsWritten
<1> QED
  BY <1>1, <1>2, <1>3

\* A recoverer removes only what the journal says was written, and is still that.
LEMMA RecoverEntryInv ==
  ASSUME RestoreInd, NEW b \in Recoverers, NEW n \in Names, RecoverEntry(b, n)
  PROVE  RestoreInd'
<1> USE DEF RestoreInd, TypeOK, RecoverEntry, tree, restore, recovery, trouble, RGoto, MarkRead,
            StillAsWritten
<1>1. OneAtWork' /\ NotBegun' /\ ToRestore' /\ AsideKnown' /\ MovedAside'
  BY DEF OneAtWork, NotBegun, ToRestore, AsideKnown, MovedAside
<1>2. WrittenOver' /\ OwnLeaves' /\ FailedUndo' /\ JournalLast' /\ OriginalSafe'
  BY DEF WrittenOver, OwnLeaves, FailedUndo, JournalLast, OriginalSafe
<1>3. TypeOK'
  <2>1. leaf' \in [Names -> Nodes] /\ aside' \in [Names -> BOOLEAN]
    OBVIOUS
  <2>2. kept' \in [Names -> BOOLEAN]
    OBVIOUS
  <2>3. rpc' \in [Recoverers -> RStages] /\ rcur' \in [Recoverers -> Names]
    OBVIOUS
  <2>4. rtodo' \in [Recoverers -> SUBSET Names]
    OBVIOUS
  <2> QED
    BY <2>1, <2>2, <2>3, <2>4
<1>4. AtEntry'
  BY RecovererAlone DEF AtEntry
<1>5. RecoverRight'
  BY RecovererAlone DEF RecoverRight
<1> QED
  BY <1>1, <1>2, <1>3, <1>4, <1>5

\* Every step of the restore, of a recovery and of the user keeps the invariant.
LEMMA NextInv == RestoreInd /\ [Next]_vars => RestoreInd'
<1> SUFFICES ASSUME RestoreInd, [Next]_vars PROVE RestoreInd'
  OBVIOUS
<1>1. CASE RestoreStep
  BY <1>1, CreateJournalInv, LockJournalInv, LinkAsideInv, UnlinkLeafInv, CreateLeafInv,
     CopyDataInv, JournalWroteInv, FinishInv, VerifyInv, MarkKeptInv, CloseKeptInv,
     PutBackUnlinkInv, CloseUndoneInv, SkipUnchangedInv, BeginEntryInv, DropAsideInv,
     RemoveOwnedInv, PutBackInv
     DEF RestoreStep
<1>2. CASE Fail \/ Crash
  BY <1>2, FailInv, CrashInv
<1>3. ASSUME NEW b \in Recoverers,
             \/ RecoverStep(b) \/ BaseFails(b) \/ CrashRecoverer(b)
             \/ \E n \in Names : EntryFails(b, n)
      PROVE  RestoreInd'
  BY <1>3, OpenInv, TryLockInv, RelinkInv, UnasideInv, UnlockInv, RemoveJournalInv,
     RecoverEntryInv, CrashRecovererInv, BaseFailsInv, EntryFailsInv
     DEF RecoverStep
<1>4. ASSUME NEW n \in Names, Replace(n) \/ EditInPlace(n) PROVE RestoreInd'
  BY <1>4, ReplaceInv, EditInPlaceInv
<1>5. CASE UNCHANGED vars
  <2> USE <1>5 DEF vars, tree, restore, recovery, trouble, RestoreInd
  <2>1. TypeOK' /\ OneAtWork' /\ NotBegun' /\ ToRestore' /\ AtEntry'
    BY DEF TypeOK, OneAtWork, NotBegun, ToRestore, AtEntry
  <2>2. AsideKnown' /\ MovedAside' /\ WrittenOver' /\ OwnLeaves' /\ FailedUndo'
    BY DEF AsideKnown, MovedAside, WrittenOver, OwnLeaves, FailedUndo
  <2>3. RecoverRight' /\ JournalLast' /\ OriginalSafe'
    BY DEF RecoverRight, StillAsWritten, JournalLast, OriginalSafe
  <2> QED
    BY <2>1, <2>2, <2>3
<1> QED
  BY <1>1, <1>2, <1>3, <1>4, <1>5 DEF Next

\* However a restore ends or is cut short, and whoever recovers it: no original is lost
\* before the restore is marked kept.
THEOREM OriginalNeverLost == Spec => []OriginalSafe
<1>1. Init => RestoreInd
  BY InitInv
<1>2. RestoreInd /\ [Next]_vars => RestoreInd'
  BY NextInv
<1>3. RestoreInd => OriginalSafe
  BY DEF RestoreInd
<1> QED
  BY <1>1, <1>2, <1>3, PTL DEF Spec

\* A restore ends whole: what an undo leaves is the user's, what was never verified does
\* not stay once its journal is resolved, and no original stays aside, unless recover
\* found the journal before it was locked or a system call on that original failed.
THEOREM RestoredWhole == Spec => []RestoreWhole
<1>1. Init => RestoreInd
  BY InitInv
<1>2. RestoreInd /\ [Next]_vars => RestoreInd'
  BY NextInv
<1>3. RestoreInd => RestoreWhole
  <2> SUFFICES ASSUME RestoreInd PROVE RestoreWhole
    OBVIOUS
  <2>1. TypeOK /\ NothingAsideUnlessEarly
    BY DEF RestoreInd, JournalLast, NothingAsideUnlessEarly, NothingAside
  <2>2. NothingUnverified
    BY DEF RestoreInd, TypeOK, OwnLeaves, WrittenOver, JournalLast, NothingUnverified
  <2> QED
    BY <2>1, <2>2 DEF RestoreWhole
<1> QED
  BY <1>1, <1>2, <1>3, PTL DEF Spec

\* The steps that change what a name holds; every other step leaves the names alone.
LEMMA LeafSteps ==
  ASSUME Next
  PROVE  \/ UNCHANGED leaf
         \/ UnlinkLeaf \/ CreateLeaf \/ CopyData
         \/ \E n \in Names : RemoveOwned(n) \/ PutBack(n) \/ Replace(n) \/ EditInPlace(n)
         \/ \E b \in Recoverers : Relink(b) \/ \E n \in Names : RecoverEntry(b, n)
BY DEF Next, RestoreStep, RecoverStep, tree, Fail, Crash, CreateJournal, LockJournal,
       LinkAside,
       JournalWrote, Finish, Verify, MarkKept, CloseKept, PutBackUnlink, CloseUndone,
       SkipUnchanged, BeginEntry, DropAside, Open, TryLock, Unaside, Unlock, RemoveJournal,
       CrashRecoverer, EntryFails, BaseFails

\* What a step may do to a file of the user's, to one the user rewrote, and to one of a
\* restore that is kept.
LEMMA LeafKept ==
  ASSUME RestoreInd, [Next]_vars, NEW n \in Names
  PROVE  /\ leaf[n] = "user" => leaf'[n] = "user"
         /\ leaf[n] = "edited" => leaf'[n] \in {"edited", "user"} \/ pc = "undo"
         /\ journal.committed /\ pc # "undo" /\ leaf[n] = "new"
              => leaf'[n] \in {"new", "edited", "user"}
<1> USE DEF RestoreInd, TypeOK
<1>1. CASE UNCHANGED leaf
  BY <1>1
<1>2. CASE UnlinkLeaf \/ CreateLeaf \/ CopyData
  BY <1>2 DEF UnlinkLeaf, CreateLeaf, CopyData, AtEntry
<1>3. ASSUME NEW m \in Names, RemoveOwned(m) \/ PutBack(m)
      PROVE leaf[n] = "user" => leaf'[n] = "user"
  BY <1>3 DEF RemoveOwned, PutBack
<1>4. ASSUME NEW m \in Names, RemoveOwned(m) \/ PutBack(m) PROVE pc = "undo"
  BY <1>4 DEF RemoveOwned, PutBack
<1>5. ASSUME NEW m \in Names, Replace(m) \/ EditInPlace(m)
      PROVE  leaf'[n] = leaf[n] \/ (leaf[n] # "user" /\ leaf'[n] \in {"edited", "user"})
  BY <1>5 DEF Replace, EditInPlace
<1>6. ASSUME NEW b \in Recoverers, Relink(b) PROVE leaf[n] = "none" \/ leaf'[n] = leaf[n]
  BY <1>6 DEF Relink, RecoverRight
<1>7. ASSUME NEW b \in Recoverers, NEW m \in Names, RecoverEntry(b, m)
      PROVE  leaf[n] = "none" \/ leaf'[n] = leaf[n] \/ (leaf[n] = "new" /\ ~journal.committed)
  BY <1>7 DEF RecoverEntry, tree, StillAsWritten, MarkRead
<1>8. CASE UNCHANGED vars
  BY <1>8 DEF vars, tree
<1> QED
  BY <1>1, <1>2, <1>3, <1>4, <1>5, <1>6, <1>7, <1>8, LeafSteps

\* No undo and no recovery deletes or replaces a file of the user's, and no recovery
\* takes back a restore that was marked kept.
THEOREM UsersFilesStay == Spec => UsersFiles
<1>1. Init => RestoreInd
  BY InitInv
<1>2. RestoreInd /\ [Next]_vars => RestoreInd'
  BY NextInv
<1>3. RestoreInd /\ [Next]_vars =>
        [\A n \in Names :
           /\ leaf[n] = "user" => leaf'[n] = "user"
           /\ leaf[n] = "edited" => leaf'[n] \in {"edited", "user"} \/ pc = "undo"]_vars
  BY LeafKept
<1>4. RestoreInd /\ [Next]_vars =>
        [journal.committed /\ pc # "undo" =>
           \A n \in Names : leaf[n] = "new" => leaf'[n] \in {"new", "edited", "user"}]_vars
  BY LeafKept
<1> QED
  BY <1>1, <1>2, <1>3, <1>4, PTL DEF Spec, UsersFiles, UserFilesKept, KeptStays
=============================================================================
