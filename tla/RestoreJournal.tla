-------------------------- MODULE RestoreJournal --------------------------
(***************************************************************************)
(* A cache restore into the working tree and what cleans up after one that *)
(* was cut short: Tree::file, Written::commit, Written::undo, Journal and  *)
(* recover.  An action is one system call, or one write to the journal; a  *)
(* crash may come between any two.                                         *)
(*                                                                         *)
(* One restore of a set of regular files.  The files already in the tree   *)
(* are its originals; the user may replace or rewrite what the restore put *)
(* there while nobody works on it.  A restored directory, a symlink and a  *)
(* filesystem without hard links are not modelled.                         *)
(***************************************************************************)
EXTENDS Naturals, FiniteSets

CONSTANTS Names,        \* the entries to restore
          Recoverers,   \* processes that run recover
          Restorer,     \* the process that restores
          NoOne,        \* nobody: a journal that is not locked
          MaxTroubles   \* bound on the crashes of recoverers and on the system calls that
                        \* fail in an undo, a commit or a recovery

ASSUME ProcessAssumption == Restorer \notin Recoverers /\ NoOne \notin Recoverers \cup {Restorer}
ASSUME NamesAssumption == Names # {}
ASSUME TroubleAssumption == MaxTroubles \in Nat

\* What a name holds: nothing, the original, the restore's file as it is being written,
\* as written and as rewritten in place by the user, or another file of the user's.
Nodes == {"none", "orig", "part", "new", "edited", "user"}

Terminal == {"idle", "kept", "undone", "undofailed", "dead"}
Stages   == Terminal \cup {"created", "entry", "link", "unlink", "create", "copy", "wrote",
                           "verify", "mark", "drop", "undo", "putback"}
RStages  == {"idle", "opened", "scan", "relink", "unaside", "remove"}

VARIABLES
  leaf,     \* what each name holds
  aside,    \* is the original at the name it is moved aside to?
  kept,     \* is the original at a `.task-restore-original-` name?
  journal,  \* the journal file: is it linked, who locked it, its lines
  pc,       \* stage of the restore
  cur,      \* the entry it is at
  todo,     \* entries still to restore
  leaves,   \* Written.leaves
  moved,    \* Written.asides
  failed,   \* an undo met an error
  rpc,      \* stage of each recoverer
  rcur,     \* the entry it is at
  rtodo,    \* the originals it still has to look at
  early,    \* ghost: recover found the journal between its creation and its lock
  troubles, \* crashes of recoverers and failed clean-up calls so far
  stuck     \* ghost: originals that a failed system call left where they were

tree     == <<leaf, aside, kept>>
restore  == <<pc, cur, todo, leaves, moved, failed>>
recovery == <<rpc, rcur, rtodo, early>>
trouble  == <<troubles, stuck>>
vars     == <<tree, journal, restore, recovery, trouble>>

TypeOK ==
  /\ leaf \in [Names -> Nodes]
  /\ aside \in [Names -> BOOLEAN]
  /\ kept \in [Names -> BOOLEAN]
  /\ journal \in [linked: BOOLEAN, holder: Recoverers \cup {Restorer, NoOne},
                  asides: SUBSET Names, wrote: SUBSET Names, synced: SUBSET Names,
                  committed: BOOLEAN]
  /\ pc \in Stages
  /\ cur \in Names
  /\ todo \in SUBSET Names
  /\ leaves \in SUBSET Names
  /\ moved \subseteq journal.asides     \* what was moved was journaled
  /\ failed \in BOOLEAN
  /\ rpc \in [Recoverers -> RStages]
  /\ rcur \in [Recoverers -> Names]
  /\ rtodo \in [Recoverers -> SUBSET Names]
  /\ early \in BOOLEAN
  /\ troubles \in 0..MaxTroubles
  /\ stuck \in SUBSET Names

Init ==
  /\ leaf \in [Names -> {"none", "orig"}]
  /\ aside = [n \in Names |-> FALSE]
  /\ kept = [n \in Names |-> FALSE]
  /\ journal = [linked |-> FALSE, holder |-> NoOne, asides |-> {}, wrote |-> {},
                synced |-> {}, committed |-> FALSE]
  /\ pc = "idle"
  /\ cur = CHOOSE n \in Names : TRUE
  /\ todo = Names
  /\ leaves = {}
  /\ moved = {}
  /\ failed = FALSE
  /\ rpc = [b \in Recoverers |-> "idle"]
  /\ rcur = [b \in Recoverers |-> cur]
  /\ rtodo = [b \in Recoverers |-> {}]
  /\ early = FALSE
  /\ troubles = 0
  /\ stuck = {}

-----------------------------------------------------------------------------
(* The restore                                                             *)

\* A system call fails.
Fault == troubles < MaxTroubles /\ troubles' = troubles + 1

\* Journal::create: create_new ...
CreateJournal ==
  /\ pc = "idle"
  /\ journal' = [journal EXCEPT !.linked = TRUE]
  /\ pc' = "created"
  /\ UNCHANGED <<tree, cur, todo, leaves, moved, failed, recovery, trouble>>

\* ... and lock, which waits for a recoverer that holds it.
LockJournal ==
  /\ pc = "created"
  /\ journal.holder = NoOne
  /\ journal' = [journal EXCEPT !.holder = Restorer]
  /\ pc' = "entry"
  /\ UNCHANGED <<tree, cur, todo, leaves, moved, failed, recovery, trouble>>

\* Tree::unchanged: an original identical to its entry stays as it is.
SkipUnchanged(n) ==
  /\ pc = "entry"
  /\ n \in todo
  /\ leaf[n] = "orig"
  /\ todo' = todo \ {n}
  /\ UNCHANGED <<tree, journal, pc, cur, leaves, moved, failed, recovery, trouble>>

\* Tree::move_aside: a name that is taken is journaled before its original moves.
BeginEntry(n) ==
  /\ pc = "entry"
  /\ n \in todo
  /\ cur' = n
  /\ IF leaf[n] = "none"
       THEN pc' = "create" /\ UNCHANGED journal
       ELSE /\ journal' = [journal EXCEPT !.asides = @ \cup {n}, !.synced = journal.wrote]
            /\ pc' = "link"
  /\ UNCHANGED <<tree, todo, leaves, moved, failed, recovery, trouble>>

\* no_replace_move: the hard link ...
LinkAside ==
  /\ pc = "link"
  /\ aside' = [aside EXCEPT ![cur] = TRUE]
  /\ pc' = "unlink"
  /\ UNCHANGED <<leaf, kept, journal, cur, todo, leaves, moved, failed, recovery, trouble>>

\* ... and the unlink.
UnlinkLeaf ==
  /\ pc = "unlink"
  /\ leaf' = [leaf EXCEPT ![cur] = "none"]
  /\ moved' = moved \cup {cur}
  /\ pc' = "create"
  /\ UNCHANGED <<aside, kept, journal, cur, todo, leaves, failed, recovery, trouble>>

\* Tree::file opens the name with create_new ...
CreateLeaf ==
  /\ pc = "create"
  /\ leaf' = [leaf EXCEPT ![cur] = "part"]
  /\ leaves' = leaves \cup {cur}
  /\ pc' = "copy"
  /\ UNCHANGED <<aside, kept, journal, cur, todo, moved, failed, recovery, trouble>>

\* ... and copies the entry's data, mode and all.
CopyData ==
  /\ pc = "copy"
  /\ leaf' = [leaf EXCEPT ![cur] = "new"]
  /\ pc' = "wrote"
  /\ UNCHANGED <<aside, kept, journal, cur, todo, leaves, moved, failed, recovery, trouble>>

\* Tree::journal_wrote, not synced, for an entry that displaced an original.
JournalWrote ==
  /\ pc = "wrote"
  /\ journal' = [journal EXCEPT !.wrote = @ \cup (moved \cap {cur})]
  /\ todo' = todo \ {cur}
  /\ pc' = "entry"
  /\ UNCHANGED <<tree, cur, leaves, moved, failed, recovery, trouble>>

\* A failed system call, or an entry that is not what its set declares.  Where it is
\* the unlink after the hard link, Written never hears of the aside.
Fail ==
  /\ pc \in {"entry", "link", "unlink", "create", "copy", "wrote"}
  /\ pc' = "undo"
  /\ stuck' = IF pc = "unlink" THEN stuck \cup {cur} ELSE stuck
  /\ UNCHANGED <<tree, journal, cur, todo, leaves, moved, failed, recovery, troubles>>

Finish ==
  /\ pc = "entry"
  /\ todo = {}
  /\ pc' = "verify"
  /\ UNCHANGED <<tree, journal, cur, todo, leaves, moved, failed, recovery, trouble>>

\* The caller verifies the restored files, and keeps the restore or not.
Verify ==
  /\ pc = "verify"
  /\ pc' \in {"mark", "undo"}
  /\ UNCHANGED <<tree, journal, cur, todo, leaves, moved, failed, recovery, trouble>>

\* The mutant of MarkKept: the originals are dropped without the mark.
MarkKept_Unmarked ==
  /\ pc = "mark"
  /\ pc' = "drop"
  /\ UNCHANGED <<tree, journal, cur, todo, leaves, moved, failed, recovery, trouble>>

\* Journal::committing; where the write or the sync of the mark fails the restore is
\* undone (CommitError::NotKept).
MarkKept ==
  /\ pc = "mark"
  /\ \/ /\ journal' = [journal EXCEPT !.committed = TRUE, !.synced = journal.wrote]
        /\ pc' = "drop"
     \/ /\ journal' \in {journal, [journal EXCEPT !.committed = TRUE]}
        /\ pc' = "undo"
  /\ UNCHANGED <<tree, cur, todo, leaves, moved, failed, recovery, trouble>>

\* Written::commit drops an original; one it cannot drop is only noted.
DropAside(n) ==
  /\ pc = "drop"
  /\ n \in moved
  /\ \/ aside' = [aside EXCEPT ![n] = FALSE] /\ UNCHANGED trouble
     \/ Fault /\ stuck' = stuck \cup {n} /\ UNCHANGED aside
  /\ moved' = moved \ {n}
  /\ UNCHANGED <<leaf, kept, journal, pc, cur, todo, leaves, failed, recovery>>

Closed == [journal EXCEPT !.linked = FALSE, !.holder = NoOne]

CloseKept ==
  /\ pc = "drop"
  /\ moved = {}
  /\ journal' = Closed
  /\ pc' = "kept"
  /\ UNCHANGED <<tree, cur, todo, leaves, moved, failed, recovery, trouble>>

\* remove_owned: only while the name holds the inode the restore created.
RemoveOwned(n) ==
  /\ pc = "undo"
  /\ n \in leaves
  /\ \/ /\ leaf' = IF leaf[n] \in {"part", "new", "edited"}
                     THEN [leaf EXCEPT ![n] = "none"] ELSE leaf
        /\ UNCHANGED <<failed, troubles>>
     \/ /\ Fault
        /\ failed' = TRUE
        /\ UNCHANGED leaf
  /\ leaves' = leaves \ {n}
  /\ UNCHANGED <<aside, kept, journal, pc, cur, todo, moved, recovery, stuck>>

\* The mutant of PutBack: the original replaces whatever holds its name.
PutBack_Replacing(n) ==
  /\ pc = "undo"
  /\ leaves = {}
  /\ n \in moved
  /\ leaf' = [leaf EXCEPT ![n] = "orig"]
  /\ cur' = n
  /\ pc' = "putback"
  /\ moved' = moved \ {n}
  /\ UNCHANGED <<aside, kept, journal, todo, leaves, failed, recovery, trouble>>

\* put_back: the hard link, where the name is free.
PutBack(n) ==
  /\ pc = "undo"
  /\ leaves = {}
  /\ n \in moved
  /\ \/ /\ leaf[n] = "none"
        /\ leaf' = [leaf EXCEPT ![n] = "orig"]
        /\ cur' = n
        /\ pc' = "putback"
        /\ UNCHANGED <<failed, troubles>>
     \/ /\ IF leaf[n] = "none" THEN Fault ELSE UNCHANGED troubles
        /\ failed' = TRUE
        /\ UNCHANGED <<leaf, cur, pc>>
  /\ moved' = moved \ {n}
  /\ UNCHANGED <<aside, kept, journal, todo, leaves, recovery, stuck>>

\* put_back: the unlink.
PutBackUnlink ==
  /\ pc = "putback"
  /\ \/ aside' = [aside EXCEPT ![cur] = FALSE] /\ UNCHANGED <<failed, troubles>>
     \/ Fault /\ failed' = TRUE /\ UNCHANGED aside
  /\ pc' = "undo"
  /\ UNCHANGED <<leaf, kept, journal, cur, todo, leaves, moved, recovery, stuck>>

\* The mutant of CloseUndone: the journal goes although an original did not.
CloseUndone_Always ==
  /\ pc = "undo"
  /\ leaves = {} /\ moved = {}
  /\ journal' = Closed
  /\ pc' = IF failed THEN "undofailed" ELSE "undone"
  /\ UNCHANGED <<tree, cur, todo, leaves, moved, failed, recovery, trouble>>

\* The end of Written::undo: the journal is closed only when every original is back.
CloseUndone ==
  /\ pc = "undo"
  /\ leaves = {} /\ moved = {}
  /\ journal' = IF failed THEN [journal EXCEPT !.holder = NoOne] ELSE Closed
  /\ pc' = IF failed THEN "undofailed" ELSE "undone"
  /\ UNCHANGED <<tree, cur, todo, leaves, moved, failed, recovery, trouble>>

\* The process or the machine stops: journal lines not synced may be gone.
Crash ==
  /\ pc \notin Terminal
  /\ pc' = "dead"
  /\ \E w \in {journal.wrote, journal.synced} :
       journal' = [journal EXCEPT
                     !.wrote = w,
                     !.holder = IF @ = Restorer THEN NoOne ELSE @]
  /\ UNCHANGED <<tree, cur, todo, leaves, moved, failed, recovery, trouble>>

-----------------------------------------------------------------------------
(* recover                                                                 *)

RGoto(b, s) == rpc' = [rpc EXCEPT ![b] = s]

\* recover opens a journal it finds.
Open(b) ==
  /\ rpc[b] = "idle"
  /\ journal.linked
  /\ early' = (early \/ pc = "created")
  /\ RGoto(b, "opened")
  /\ UNCHANGED <<tree, journal, restore, rcur, rtodo, trouble>>

\* try_lock: a journal in use is left alone, another is read.
TryLock(b) ==
  /\ rpc[b] = "opened"
  /\ IF journal.holder = NoOne
       THEN /\ journal' = [journal EXCEPT !.holder = b]
            /\ rtodo' = [rtodo EXCEPT ![b] = journal.asides]
            /\ RGoto(b, "scan")
       ELSE /\ RGoto(b, "idle")
            /\ UNCHANGED <<journal, rtodo, trouble>>
  /\ UNCHANGED <<tree, restore, rcur, early, trouble>>

\* The stamp of what holds the name is one the journal says the restore wrote.
StillAsWritten(n) == leaf[n] = "new" /\ n \in journal.wrote

\* A line of the journal is the commit mark.
MarkRead == journal.committed

\* recover looks at an original: already back, its name free, superseded by a kept
\* restore, under the restore's own file, or under something else.
RecoverEntry(b, n) ==
  /\ rpc[b] = "scan"
  /\ n \in rtodo[b]
  /\ rcur' = [rcur EXCEPT ![b] = n]
  /\ \/ /\ ~aside[n]
        /\ rtodo' = [rtodo EXCEPT ![b] = @ \ {n}]
        /\ UNCHANGED <<tree, rpc>>
     \/ /\ aside[n] /\ leaf[n] = "none"
        /\ leaf' = [leaf EXCEPT ![n] = "orig"]
        /\ RGoto(b, "unaside")
        /\ UNCHANGED <<aside, kept, rtodo, trouble>>
     \/ /\ aside[n] /\ leaf[n] # "none" /\ MarkRead
        /\ RGoto(b, "unaside")
        /\ UNCHANGED <<tree, rtodo, trouble>>
     \/ /\ aside[n] /\ ~MarkRead /\ StillAsWritten(n)
        /\ leaf' = [leaf EXCEPT ![n] = "none"]
        /\ RGoto(b, "relink")
        /\ UNCHANGED <<aside, kept, rtodo, trouble>>
     \/ /\ aside[n] /\ leaf[n] # "none" /\ ~MarkRead /\ ~StillAsWritten(n)
        /\ kept' = [kept EXCEPT ![n] = TRUE]
        /\ RGoto(b, "unaside")
        /\ UNCHANGED <<leaf, aside, rtodo, trouble>>
  /\ UNCHANGED <<journal, restore, early, trouble>>

\* The original is linked back where the restore's file was removed.
Relink(b) ==
  /\ rpc[b] = "relink"
  /\ leaf' = [leaf EXCEPT ![rcur[b]] = "orig"]
  /\ RGoto(b, "unaside")
  /\ UNCHANGED <<aside, kept, journal, restore, rcur, rtodo, early, trouble>>

\* The last unlink of a move, or of an original dropped.
Unaside(b) ==
  /\ rpc[b] = "unaside"
  /\ aside' = [aside EXCEPT ![rcur[b]] = FALSE]
  /\ rtodo' = [rtodo EXCEPT ![b] = @ \ {rcur[b]}]
  /\ RGoto(b, "scan")
  /\ UNCHANGED <<leaf, kept, journal, restore, rcur, early, trouble>>

\* A system call on an entry fails: it is reported, the entry stays as it is and the
\* scan goes on.
EntryFails(b, n) ==
  /\ \/ rpc[b] = "scan" /\ n \in rtodo[b]
     \/ rpc[b] \in {"relink", "unaside"} /\ n = rcur[b]
  /\ Fault
  /\ stuck' = stuck \cup {n}
  /\ rtodo' = [rtodo EXCEPT ![b] = @ \ {n}]
  /\ RGoto(b, "scan")
  /\ UNCHANGED <<tree, journal, restore, rcur, early>>

\* The directory the restore was into cannot be opened: no entry is looked at.
BaseFails(b) ==
  /\ rpc[b] = "scan"
  /\ rtodo[b] = journal.asides
  /\ Fault
  /\ stuck' = stuck \cup rtodo[b]
  /\ rtodo' = [rtodo EXCEPT ![b] = {}]
  /\ UNCHANGED <<tree, journal, restore, rpc, rcur, early>>

\* drop(file) ...
Unlock(b) ==
  /\ rpc[b] = "scan"
  /\ rtodo[b] = {}
  /\ journal' = [journal EXCEPT !.holder = NoOne]
  /\ RGoto(b, "remove")
  /\ UNCHANGED <<tree, restore, rcur, rtodo, early, trouble>>

\* The mutant of RemoveJournal: the journal stays.
RemoveJournal_Kept(b) ==
  /\ rpc[b] = "remove"
  /\ RGoto(b, "idle")
  /\ UNCHANGED <<tree, journal, restore, rcur, rtodo, early, trouble>>

\* ... and remove_file.
RemoveJournal(b) ==
  /\ rpc[b] = "remove"
  /\ journal' = [journal EXCEPT !.linked = FALSE]
  /\ RGoto(b, "idle")
  /\ UNCHANGED <<tree, restore, rcur, rtodo, early, trouble>>

\* A recoverer is killed: its lock goes with it, and another process takes its place.
CrashRecoverer(b) ==
  /\ rpc[b] # "idle"
  /\ troubles < MaxTroubles
  /\ troubles' = troubles + 1
  /\ journal' = [journal EXCEPT !.holder = IF @ = b THEN NoOne ELSE @]
  /\ rtodo' = [rtodo EXCEPT ![b] = {}]
  /\ RGoto(b, "idle")
  /\ UNCHANGED <<tree, restore, rcur, early, stuck>>

-----------------------------------------------------------------------------
(* The user, while the restore waits for its verification or is over       *)

AtRest == pc \in Terminal \cup {"verify"} /\ \A b \in Recoverers : rpc[b] \in {"idle", "opened"}

\* A new file takes the place of the restore's, or of a name left free.
Replace(n) ==
  /\ AtRest
  /\ pc # "idle"
  /\ leaf[n] \notin {"orig", "user"}
  /\ leaf' = [leaf EXCEPT ![n] = "user"]
  /\ UNCHANGED <<aside, kept, journal, restore, recovery, trouble>>

\* The restore's file is rewritten in place.
EditInPlace(n) ==
  /\ AtRest
  /\ leaf[n] \in {"part", "new"}
  /\ leaf' = [leaf EXCEPT ![n] = "edited"]
  /\ UNCHANGED <<aside, kept, journal, restore, recovery, trouble>>

RestoreStep ==
  \/ CreateJournal \/ LockJournal \/ LinkAside \/ UnlinkLeaf \/ CreateLeaf \/ CopyData
  \/ JournalWrote \/ Finish \/ Verify \/ MarkKept \/ CloseKept \/ PutBackUnlink \/ CloseUndone
  \/ \E n \in Names : SkipUnchanged(n) \/ BeginEntry(n) \/ DropAside(n) \/ RemoveOwned(n) \/ PutBack(n)

RecoverStep(b) ==
  \/ Open(b) \/ TryLock(b) \/ Relink(b) \/ Unaside(b) \/ Unlock(b) \/ RemoveJournal(b)
  \/ \E n \in Names : RecoverEntry(b, n)

Next ==
  \/ RestoreStep
  \/ Fail
  \/ Crash
  \/ \E b \in Recoverers :
       \/ RecoverStep(b) \/ BaseFails(b) \/ CrashRecoverer(b)
       \/ \E n \in Names : EntryFails(b, n)
  \/ \E n \in Names : Replace(n) \/ EditInPlace(n)

Spec == Init /\ [][Next]_vars

\* A restore goes on until it ends or crashes, and tasks with a cache are run again.
FairSpec ==
  /\ Spec
  /\ WF_vars(RestoreStep)
  /\ \A b \in Recoverers : WF_vars(RecoverStep(b))

-----------------------------------------------------------------------------
(* Properties                                                              *)

Settled == pc \in Terminal /\ \A b \in Recoverers : rpc[b] = "idle"

\* An original the restore moved is never lost: it is at its name, at its aside or at
\* its kept name until the restore is marked kept, whatever crashes (recover, undo).
OriginalSafe ==
  \A n \in journal.asides \cup moved :
    leaf[n] = "orig" \/ aside[n] \/ kept[n] \/ journal.committed

\* Once no journal is left, no original is left under the name it was moved aside to,
\* but for those a failing system call held there: every other way a restore ends or is
\* cut short is cleaned up (recover's contract).
NothingAside == Settled /\ ~journal.linked => \A n \in Names : aside[n] => n \in stuck

\* That contract is only ever broken by a recover that found the journal before
\* Journal::create had locked it.
NothingAsideUnlessEarly == ~early => NothingAside

\* The whole restore or nothing: one undone leaves no file of its own and every
\* original back; one cut short before its commit, and not found too early by recover,
\* leaves none it journaled as written, but where a system call failed.
NothingUnverified ==
  /\ pc = "undone" => \A n \in Names : leaf[n] \in {"none", "orig", "user"}
  /\ ~early /\ Settled /\ pc = "dead" /\ ~journal.linked /\ ~journal.committed =>
       \A n \in journal.wrote \ stuck : leaf[n] # "new"

\* A file of the user's is never deleted or replaced: not by an undo, not by a
\* recovery; one rewritten in place only by an undo, which tells files by inode.
UserFilesKept ==
  [][\A n \in Names :
       /\ leaf[n] = "user" => leaf'[n] = "user"
       /\ leaf[n] = "edited" => leaf'[n] \in {"edited", "user"} \/ pc = "undo"]_vars

\* A restore that was marked kept stays, except where the mark's sync failed and the
\* restore is undone at once: no recovery takes back what it installed.
KeptStays ==
  [][journal.committed /\ pc # "undo" =>
       \A n \in Names : leaf[n] = "new" => leaf'[n] \in {"new", "edited", "user"}]_vars

\* The journal of a restore that ended or was cut short is resolved in the end.
JournalResolved == pc \in Terminal \ {"idle"} ~> ~journal.linked

\* An undo or a recovery touches nothing the user has put in place since, and a
\* restore that was marked kept stays (put_back, remove_owned, mark_kept).
UsersFiles == UserFilesKept /\ KeptStays

\* However a restore ends, it ends whole: the state is typed, nothing that was never
\* verified is left (undo, recover), and once no journal is left no original is aside,
\* unless recover found the journal before Journal::create had locked it, or a system
\* call on that original failed, which commit and recover report and go past.
RestoreWhole == TypeOK /\ NothingUnverified /\ NothingAsideUnlessEarly

-----------------------------------------------------------------------------
(* The inductive invariant behind OriginalSafe, RestoreWhole and UsersFiles *)

Filling == {"entry", "link", "unlink", "create", "copy", "wrote"}
Working == Filling \cup {"verify", "mark", "drop", "undo", "putback"}
Busy    == {"scan", "relink", "unaside"}

\* The journal's lock keeps the restore and the recoverers apart.
OneAtWork ==
  /\ journal.holder = Restorer <=> pc \in Working
  /\ \A b \in Recoverers : journal.holder = b <=> rpc[b] \in Busy

\* Nothing is touched before the journal is there and locked.
NotBegun ==
  /\ pc = "idle" => ~journal.linked /\ \A b \in Recoverers : rpc[b] = "idle"
  /\ pc \in {"idle", "created"} =>
       /\ journal.asides = {} /\ journal.wrote = {}
       /\ \A n \in Names : leaf[n] \in {"none", "orig"}

\* An entry still to restore holds its original or nothing.
ToRestore ==
  pc \in {"idle", "created"} \cup Filling =>
    \A n \in todo :
      \/ n = cur /\ pc \in Filling \ {"entry"}
      \/ leaf[n] \in {"none", "orig"} /\ n \notin journal.asides

\* Where the restore stands with the entry it is at.
AtEntry ==
  /\ pc \in {"link", "unlink", "putback"} => leaf[cur] = "orig" /\ cur \in journal.asides
  /\ pc = "unlink" => aside[cur]
  /\ pc = "create" => leaf[cur] = "none"
  /\ pc = "copy" => leaf[cur] = "part"
  /\ pc = "putback" => leaves = {} /\ cur \notin moved
  /\ pc = "drop" => journal.committed

\* What is at an aside name was journaled, and the restore at work knows of it.
AsideKnown ==
  \A n \in Names :
    aside[n] =>
      /\ n \in journal.asides
      /\ pc \in Working =>
           n \in moved \cup stuck \/ failed \/ (n = cur /\ pc \in {"unlink", "putback"})

MovedAside == pc \in Working => \A n \in moved : aside[n]

\* A file the journal says was written, and is not committed, has its original aside.
WrittenOver ==
  /\ journal.synced \subseteq journal.wrote
  /\ pc \in Filling => journal.wrote \subseteq moved
  /\ ~journal.committed => \A n \in journal.wrote : leaf[n] = "new" => aside[n]

\* The restore at work knows the files it made.
OwnLeaves ==
  /\ pc \in Working =>
       \A n \in Names : leaf[n] \in {"part", "new", "edited"} => n \in leaves \/ failed
  /\ pc = "undone" => \A n \in Names : leaf[n] \in {"none", "orig", "user"}

FailedUndo == failed => pc \in {"undo", "putback", "undofailed", "dead"}

\* A recoverer still looks at whatever is aside, and drops an aside name only where the
\* original is safe.
RecoverRight ==
  \A b \in Recoverers :
    /\ rpc[b] \in Busy => \A n \in Names : aside[n] => n \in rtodo[b] \cup stuck
    /\ rpc[b] = "relink" => leaf[rcur[b]] = "none"
    /\ rpc[b] = "unaside" =>
         \/ journal.committed \/ leaf[rcur[b]] = "orig"
         \/ kept[rcur[b]] /\ ~StillAsWritten(rcur[b])

\* Unless it was found before it was locked, the journal goes last.
JournalLast ==
  ~early =>
    /\ pc \in {"created"} \cup Working => journal.linked
    /\ pc = "created" => \A b \in Recoverers : rpc[b] = "idle"
    /\ \A b \in Recoverers :
         rpc[b] = "remove" => pc \in Terminal /\ \A n \in Names : aside[n] => n \in stuck
    /\ ~journal.linked => \A n \in Names : aside[n] => n \in stuck

RestoreInd ==
  /\ TypeOK /\ OneAtWork /\ NotBegun /\ ToRestore /\ AtEntry /\ AsideKnown /\ MovedAside
  /\ WrittenOver /\ OwnLeaves /\ FailedUndo /\ RecoverRight /\ JournalLast /\ OriginalSafe
=============================================================================
