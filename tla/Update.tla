-------------------------------- MODULE Update --------------------------------
(***************************************************************************)
(* `task --update` on Unix (crates/task/src/update.rs): resolve a release, *)
(* ask, download its archive, take the binary out of it into a file beside *)
(* the installed one, try it, and rename it over the running binary.       *)
(*                                                                         *)
(* Several updates may run at once; any of them may be killed between two  *)
(* steps, any of its calls may fail, and the host may go down, after which *)
(* the directory is as it was last synced or as it was last changed, and a *)
(* file that was not synced may be cut short.                              *)
(***************************************************************************)
EXTENDS Naturals, Sequences, FiniteSets, SequencesExt

CONSTANTS Updates,   \* the processes that run --update
          Current,   \* the version they were built as: a sequence of numbers
          Releases,  \* [tag, size, digest, served]: what may be published
          Modes,     \* permission bits the installed binary may carry
          MaxAsset,  \* MAX_ASSET
          MaxCrashes \* bound: times the host goes down

VARIABLES file,   \* [id -> [data, mode, synced]]: the inodes
          dir,    \* [name -> id or 0]: the install directory
          disk,   \* the directory as it was last synced
          upd,    \* [Updates -> where it is, what it resolved and holds]
          first,  \* history: the mode the binary was installed with
          downs   \* times the host went down

vars == <<file, dir, disk, upd, first, downs>>

Exe == "task"
\* .task-update.<pid>
TmpName(u) == u
Names == {Exe} \cup Updates
NoRelease == [tag |-> <<>>]
Original == [data |-> [build |-> Current, runs |-> TRUE, whole |-> TRUE], mode |-> {}, synced |-> TRUE]

Init ==
  /\ first \in Modes
  /\ file = << [Original EXCEPT !.mode = first] >>
  /\ dir = [n \in Names |-> IF n = Exe THEN 1 ELSE 0] /\ disk = dir
  /\ upd = [u \in Updates |-> [pc |-> "plan", to |-> NoRelease, body |-> <<>>, id |-> 0, exit |-> "none"]]
  /\ downs = 0

At(u, pc) == upd[u].pc = pc
Goes(u, pc) == [upd EXCEPT ![u].pc = pc]
Exits(u, code) == [upd EXCEPT ![u].pc = "over", ![u].exit = code]

-----------------------------------------------------------------------------
(* Versions: the numeric fields, none where a name carries no version. *)

Less(a, b) == \E i \in 1 .. Len(b) :
  /\ \A j \in 1 .. (i - 1) : j <= Len(a) /\ a[j] = b[j]
  /\ i > Len(a) \/ a[i] < b[i]
\* step: a tag that carries no version to order is never newer.
Step(tag) == IF tag = Current THEN "same"
             ELSE IF Less(Current, tag) THEN "newer" ELSE "other"

-----------------------------------------------------------------------------
(* The archive: a sequence of [name, regular, size, data] members. *)

\* untar: the first regular member with the binary's name, no further than the
\* ceiling over all that is walked past; copy_member caps what is written.
Untar(members) ==
  LET IsBinary(i) == members[i].regular /\ members[i].name = "task"
      Walked[i \in 0 .. Len(members)] == IF i = 0 THEN 0 ELSE Walked[i - 1] + members[i].size
  IN  {members[i].data : i \in {k \in DOMAIN members :
         /\ IsBinary(k) /\ \A j \in 1 .. (k - 1) : ~IsBinary(j)
         /\ Walked[k - 1] <= MaxAsset /\ members[k].size <= MaxAsset}}

\* smoke_test: it runs here, and reports the version of the release's tag.
SmokeTest(data, tag) == data.runs /\ data.whole /\ data.build = tag

\* mode_of: what the replaced binary carries, less the set-id bits and the
\* write of group and others, and always executable by its owner.
ModeOf(mode) == (mode \ {"suid", "g+w", "o+w"}) \cup {"u+x"}

-----------------------------------------------------------------------------
(* One update. *)

\* plan: the release is resolved, or the update fails with nothing written.
\* What is served for it, a faithful or a damaged archive, is decided here.
Plan(u) ==
  /\ At(u, "plan")
  /\ \/ \E r \in Releases, check \in BOOLEAN :
          upd' = IF check THEN Exits(u, IF Step(r.tag) = "newer" THEN "1" ELSE "0")
                 ELSE IF Step(r.tag) = "same" \/ r.size > MaxAsset
                 THEN Exits(u, IF Step(r.tag) = "same" THEN "0" ELSE "2")
                 ELSE [upd EXCEPT ![u].pc = "confirm", ![u].to = r]
     \/ upd' = Exits(u, "2")
  /\ UNCHANGED <<file, dir, disk, first, downs>>

\* confirm: --yes or a yes goes on, anything else declines.
Confirm(u) ==
  /\ At(u, "confirm")
  /\ upd' \in {Goes(u, "create"), Exits(u, "0"), Exits(u, "2")}
  /\ UNCHANGED <<file, dir, disk, first, downs>>

\* install: the binary must still be there, and the file beside it must not.
CreateTmp(u) ==
  /\ At(u, "create")
  /\ IF dir[Exe] = 0 \/ dir[TmpName(u)] # 0
     THEN upd' = Exits(u, "2") /\ UNCHANGED <<file, dir>>
     ELSE /\ file' = Append(file, [data |-> [build |-> <<>>, runs |-> FALSE, whole |-> FALSE],
                                   mode |-> {}, synced |-> TRUE])
          /\ dir' = [dir EXCEPT ![TmpName(u)] = Len(file) + 1]
          /\ upd' = [upd EXCEPT ![u].pc = "download", ![u].id = Len(file) + 1]
  /\ UNCHANGED <<disk, first, downs>>

\* Every failure from here on removes the file again, as far as that goes.
Fails(u) ==
  /\ upd' = Exits(u, "2") /\ UNCHANGED file
  /\ dir' \in {dir, [dir EXCEPT ![TmpName(u)] = 0]}

\* download: no longer than announced, and it hashes to the published digest.
DigestGate(u) ==
  /\ upd[u].to.served.size <= upd[u].to.size
  /\ upd[u].to.served.digest = upd[u].to.digest

Download(u) ==
  /\ At(u, "download")
  /\ \/ /\ DigestGate(u)
        /\ upd' = [upd EXCEPT ![u].pc = "extract", ![u].body = upd[u].to.served.members]
        /\ UNCHANGED <<file, dir>>
     \/ Fails(u)
  /\ UNCHANGED <<disk, first, downs>>

\* extract writes through the open handle.
Extract(u) ==
  /\ At(u, "extract")
  /\ \/ \E data \in Untar(upd[u].body) :
          /\ file' = [file EXCEPT ![upd[u].id] = [data |-> data, mode |-> {"u+x"}, synced |-> FALSE]]
          /\ upd' = [upd EXCEPT ![u].pc = "sync", ![u].body = <<>>] /\ UNCHANGED dir
     \/ Fails(u)
  /\ UNCHANGED <<disk, first, downs>>

\* The mutant of Synced: flush for sync_all.
Synced_Flushed(f) == f

\* sync_all, where `flush` would do nothing.
Synced(f) == [f EXCEPT !.synced = TRUE]

SyncFile(u) ==
  /\ At(u, "sync")
  /\ \/ /\ file' = [file EXCEPT ![upd[u].id] = Synced(@)]
        /\ upd' = Goes(u, "smoke") /\ UNCHANGED dir
     \/ Fails(u)
  /\ UNCHANGED <<disk, first, downs>>

\* The file is run by its name, and reopened by it: it must be the same file.
Smoke(u) ==
  /\ At(u, "smoke")
  /\ \/ /\ dir[TmpName(u)] = upd[u].id
        /\ SmokeTest(file[upd[u].id].data, upd[u].to.tag)
        /\ file' = [file EXCEPT ![upd[u].id].mode = IF dir[Exe] = 0 THEN {"u+x"} ELSE ModeOf(file[dir[Exe]].mode)]
        /\ upd' = Goes(u, "publish") /\ UNCHANGED dir
     \/ Fails(u)
  /\ UNCHANGED <<disk, first, downs>>

\* publish: the rename, then the directory is synced as far as that goes.
Publish(u) ==
  /\ At(u, "publish")
  /\ \/ /\ dir' = [dir EXCEPT ![Exe] = dir[TmpName(u)], ![TmpName(u)] = 0]
        /\ upd' = Goes(u, "published") /\ UNCHANGED file
     \/ Fails(u)
  /\ UNCHANGED <<disk, first, downs>>

SyncDir(u) ==
  /\ At(u, "published")
  /\ disk' \in {dir, disk} /\ upd' = Exits(u, "0")
  /\ UNCHANGED <<file, dir, first, downs>>

-----------------------------------------------------------------------------
(* What happens to it. *)

Killed(u) ==
  /\ upd[u].pc \notin {"over", "plan"}
  /\ upd' = Exits(u, "killed")
  /\ UNCHANGED <<file, dir, disk, first, downs>>

\* The host goes down with every process on it.
Crash ==
  /\ downs < MaxCrashes
  /\ downs' = downs + 1
  /\ upd' = [u \in Updates |-> [upd[u] EXCEPT !.pc = "over", !.exit = "killed"]]
  /\ \E d \in {dir, disk} : dir' = d /\ disk' = d
  /\ \E kept \in BOOLEAN :
       file' = [i \in DOMAIN file |->
                  IF file[i].synced \/ kept THEN [file[i] EXCEPT !.synced = TRUE]
                  ELSE [file[i] EXCEPT !.synced = TRUE, !.data.whole = FALSE]]
  /\ UNCHANGED first

Next == \/ \E u \in Updates : \/ Plan(u) \/ Confirm(u) \/ CreateTmp(u) \/ Download(u) \/ Extract(u)
                              \/ SyncFile(u) \/ Smoke(u) \/ Publish(u) \/ SyncDir(u) \/ Killed(u)
        \/ Crash
Spec == Init /\ [][Next]_vars

-----------------------------------------------------------------------------
\* At every moment, after a crash of the host too, the installed name is a
\* whole binary that runs here: the one that was there, or one a release
\* published, whose version it reports, with no permission it did not have.
Installed ==
  /\ dir[Exe] # 0
  /\ LET f == file[dir[Exe]]
     IN  /\ f.data.whole /\ f.data.runs
         /\ f.data.build = Current \/ \E r \in Releases : f.data.build = r.tag
         /\ f.mode \subseteq first \cup {"u+x"}
         /\ dir[Exe] # 1 => f.mode \cap {"suid", "g+w", "o+w"} = {}

\* An update that reports success leaves nothing beside the binary, and one that
\* does not has touched neither the binary nor another update's file: all it can
\* leave is its own file, where the removal itself failed.
NothingLeftBy ==
  \A u \in Updates :
    upd[u].pc # "over" /\ upd'[u].exit \in {"0", "1", "2"} =>
      /\ upd[u].id # 0 /\ upd'[u].exit = "0" => dir'[TmpName(u)] = 0
      /\ upd'[u].exit # "0" => \A n \in Names \ {TmpName(u)} : dir'[n] = dir[n]

-----------------------------------------------------------------------------
(* The inductive invariant behind both *)

Datas == [build : Seq(Nat), runs : BOOLEAN, whole : BOOLEAN]
Members == [name : STRING, regular : BOOLEAN, size : Nat, data : Datas]
Bits == (UNION Modes) \cup {"u+x"}
ParametersOK ==
  /\ Exe \notin Updates /\ Current \in Seq(Nat)
  /\ \A r \in Releases : r.tag \in Seq(Nat) /\ r.served.members \in Seq(Members)

Active == {"download", "extract", "sync", "smoke", "publish"}
Inodes == [data : Datas, mode : SUBSET Bits, synced : BOOLEAN]
States == [pc : {"plan", "confirm", "create", "published", "over"} \cup Active,
           to : Releases \cup {NoRelease}, body : Seq(Members), id : Nat,
           exit : {"none", "0", "1", "2", "killed"}]
TypeOK ==
  /\ file \in Seq(Inodes)
  /\ dir \in [Names -> Nat] /\ disk \in [Names -> Nat]
  /\ upd \in [Updates -> States]
  /\ first \in Modes

\* A file that may be installed: it survives a crash as it is.
Whole(i) ==
  /\ i \in DOMAIN file /\ file[i].synced
  /\ file[i].data.whole /\ file[i].data.runs
  /\ file[i].data.build = Current \/ \E r \in Releases : file[i].data.build = r.tag
  /\ file[i].mode \subseteq first \cup {"u+x"}
  /\ i # 1 => file[i].mode \cap {"suid", "g+w", "o+w"} = {}

\* What an update that goes on has in hand: nothing until it made its file, then
\* a file of its own that nobody else writes, and that is fit before the rename.
Holds(u) ==
  /\ upd[u].pc # "over" => upd[u].exit = "none"
  /\ upd[u].pc \in {"plan", "confirm", "create"} => upd[u].id = 0
  /\ upd[u].pc \in {"confirm", "create"} \cup Active => upd[u].to \in Releases
  /\ upd[u].pc \in Active =>
       /\ upd[u].id \in DOMAIN file /\ upd[u].id = dir[u]
       /\ upd[u].id \notin {1, dir[Exe], disk[Exe]}
       /\ \A v \in Updates \ {u} : upd[v].pc \in Active => upd[v].id # upd[u].id
  /\ upd[u].pc \in {"smoke", "publish"} => file[upd[u].id].synced
  /\ upd[u].pc = "publish" => Whole(upd[u].id)
  /\ upd[u].pc = "published" => dir[u] = 0

UpdateInd == TypeOK /\ Whole(dir[Exe]) /\ Whole(disk[Exe]) /\ \A u \in Updates : Holds(u)
=============================================================================
