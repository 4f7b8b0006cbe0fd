------------------------------- MODULE Store -------------------------------
(***************************************************************************)
(* The oci:// build cache: the content store of crates/ocicas (store.rs,   *)
(* cas.rs, index.rs, retry.rs) as taskcore/src/cache/mod.rs drives it.     *)
(* Runs of one task on one host (Clients) restore the entry of one cache   *)
(* key, build on a miss, and save what they built.  They share the         *)
(* registry and the host's local chunk store (the CAS directory).          *)
(*                                                                         *)
(* A tree of generated files is the sequence of its content-defined        *)
(* chunks; SHA-256 is injective.  The registry, its retention and garbage  *)
(* collection (docs/cache-server.md) and the network are external.         *)
(***************************************************************************)
EXTENDS Naturals, Sequences, FiniteSets, SequencesExt

CONSTANTS
  Clients,     \* the runs of the task
  Trees,       \* what a build can produce: sequences of chunks
  Schemes,     \* the chunk digest schemes met: may the push be transparent?
  None,        \* no manifest under the tag; nothing pulled
  Window,      \* FETCH_CONCURRENCY: frames queued, and transfers under way
  Retries,     \* attempts past the first of a request that got no answer
  MaxEdits,    \* bound: writes to a tree after its hashes were recorded
  MaxFaults,   \* bound: lost requests, refusals, crashes, corrupt chunks
  MaxSweeps   \* bound: passes of the registry's retention and collection

ASSUME StoreAssumption ==
  /\ Trees # {} /\ \A t \in Trees : t \in Seq(UNION {Range(x) : x \in Trees})
  /\ Window \in Nat \ {0} /\ Schemes \in (SUBSET BOOLEAN) \ {{}}
  /\ Retries \in Nat /\ MaxEdits \in Nat /\ MaxFaults \in Nat /\ MaxSweeps \in Nat

VARIABLES
  blobs,    \* registry: the digests it holds
  tag,      \* registry: the manifest under the tag, or None
  cas,      \* the local CAS: digest -> "good" or "bad" bytes
  tree,     \* each client's generated files
  pc,       \* each client's step
  op,       \* each client's operation: what the step has read so far
  edits, faults, sweeps    \* the bounds

vars == <<blobs, tag, cas, tree, pc, op, edits, faults, sweeps>>

Chunks == UNION {Range(t) : t \in Trees}

\* The checksum of the generated files, as the run records it.
GeneratesHash(t) == [generates |-> t]

\* A chunk's blob digest: of its raw bytes when the registry decompresses
\* transparently, of the zstd frame otherwise.
ChunkDigest(c, transparent) == [of |-> IF transparent THEN "raw" ELSE "frame", chunk |-> c]

\* Index.marshal: the digest of an index blob is the index.
IndexDigest(idx) == [of |-> "index", index |-> idx]
ConfigDigest == [of |-> "config"]

\* build: one reference per chunk of the stream, repeated chunks included.
IndexOf(t, transparent) ==
  [transparent |-> transparent, chunks |-> [i \in DOMAIN t |-> ChunkDigest(t[i], transparent)]]

\* push_index: the layers name the index and every distinct chunk once.
Layers(idx) == {IndexDigest(idx), ConfigDigest} \union Range(idx.chunks)

\* What StreamReader makes of the chunks of an index: every chunk is in the
\* stream as often, and in the order, the index names it.
Stream(idx) == [i \in DOMAIN idx.chunks |-> idx.chunks[i].chunk]

\* StreamReader.read and read_cas compare the bytes with the digest that
\* names them before any of them reaches a file.
DigestMatches(bytes) == bytes = "good"

Nothing == [transparent |-> FALSE, recorded |-> None, index |-> None, sent |-> 0,
            queue |-> <<>>, flying |-> {}, broken |-> FALSE, left |-> 0,
            seen |-> None, pulled |-> None, got |-> <<>>]

Init ==
  /\ blobs = {} /\ tag = None
  /\ cas = [d \in {} |-> "good"]
  /\ tree = [c \in Clients |-> <<>>]
  /\ pc = [c \in Clients |-> "start"]
  /\ op = [c \in Clients |-> Nothing]
  /\ edits = 0 /\ faults = 0 /\ sweeps = 0

Go(c, step) == pc' = [pc EXCEPT ![c] = step]
\* A step that ends the restore or the save forgets what the operation read.
End(c, step) == Go(c, step) /\ op' = [op EXCEPT ![c] = Nothing]
Fault == faults < MaxFaults /\ faults' = faults + 1
NoFault == UNCHANGED faults
Registry == <<blobs, tag>>
Bounds == <<edits, sweeps>>

(***************************************************************************)
(* Restoring: restore_oci.                                                 *)
(***************************************************************************)

\* Store.open: an unreachable registry makes the restore a miss.
OpenToRestore(c) ==
  /\ pc[c] = "start"
  /\ \/ Go(c, "resolve") /\ NoFault /\ UNCHANGED op
     \/ Fault /\ End(c, "missed")
  /\ UNCHANGED <<Registry, cas, tree, Bounds>>

\* resolve_annotations before the pull: no tag is a miss.
Resolve(c) ==
  /\ pc[c] = "resolve"
  /\ \/ tag = None /\ End(c, "missed") /\ NoFault
     \/ /\ tag # None /\ Go(c, "index") /\ NoFault
        /\ op' = [op EXCEPT ![c].seen = tag.generates]
     \/ Fault /\ End(c, "missed")
  /\ UNCHANGED <<Registry, cas, tree, Bounds>>

\* The mutant of EntryMeta: the annotations read before the pull are used.
EntryMeta_Precheck(o, m) == o.seen

\* The annotations a restore is checked against come from the manifest its
\* index came from, as the tag may have been pushed again since the pre-check.
EntryMeta(o, m) == m.generates

\* pull_index: the manifest, then the index blob it names.  A tag retired in
\* between, like any answered refusal, is final.  Every entry here was pushed by
\* save_oci for this task and key, so that check_meta's comparison of the task
\* and sources annotations, by which vet_oci makes a foreign entry a miss, holds.
PullIndex(c) ==
  /\ pc[c] = "index"
  /\ \/ /\ tag # None /\ IndexDigest(tag.index) \in blobs
        /\ op' = [op EXCEPT ![c].pulled =
                    [index |-> tag.index, meta |-> EntryMeta(op[c], tag), was |-> tag]]
        /\ Go(c, "chunks") /\ NoFault
     \/ tag = None /\ End(c, "missed") /\ NoFault
     \/ Fault /\ End(c, "missed")
  /\ UNCHANGED <<Registry, cas, tree, Bounds>>

\* cas_valid: there is a file; it is not read.
CasValid(d) == d \in DOMAIN cas

\* cas_write: a temporary file renamed into place, so a chunk is there whole or
\* not at all, whoever else writes it.
CasWrite(d) == [e \in DOMAIN cas \union {d} |-> IF e = d THEN "good" ELSE cas[e]]

Wanted(c) == {d \in Range(op[c].pulled.index.chunks) : ~CasValid(d)}

\* pull_blob_bytes: the registry's bytes, verified against the digest and
\* capped while they arrive, each attempt from the start.
Fetchable(d) == d \in blobs

\* chunk_source: each distinct chunk with no file in the CAS is fetched into it.
\* One the registry no longer has fails the restore.
FetchChunk(c) ==
  /\ pc[c] = "chunks"
  /\ \E d \in Wanted(c) :
       \/ /\ Fetchable(d) /\ cas' = CasWrite(d)
          /\ NoFault /\ UNCHANGED <<pc, op>>
       \/ ~Fetchable(d) /\ End(c, "missed") /\ NoFault /\ UNCHANGED cas
       \/ Fault /\ End(c, "missed") /\ UNCHANGED cas
  /\ UNCHANGED <<Registry, tree, Bounds>>

ChunksFetched(c) ==
  /\ pc[c] = "chunks" /\ Wanted(c) = {}
  /\ Go(c, "assemble")
  /\ UNCHANGED <<Registry, cas, tree, op, Bounds, faults>>

\* The mutant of WithoutChunk: the corrupt chunk stays in the CAS.
WithoutChunk_Reported(d) == cas

\* read_cas takes a corrupt file out, so that the next restore fetches it.
WithoutChunk(d) == [e \in DOMAIN cas \ {d} |-> cas[e]]

\* read_cas and StreamReader.read: the next chunk of the stream.  A chunk that
\* does not match its digest is removed from the CAS and fails the restore, as
\* does one that is gone; what was written is undone (RestoreJournal).
ReadChunk(c) ==
  LET chunks == op[c].pulled.index.chunks
      d == chunks[Len(op[c].got) + 1]
  IN  /\ pc[c] = "assemble" /\ Len(op[c].got) < Len(chunks)
      /\ \/ /\ CasValid(d) /\ DigestMatches(cas[d])
            /\ op' = [op EXCEPT ![c].got = Append(@, IF cas[d] = "good" THEN d.chunk ELSE None)]
            /\ UNCHANGED <<pc, cas>>
         \/ /\ CasValid(d) /\ ~DigestMatches(cas[d])
            /\ cas' = WithoutChunk(d)
            /\ End(c, "missed")
         \/ ~CasValid(d) /\ End(c, "missed") /\ UNCHANGED cas
      /\ UNCHANGED <<Registry, tree, Bounds, faults>>

\* The assembled files are kept only when they hash to the entry's generates
\* checksum; otherwise they are taken out and the task runs (TaskRun).
VerifyRestore(c) ==
  /\ pc[c] = "assemble" /\ Len(op[c].got) = Len(op[c].pulled.index.chunks)
  /\ IF GeneratesHash(op[c].got) = op[c].pulled.meta
     THEN tree' = [tree EXCEPT ![c] = op[c].got] /\ Go(c, "kept")
     ELSE Go(c, "rejected") /\ UNCHANGED tree
  /\ UNCHANGED <<Registry, cas, op, Bounds, faults>>

(***************************************************************************)
(* Building and saving: cache_save and save_oci.                           *)
(***************************************************************************)

\* A miss runs the commands, and the run records the hash of what they made.
Build(c) ==
  /\ pc[c] \in {"missed", "rejected"}
  /\ \E t \in Trees :
       /\ tree' = [tree EXCEPT ![c] = t]
       /\ op' = [op EXCEPT ![c] = [Nothing EXCEPT !.recorded = GeneratesHash(t)]]
  /\ Go(c, "save")
  /\ UNCHANGED <<Registry, cas, Bounds, faults>>

\* A process outside the task's lock writes the generated files after their
\* hash was recorded and before they are read for the push.
EditTree(c) ==
  /\ edits < MaxEdits /\ edits' = edits + 1
  /\ pc[c] \in {"save", "check", "stream"} /\ op[c].sent = 0
  /\ \E t \in Trees \ {tree[c]} : tree' = [tree EXCEPT ![c] = t]
  /\ UNCHANGED <<Registry, cas, pc, op, faults, sweeps>>

\* detect_transparent: a registry that does not show the capability header (an
\* error answer included) gets the compressed scheme.
DetectTransparent == Schemes

\* Store.open, for the save: unreachable means no save.
OpenToSave(c) ==
  /\ pc[c] = "save"
  /\ \/ /\ \E b \in DetectTransparent : op' = [op EXCEPT ![c].transparent = b]
        /\ Go(c, "check") /\ NoFault
     \/ Fault /\ End(c, "done")
  /\ UNCHANGED <<Registry, cas, tree, Bounds>>

Carries(hash) == tag # None /\ tag.generates = hash

\* save_oci: a tag already carrying the generates checksum is left alone; a
\* failing lookup is not a reason not to push.
CheckTag(c) ==
  /\ pc[c] = "check"
  /\ \/ Carries(op[c].recorded) /\ End(c, "done") /\ NoFault
     \/ ~Carries(op[c].recorded) /\ Go(c, "stream") /\ NoFault /\ UNCHANGED op
     \/ Fault /\ Go(c, "stream") /\ UNCHANGED op
  /\ UNCHANGED <<Registry, cas, tree, Bounds>>

\* build, on the blocking pool: the next chunk of the stream; only a chunk not
\* met before in this stream is handed to the (bounded) upload channel.  The
\* files are whatever they are when they are read.
StreamChunk(c) ==
  LET i == op[c].sent + 1
      d == ChunkDigest(tree[c][i], op[c].transparent)
      new == \A j \in 1..op[c].sent : tree[c][j] # tree[c][i]
  IN  /\ pc[c] = "stream" /\ op[c].sent < Len(tree[c])
      /\ new => Len(op[c].queue) < Window
      /\ op' = [op EXCEPT ![c].sent = i, ![c].queue = IF new THEN Append(@, d) ELSE @]
      /\ UNCHANGED <<Registry, cas, tree, pc, Bounds, faults>>

\* push: a frame taken from the channel once a permit is free is uploaded by a
\* task of its own.
StartUpload(c) ==
  /\ pc[c] = "stream" /\ op[c].queue # <<>> /\ Cardinality(op[c].flying) < Window
  /\ op' = [op EXCEPT ![c].queue = Tail(@), ![c].flying = @ \union {Head(op[c].queue)}]
  /\ UNCHANGED <<Registry, cas, tree, pc, Bounds, faults>>

\* push_blob_zstd, push_blob: what the registry holds after a put that got no
\* answer (an upload session is left behind, not resumed).
AfterLostPut(d) == {blobs, blobs \union {d}}

\* upload_chunk: skipped when the registry has the blob, put otherwise.  The
\* attempts of one upload put the same bytes under the same digest, so they
\* count as one; an upload given up on may have reached the registry.
FinishUpload(c) ==
  /\ pc[c] = "stream"
  /\ \E d \in op[c].flying :
       \/ /\ blobs' = blobs \union {d} /\ NoFault
          /\ op' = [op EXCEPT ![c].flying = @ \ {d}]
       \/ /\ Fault /\ blobs' \in AfterLostPut(d)
          /\ op' = [op EXCEPT ![c].flying = @ \ {d}, ![c].broken = TRUE]
  /\ UNCHANGED <<tag, cas, tree, pc, Bounds>>

\* The mutant of UploadsJoined: uploads in flight are not waited for.
UploadsJoined_NoWait(o, t) == o.sent = Len(t) /\ o.queue = <<>>

\* The build has ended (the channel is closed), the uploads are joined, and
\* none failed: only then is anything pushed that names the chunks.
UploadsJoined(o, t) == o.sent = Len(t) /\ o.queue = <<>> /\ o.flying = {}

JoinUploads(c) ==
  LET idx == IndexOf(tree[c], op[c].transparent) IN
  /\ pc[c] = "stream" /\ UploadsJoined(op[c], tree[c])
  /\ IF op[c].broken
     THEN End(c, "done") /\ UNCHANGED blobs /\ NoFault
     ELSE \/ /\ blobs' = blobs \union {IndexDigest(idx), ConfigDigest}
             /\ op' = [op EXCEPT ![c].index = idx, ![c].left = Retries]
             /\ Go(c, "manifest") /\ NoFault
          \/ Fault /\ End(c, "done") /\ UNCHANGED blobs
  /\ UNCHANGED <<tag, cas, tree, Bounds>>

\* The manifest of a push, with the annotations cache_save took from the run.
ManifestOf(o) == [index |-> o.index, generates |-> o.recorded]

\* retry_paced: only a request that got no answer is made again.
MayRetry(o) == o.left > 0

\* push_index, last request: retried while it gets no answer, although the
\* registry may have taken it.
PushManifest(c) ==
  /\ pc[c] = "manifest"
  /\ \/ tag' = ManifestOf(op[c]) /\ End(c, "done") /\ NoFault
     \/ /\ Fault /\ tag' \in {tag, ManifestOf(op[c])}
        /\ IF MayRetry(op[c]) THEN op' = [op EXCEPT ![c].left = @ - 1] /\ UNCHANGED pc
                             ELSE End(c, "done")
     \/ Fault /\ End(c, "done") /\ UNCHANGED tag
  /\ UNCHANGED <<blobs, cas, tree, Bounds>>

\* The next run of the task: its generated files are gone (a fresh checkout).
NextRun(c) ==
  /\ pc[c] \in {"kept", "done"}
  /\ Go(c, "start")
  /\ tree' = [tree EXCEPT ![c] = <<>>]
  /\ op' = [op EXCEPT ![c] = Nothing]
  /\ UNCHANGED <<Registry, cas, Bounds, faults>>

\* A run is killed: the uploads it spawned die with it.
Crash(c) ==
  /\ pc[c] \notin {"start", "kept", "done"}
  /\ Fault /\ End(c, "done")
  /\ UNCHANGED <<Registry, cas, tree, Bounds>>

\* A file of the CAS goes bad: the disk, or a rename that outlived its data
\* (cas_write does not sync).
CorruptChunk ==
  /\ Fault
  /\ \E d \in DOMAIN cas : cas' = [cas EXCEPT ![d] = "bad"]
  /\ UNCHANGED <<Registry, tree, pc, op, Bounds>>

\* Tag retention: the registry drops an old tag.
Retire ==
  /\ tag # None /\ sweeps < MaxSweeps
  /\ tag' = None /\ sweeps' = sweeps + 1
  /\ UNCHANGED <<blobs, cas, tree, pc, op, edits, faults>>

\* A push under way has asked for, or put, these blobs: a collector's grace
\* period keeps them.
InUse(c) == IF pc[c] \in {"stream", "manifest"} THEN
              {ChunkDigest(x, op[c].transparent) : x \in Chunks}
                \union (IF op[c].index = None THEN {} ELSE Layers(op[c].index))
            ELSE {}

\* Garbage collection: blobs no manifest names.
Collect ==
  LET live == (IF tag = None THEN {} ELSE Layers(tag.index)) \union UNION {InUse(c) : c \in Clients}
  IN  /\ blobs \ live # {} /\ sweeps < MaxSweeps
      /\ blobs' = blobs \intersect live /\ sweeps' = sweeps + 1
      /\ UNCHANGED <<tag, cas, tree, pc, op, edits, faults>>

ClientStep(c) ==
  \/ OpenToRestore(c) \/ Resolve(c) \/ PullIndex(c) \/ FetchChunk(c)
  \/ ChunksFetched(c) \/ ReadChunk(c) \/ VerifyRestore(c) \/ Build(c)
  \/ OpenToSave(c) \/ CheckTag(c) \/ StreamChunk(c) \/ StartUpload(c)
  \/ FinishUpload(c) \/ JoinUploads(c) \/ PushManifest(c) \/ NextRun(c)

Next ==
  \/ \E c \in Clients : ClientStep(c) \/ EditTree(c) \/ Crash(c)
  \/ CorruptChunk \/ Retire \/ Collect

Spec == Init /\ [][Next]_vars

\* A run never stops between two steps: its requests are answered, refused or
\* given up on (the timeouts and the retry bound), and its builds end.
FairSpec == Spec /\ \A c \in Clients : WF_vars(ClientStep(c))

(***************************************************************************)
(* Properties.                                                             *)
(***************************************************************************)

\* The manifest under the tag never names a blob the registry lacks: a push
\* joins its uploads (skipped ones included) before it pushes the index and the
\* manifest, whatever fails, is retried or is pushed by another run meanwhile.
ManifestComplete == tag # None => Layers(tag.index) \subseteq blobs

\* A restore that assembled its stream has, byte for byte, a tree some build
\* made: repeated chunks, chunks shared with other entries, chunks of another
\* digest scheme and corrupt CAS files included.
RoundTrip ==
  \A c \in Clients : pc[c] \in {"kept", "rejected"} => op[c].got \in Trees

\* Rejecting an assembled restore means its own manifest was wrong: the pushing
\* run's files no longer hashed to what that run recorded.  A tag pushed again
\* between the existence check and the pull is no reason to reject.
RejectedOnlyIfBad ==
  \A c \in Clients :
    pc[c] = "rejected" =>
      Stream(op[c].pulled.was.index) # op[c].pulled.was.generates.generates

\* Runs that go on restoring and building come to hit, once faults and
\* retention stop and unless a tree was written between the recording of its
\* hash and its push: corrupt CAS files, interrupted pushes, retired tags and
\* collected blobs are all recovered from.
HitsAgain == \A c \in Clients : []<>(pc[c] = "kept" \/ edits > 0)

\* docs/guide.md on a cache miss: "the outputs are saved to the cache
\* afterward", so that runs that go on missing and building come to hit.
MissIsSaved == \A c \in Clients : []<>(pc[c] = "kept")

\* A manifest that can be fetched names only content that is there, and what a
\* client restores is what was saved (push, pull).
EntryWhole == ManifestComplete /\ RoundTrip

(***************************************************************************)
(* The inductive invariant behind EntryWhole and RejectedOnlyIfBad.        *)
(***************************************************************************)

Hashes    == {GeneratesHash(t) : t \in Trees}
Indexes   == {IndexOf(t, b) : t \in Trees, b \in BOOLEAN}
Manifests == [index: Indexes, generates: Hashes]
Digests   == [of: {"raw", "frame"}, chunk: Chunks]
Steps     == {"start", "resolve", "index", "chunks", "assemble", "kept", "rejected", "missed",
              "save", "check", "stream", "manifest", "done"}

Ops == [transparent: BOOLEAN, recorded: Hashes \union {None}, index: Indexes \union {None},
        sent: Nat, queue: Seq(Digests), flying: SUBSET Digests, broken: BOOLEAN, left: Nat,
        seen: Hashes \union {None},
        pulled: [index: Indexes, meta: Hashes, was: Manifests] \union {None},
        got: Seq(Chunks)]

TypeOK ==
  /\ tag \in Manifests \union {None}
  /\ pc \in [Clients -> Steps]
  /\ tree \in [Clients -> Trees \union {<<>>}]
  /\ op \in [Clients -> Ops]

\* No index yet is not an index.
ASSUME NoneAssumption == None \notin Indexes

\* What holds of a run at step s of operation o, with generated files t and registry b.

\* A restore's annotations are those of the manifest its index came from.
PulledTogether(s, o) ==
  s \in {"chunks", "assemble", "kept", "rejected"} =>
    /\ o.pulled \in [index: Indexes, meta: Hashes, was: Manifests]
    /\ o.pulled.index = o.pulled.was.index
    /\ o.pulled.meta = o.pulled.was.generates

\* What a restore has assembled is the beginning of its stream, and in the end all of it.
AssembledSoFar(s, o) ==
  /\ s \in {"start", "resolve", "index", "chunks"} => o.got = <<>>
  /\ s = "assemble" =>
       /\ Len(o.got) <= Len(o.pulled.index.chunks)
       /\ \A i \in 1..Len(o.got) : o.got[i] = o.pulled.index.chunks[i].chunk
  /\ s \in {"kept", "rejected"} => o.got = Stream(o.pulled.index)
  /\ s = "rejected" => GeneratesHash(o.got) # o.pulled.meta

\* A save pushes a tree a build could make, under a checksum a build recorded.
SavingTree(s, o, t) ==
  /\ s \in {"save", "check", "stream", "manifest"} => t \in Trees /\ o.recorded \in Hashes
  /\ s \in {"save", "check"} => o.sent = 0

\* Every chunk streamed so far is in the registry, queued or on its way, unless an
\* upload failed.
UploadsTold(s, o, t, b) ==
  s = "stream" =>
    /\ o.sent <= Len(t)
    /\ ~o.broken =>
         \A i \in 1..o.sent :
           ChunkDigest(t[i], o.transparent) \in b \union o.flying \union Range(o.queue)

\* All a manifest about to be pushed names is in the registry.
PushReady(s, o, b) == s = "manifest" => o.index \in Indexes /\ Layers(o.index) \subseteq b

ClientInd(s, o, t, b) ==
  /\ PulledTogether(s, o) /\ AssembledSoFar(s, o)
  /\ SavingTree(s, o, t) /\ UploadsTold(s, o, t, b) /\ PushReady(s, o, b)

StoreInd ==
  /\ TypeOK /\ ManifestComplete
  /\ \A c \in Clients : ClientInd(pc[c], op[c], tree[c], blobs)
=============================================================================
