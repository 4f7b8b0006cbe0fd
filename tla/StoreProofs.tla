---------------------------- MODULE StoreProofs ----------------------------
(***************************************************************************)
(* The content store, for every set of runs, trees and chunks, and any     *)
(* number of lost requests, crashes, corrupt chunks and collections.       *)
(***************************************************************************)
EXTENDS Store, TLAPS

USE StoreAssumption

-----------------------------------------------------------------------------
(* Trees, indexes and streams                                              *)

\* A tree is a sequence of chunks.
LEMMA TreeIsSeq == ASSUME NEW t \in Trees PROVE t \in Seq(Chunks)
BY DEF Chunks

\* The stream of an index is the tree the index was made of, whatever the digest scheme.
LEMMA StreamOfIndex ==
  ASSUME NEW t \in Trees, NEW b \in BOOLEAN
  PROVE  Stream(IndexOf(t, b)) = t
<1>1. t \in Seq(Chunks)
  BY TreeIsSeq
<1>2. DOMAIN t = 1..Len(t) /\ t = [i \in 1..Len(t) |-> t[i]]
  BY <1>1
<1>3. Stream(IndexOf(t, b)) = [i \in DOMAIN t |-> t[i]]
  BY DEF Stream, IndexOf, ChunkDigest
<1> QED
  BY <1>2, <1>3

\* The chunks of an index are digests, as many as the tree has chunks.
LEMMA IndexChunks ==
  ASSUME NEW idx \in Indexes
  PROVE  /\ idx.chunks \in Seq(Digests)
         /\ \E t \in Trees :
              /\ Len(idx.chunks) = Len(t) /\ Stream(idx) = t
              /\ \A i \in 1..Len(t) : idx.chunks[i].chunk = t[i]
<1>1. PICK t \in Trees, b \in BOOLEAN : idx = IndexOf(t, b)
  BY DEF Indexes
<1>2. t \in Seq(Chunks) /\ DOMAIN t = 1..Len(t) /\ Len(t) \in Nat
  BY TreeIsSeq
<1>3. idx.chunks = [i \in 1..Len(t) |-> ChunkDigest(t[i], b)]
  BY <1>1, <1>2 DEF IndexOf
<1>4. \A i \in 1..Len(t) : ChunkDigest(t[i], b) \in Digests
      /\ ChunkDigest(t[i], b).chunk = t[i]
  BY <1>2 DEF ChunkDigest, Digests
<1>5. idx.chunks \in Seq(Digests) /\ Len(idx.chunks) = Len(t)
  BY <1>2, <1>3, <1>4
<1>6. Stream(idx) = t
  BY <1>1, StreamOfIndex
<1> QED
  BY <1>3, <1>4, <1>5, <1>6

\* A restore that read as many chunks as its index has, each the right one, has its stream.
LEMMA WholeStream ==
  ASSUME NEW idx \in Indexes, NEW got \in Seq(Chunks), Len(got) = Len(idx.chunks),
         \A i \in 1..Len(got) : got[i] = idx.chunks[i].chunk
  PROVE  got = Stream(idx)
<1>1. idx.chunks \in Seq(Digests) /\ DOMAIN idx.chunks = 1..Len(got)
  BY IndexChunks
<1>2. got = [i \in 1..Len(got) |-> got[i]]
  OBVIOUS
<1> QED
  BY <1>1, <1>2 DEF Stream

\* The next chunk of the index makes a longer beginning of its stream.
LEMMA NextOfStream ==
  ASSUME NEW idx \in Indexes, NEW got \in Seq(Chunks), Len(got) < Len(idx.chunks),
         \A i \in 1..Len(got) : got[i] = idx.chunks[i].chunk,
         NEW g, g = Append(got, idx.chunks[Len(got) + 1].chunk)
  PROVE  /\ g \in Seq(Chunks) /\ Len(g) <= Len(idx.chunks)
         /\ \A i \in 1..Len(g) : g[i] = idx.chunks[i].chunk
<1>1. idx.chunks \in Seq(Digests)
  BY IndexChunks
<1> DEFINE m == Len(got)
           x == idx.chunks[m + 1].chunk
<1>2. m \in Nat /\ Len(idx.chunks) \in Nat /\ m + 1 \in 1..Len(idx.chunks)
  BY <1>1
<1>3. idx.chunks[m + 1] \in Digests
  BY <1>1, <1>2
<1>4. x \in Chunks
  BY <1>3 DEF Digests
<1>5. g \in Seq(Chunks) /\ Len(g) = m + 1 /\ g[m + 1] = x /\ \A i \in 1..m : g[i] = got[i]
  BY <1>2, <1>4
<1> QED
  BY <1>2, <1>5

-----------------------------------------------------------------------------
(* One run's step                                                          *)

\* A step of one run keeps the invariant where what it leaves to itself is right and it
\* takes nothing from the registry: nothing else is the other runs' concern.
LEMMA ClientMoves ==
  ASSUME StoreInd, NEW c \in Clients,
         NEW s \in Steps, NEW o \in Ops, NEW t \in Trees \union {<<>>},
         pc' = [pc EXCEPT ![c] = s], op' = [op EXCEPT ![c] = o],
         tree' = [tree EXCEPT ![c] = t],
         blobs \subseteq blobs', ClientInd(s, o, t, blobs'),
         tag' = tag \/ (tag' \in Manifests /\ Layers(tag'.index) \subseteq blobs')
  PROVE  StoreInd'
<1> USE DEF StoreInd
<1>1. TypeOK'
  BY DEF TypeOK
<1>2. ManifestComplete'
  BY DEF ManifestComplete
<1>3. ASSUME NEW d \in Clients PROVE ClientInd(pc'[d], op'[d], tree'[d], blobs')
  <2>1. CASE d = c
    BY <2>1 DEF TypeOK
  <2>2. CASE d # c
    <3>1. pc'[d] = pc[d] /\ op'[d] = op[d] /\ tree'[d] = tree[d]
      BY <2>2 DEF TypeOK
    <3>2. ClientInd(pc[d], op[d], tree[d], blobs)
      OBVIOUS
    <3> QED
      BY <3>1, <3>2 DEF ClientInd, UploadsTold, PushReady
  <2> QED
    BY <2>1, <2>2
<1> QED
  BY <1>1, <1>2, <1>3

\* A run that has ended its restore or its save, and one that begins, owes nothing.
LEMMA Ended ==
  ASSUME NEW s \in {"missed", "done", "start"}, NEW t, NEW b
  PROVE  Nothing \in Ops /\ ClientInd(s, Nothing, t, b)
BY DEF Nothing, Ops, ClientInd, PulledTogether, AssembledSoFar, SavingTree, UploadsTold,
       PushReady

\* The types of what a run has.
LEMMA Typed ==
  ASSUME StoreInd, NEW c \in Clients
  PROVE  /\ pc[c] \in Steps /\ op[c] \in Ops /\ tree[c] \in Trees \union {<<>>}
         /\ tree = [tree EXCEPT ![c] = tree[c]] /\ op = [op EXCEPT ![c] = op[c]]
         /\ pc = [pc EXCEPT ![c] = pc[c]]
         /\ ClientInd(pc[c], op[c], tree[c], blobs)
BY DEF StoreInd, TypeOK

\* An operation stays one as its fields are assigned.
LEMMA OpFields ==
  ASSUME NEW o \in Ops
  PROVE  /\ \A h \in Hashes : [o EXCEPT !.seen = h] \in Ops
         /\ \A p \in [index: Indexes, meta: Hashes, was: Manifests] :
              [o EXCEPT !.pulled = p] \in Ops
         /\ \A g \in Seq(Chunks) : [o EXCEPT !.got = g] \in Ops
         /\ \A b \in BOOLEAN : [o EXCEPT !.transparent = b] \in Ops
         /\ \A i \in Nat, q \in Seq(Digests) : [o EXCEPT !.sent = i, !.queue = q] \in Ops
         /\ \A q \in Seq(Digests), f \in SUBSET Digests :
              [o EXCEPT !.queue = q, !.flying = f] \in Ops
         /\ \A f \in SUBSET Digests :
              [o EXCEPT !.flying = f] \in Ops /\ [o EXCEPT !.flying = f,
                     !.broken = TRUE] \in Ops
         /\ \A idx \in Indexes, n \in Nat :
              [o EXCEPT !.index = idx, !.left = n] \in Ops /\ [o EXCEPT !.left = n] \in Ops
         /\ \A h \in Hashes : [o EXCEPT !.recorded = h] \in Ops
<1>1. ASSUME NEW h \in Hashes PROVE [o EXCEPT !.seen = h] \in Ops
  BY DEF Ops
<1>2. ASSUME NEW p \in [index: Indexes, meta: Hashes, was: Manifests]
      PROVE  [o EXCEPT !.pulled = p] \in Ops
  BY DEF Ops
<1>3. ASSUME NEW g \in Seq(Chunks) PROVE [o EXCEPT !.got = g] \in Ops
  BY DEF Ops
<1>4. ASSUME NEW b \in BOOLEAN PROVE [o EXCEPT !.transparent = b] \in Ops
  BY DEF Ops
<1>5. ASSUME NEW i \in Nat, NEW q \in Seq(Digests)
      PROVE  [o EXCEPT !.sent = i, !.queue = q] \in Ops
  BY DEF Ops
<1>6. ASSUME NEW q \in Seq(Digests), NEW f \in SUBSET Digests
      PROVE  [o EXCEPT !.queue = q, !.flying = f] \in Ops
  BY DEF Ops
<1>7. ASSUME NEW f \in SUBSET Digests
      PROVE  [o EXCEPT !.flying = f] \in Ops /\ [o EXCEPT !.flying = f,
             !.broken = TRUE] \in Ops
  BY DEF Ops
<1>8. ASSUME NEW idx \in Indexes, NEW n \in Nat
      PROVE  [o EXCEPT !.index = idx, !.left = n] \in Ops /\ [o EXCEPT !.left = n] \in Ops
  BY DEF Ops
<1>9. ASSUME NEW h \in Hashes PROVE [o EXCEPT !.recorded = h] \in Ops
  BY DEF Ops
<1> QED
  BY <1>1, <1>2, <1>3, <1>4, <1>5, <1>6, <1>7, <1>8, <1>9

\* A step that ends the restore or the save.
LEMMA EndStep ==
  ASSUME StoreInd, NEW c \in Clients, NEW s \in {"missed", "done"}, End(c, s), UNCHANGED tree,
         blobs \subseteq blobs',
         tag' = tag \/ (tag' \in Manifests /\ Layers(tag'.index) \subseteq blobs')
  PROVE  StoreInd'
<1>1. s \in Steps /\ tree' = [tree EXCEPT ![c] = tree[c]] /\ tree[c] \in Trees \union {<<>>}
  BY Typed DEF Steps
<1>2. pc' = [pc EXCEPT ![c] = s] /\ op' = [op EXCEPT ![c] = Nothing]
  BY DEF End, Go
<1>3. Nothing \in Ops /\ ClientInd(s, Nothing, tree[c], blobs')
  BY Ended
<1> QED
  BY <1>1, <1>2, <1>3, ClientMoves

\* A step that only goes on, with o for its operation.
LEMMA GoStep ==
  ASSUME StoreInd, NEW c \in Clients, NEW s \in Steps, NEW o \in Ops, Go(c, s),
         op' = [op EXCEPT ![c] = o], UNCHANGED <<tree, tag>>, blobs \subseteq blobs',
         ClientInd(s, o, tree[c], blobs')
  PROVE  StoreInd'
<1>1. tree' = [tree EXCEPT ![c] = tree[c]] /\ tree[c] \in Trees \union {<<>>}
  BY Typed
<1>2. pc' = [pc EXCEPT ![c] = s]
  BY DEF Go
<1> QED
  BY <1>1, <1>2, ClientMoves

-----------------------------------------------------------------------------
(* Restoring                                                               *)

\* Opening the store reads nothing.
LEMMA OpenToRestoreInv ==
  ASSUME StoreInd, NEW c \in Clients, OpenToRestore(c)
  PROVE  StoreInd'
<1>1. UNCHANGED <<blobs, tag, tree>> /\ pc[c] = "start"
  BY DEF OpenToRestore, Registry
<1>2. CASE Go(c, "resolve") /\ UNCHANGED op
  <2>1. op' = [op EXCEPT ![c] = op[c]] /\ op[c] \in Ops /\ "resolve" \in Steps
    BY <1>2, Typed DEF Steps
  <2>2. ClientInd("resolve", op[c], tree[c], blobs')
    BY <1>1, Typed DEF ClientInd, PulledTogether, AssembledSoFar, SavingTree, UploadsTold,
         PushReady
  <2> QED
    BY <1>1, <1>2, <2>1, <2>2, GoStep
<1>3. CASE End(c, "missed")
  BY <1>1, <1>3, EndStep
<1> QED
  BY <1>2, <1>3 DEF OpenToRestore

\* The pre-check remembers the annotations it saw, which nothing is kept by.
LEMMA ResolveInv ==
  ASSUME StoreInd, NEW c \in Clients, Resolve(c)
  PROVE  StoreInd'
<1>1. UNCHANGED <<blobs, tag, tree>> /\ pc[c] = "resolve"
  BY DEF Resolve, Registry
<1>2. CASE tag # None /\ Go(c, "index") /\ op' = [op EXCEPT ![c].seen = tag.generates]
  <2> DEFINE o == [op[c] EXCEPT !.seen = tag.generates]
  <2>1. tag.generates \in Hashes
    BY <1>2 DEF StoreInd, TypeOK, Manifests
  <2>2. o \in Ops /\ "index" \in Steps /\ op' = [op EXCEPT ![c] = o]
    BY <1>2, <2>1, Typed, OpFields DEF Steps
  <2>3. ClientInd("index", o, tree[c], blobs')
    BY <1>1, Typed DEF ClientInd, PulledTogether, AssembledSoFar, SavingTree, UploadsTold,
         PushReady, Ops
  <2> QED
    BY <1>1, <1>2, <2>2, <2>3, GoStep
<1>3. CASE End(c, "missed")
  BY <1>1, <1>3, EndStep
<1> QED
  BY <1>2, <1>3 DEF Resolve

\* The index and the annotations come from one manifest.
LEMMA PullIndexInv ==
  ASSUME StoreInd, NEW c \in Clients, PullIndex(c)
  PROVE  StoreInd'
<1>1. UNCHANGED <<blobs, tag, tree>> /\ pc[c] = "index"
  BY DEF PullIndex, Registry
<1> DEFINE p == [index |-> tag.index, meta |-> tag.generates, was |-> tag]
<1>2. CASE tag # None /\ Go(c, "chunks") /\ op' = [op EXCEPT ![c].pulled = p]
  <2> DEFINE o == [op[c] EXCEPT !.pulled = p]
  <2>1. tag \in Manifests /\ tag.index \in Indexes /\ tag.generates \in Hashes
    BY <1>2 DEF StoreInd, TypeOK, Manifests
  <2>2. p \in [index: Indexes, meta: Hashes, was: Manifests]
    BY <2>1
  <2>3. o \in Ops /\ "chunks" \in Steps /\ op' = [op EXCEPT ![c] = o]
    BY <1>2, <2>2, Typed, OpFields DEF Steps
  <2>4. o.pulled = p /\ o.got = op[c].got
    BY Typed DEF Ops
  <2>5. ClientInd("chunks", o, tree[c], blobs')
    BY <1>1, <2>2, <2>4, Typed DEF ClientInd, PulledTogether, AssembledSoFar, SavingTree,
         UploadsTold, PushReady
  <2> QED
    BY <1>1, <1>2, <2>3, <2>5, GoStep
<1>3. CASE End(c, "missed")
  BY <1>1, <1>3, EndStep
<1> QED
  BY <1>2, <1>3 DEF PullIndex, EntryMeta

\* A chunk fetched into the CAS is no run's own.
LEMMA FetchChunkInv ==
  ASSUME StoreInd, NEW c \in Clients, FetchChunk(c)
  PROVE  StoreInd'
<1>1. UNCHANGED <<blobs, tag, tree>>
  BY DEF FetchChunk, Registry
<1>2. CASE UNCHANGED <<pc, op>>
  BY <1>1, <1>2 DEF StoreInd, TypeOK, ManifestComplete
<1>3. CASE End(c, "missed")
  BY <1>1, <1>3, EndStep
<1> QED
  BY <1>2, <1>3 DEF FetchChunk

\* Assembling begins with nothing.
LEMMA ChunksFetchedInv ==
  ASSUME StoreInd, NEW c \in Clients, ChunksFetched(c)
  PROVE  StoreInd'
<1>1. UNCHANGED <<blobs, tag, tree, op>> /\ pc[c] = "chunks" /\ Go(c, "assemble")
  BY DEF ChunksFetched, Registry
<1>2. op' = [op EXCEPT ![c] = op[c]] /\ op[c] \in Ops /\ "assemble" \in Steps
  BY <1>1, Typed DEF Steps
<1>3. op[c].pulled.index.chunks \in Seq(Digests)
  BY <1>1, Typed, IndexChunks DEF ClientInd, PulledTogether
<1>4. ClientInd("assemble", op[c], tree[c], blobs')
  BY <1>1, <1>3, Typed DEF ClientInd, PulledTogether, AssembledSoFar, SavingTree, UploadsTold,
       PushReady
<1> QED
  BY <1>1, <1>2, <1>4, GoStep

\* The next chunk of the stream is the one the index names, or the restore ends.
LEMMA ReadChunkInv ==
  ASSUME StoreInd, NEW c \in Clients, ReadChunk(c)
  PROVE  StoreInd'
<1>1. UNCHANGED <<blobs, tag, tree>> /\ pc[c] = "assemble"
  BY DEF ReadChunk, Registry
<1> DEFINE chunks == op[c].pulled.index.chunks
           n == Len(op[c].got) + 1
           o == [op[c] EXCEPT !.got = Append(@, chunks[n].chunk)]
<1>2. CASE End(c, "missed")
  BY <1>1, <1>2, EndStep
<1>3. CASE UNCHANGED pc /\ Len(op[c].got) < Len(chunks) /\ op' = [op EXCEPT ![c] = o]
  <2>1. /\ op[c] \in Ops /\ op[c].got \in Seq(Chunks)
        /\ op[c].pulled \in [index: Indexes, meta: Hashes, was: Manifests]
    BY <1>1, Typed DEF Ops, ClientInd, PulledTogether
  <2>2. o.got = Append(op[c].got, chunks[n].chunk) /\ o.pulled = op[c].pulled
    BY <2>1 DEF Ops
  <2>3. /\ o.got \in Seq(Chunks) /\ Len(o.got) <= Len(chunks)
        /\ \A i \in 1..Len(o.got) : o.got[i] = chunks[i].chunk
    <3>1. op[c].pulled.index \in Indexes
      BY <2>1
    <3>2. \A i \in 1..Len(op[c].got) : op[c].got[i] = chunks[i].chunk
      <4>1. AssembledSoFar(pc[c], op[c])
        BY Typed DEF ClientInd
      <4> QED
        BY <1>1, <4>1 DEF AssembledSoFar
    <3> DEFINE idx == op[c].pulled.index
               got == op[c].got
               g == o.got
    <3>3. /\ idx \in Indexes /\ got \in Seq(Chunks) /\ Len(got) < Len(idx.chunks)
          /\ \A i \in 1..Len(got) : got[i] = idx.chunks[i].chunk
          /\ g = Append(got, idx.chunks[Len(got) + 1].chunk)
      BY <1>3, <2>1, <2>2, <3>1, <3>2
    <3> HIDE DEF idx, got, g
    <3>4. /\ g \in Seq(Chunks) /\ Len(g) <= Len(idx.chunks)
          /\ \A i \in 1..Len(g) : g[i] = idx.chunks[i].chunk
      BY <3>3, NextOfStream
    <3> QED
      BY <3>4 DEF idx, g
  <2>4. o \in Ops
    <3> DEFINE g == Append(op[c].got, chunks[n].chunk)
    <3>1. g \in Seq(Chunks) /\ o = [op[c] EXCEPT !.got = g]
      BY <2>2, <2>3
    <3> HIDE DEF o, g
    <3> QED
      BY <2>1, <3>1, OpFields
  <2> HIDE DEF o
  <2>5. ClientInd("assemble", o, tree[c], blobs')
    <3>1. PulledTogether("assemble", o)
      BY <1>1, <2>2, Typed DEF ClientInd, PulledTogether
    <3>2. AssembledSoFar("assemble", o)
      BY <2>2, <2>3 DEF AssembledSoFar
    <3> QED
      BY <3>1, <3>2 DEF ClientInd, SavingTree, UploadsTold, PushReady
  <2>6. Go(c, "assemble") /\ "assemble" \in Steps
    BY <1>1, <1>3, Typed DEF Go, Steps
  <2> QED
    BY <1>1, <1>3, <2>4, <2>5, <2>6, GoStep
<1> QED
  BY <1>2, <1>3 DEF ReadChunk, DigestMatches

\* What was assembled is the stream of the index, kept or not.
LEMMA VerifyRestoreInv ==
  ASSUME StoreInd, NEW c \in Clients, VerifyRestore(c)
  PROVE  StoreInd'
<1>1. /\ UNCHANGED <<blobs, tag, op>> /\ pc[c] = "assemble"
      /\ Len(op[c].got) = Len(op[c].pulled.index.chunks)
  BY DEF VerifyRestore, Registry
<1>2. /\ op[c] \in Ops /\ op[c].got \in Seq(Chunks)
      /\ op[c].pulled \in [index: Indexes, meta: Hashes, was: Manifests]
      /\ op[c].pulled.index \in Indexes
  BY <1>1, Typed DEF Ops, ClientInd, PulledTogether
<1>3. op[c].got = Stream(op[c].pulled.index)
  BY <1>1, <1>2, WholeStream, Typed DEF ClientInd, AssembledSoFar
<1>4. op[c].got \in Trees
  BY <1>2, <1>3, IndexChunks
<1>5. op' = [op EXCEPT ![c] = op[c]] /\ "kept" \in Steps /\ "rejected" \in Steps
  BY <1>1, Typed DEF Steps
<1>6. CASE tree' = [tree EXCEPT ![c] = op[c].got] /\ Go(c, "kept")
  <2>1. ClientInd("kept", op[c], op[c].got, blobs')
    BY <1>1, <1>3, Typed DEF ClientInd, PulledTogether, AssembledSoFar, SavingTree,
         UploadsTold, PushReady
  <2> QED
    BY <1>1, <1>2, <1>4, <1>5, <1>6, <2>1, ClientMoves DEF Go
<1>7. CASE GeneratesHash(op[c].got) # op[c].pulled.meta /\ Go(c, "rejected") /\ UNCHANGED tree
  <2>1. ClientInd("rejected", op[c], tree[c], blobs')
    BY <1>1, <1>3, <1>7, Typed DEF ClientInd, PulledTogether, AssembledSoFar, SavingTree,
         UploadsTold, PushReady
  <2> QED
    BY <1>1, <1>2, <1>5, <1>7, <2>1, GoStep
<1> QED
  BY <1>6, <1>7 DEF VerifyRestore

-----------------------------------------------------------------------------
(* Building and saving                                                     *)

\* What an upload channel holds after a frame is put in it, and after one is taken.
LEMMA QueueSends ==
  ASSUME NEW S, NEW q \in Seq(S), NEW x \in S
  PROVE  /\ Append(q, x) \in Seq(S)
         /\ Range(q) \union {x} \subseteq Range(Append(q, x))
<1>1. Append(q, x) \in Seq(S) /\ Len(Append(q, x)) = Len(q) + 1 /\ Len(q) \in Nat
  OBVIOUS
<1>2. DOMAIN q = 1..Len(q) /\ DOMAIN Append(q, x) = 1..(Len(q) + 1)
  BY <1>1
<1>3. \A i \in 1..Len(q) : Append(q, x)[i] = q[i] /\ i \in 1..(Len(q) + 1)
  BY <1>1
<1>4. Append(q, x)[Len(q) + 1] = x /\ Len(q) + 1 \in 1..(Len(q) + 1)
  BY <1>1
<1> QED
  BY <1>1, <1>2, <1>3, <1>4 DEF Range

LEMMA QueueTakes ==
  ASSUME NEW S, NEW q \in Seq(S), q # <<>>
  PROVE  /\ Head(q) \in S /\ Tail(q) \in Seq(S)
         /\ Range(q) \subseteq {Head(q)} \union Range(Tail(q))
<1>1. Head(q) = q[1] /\ Head(q) \in S /\ Tail(q) \in Seq(S) /\ Len(q) \in Nat \ {0}
  OBVIOUS
<1>2. Len(Tail(q)) = Len(q) - 1 /\ \A i \in 1..(Len(q) - 1) : Tail(q)[i] = q[i + 1]
  OBVIOUS
<1>3. DOMAIN q = 1..Len(q) /\ DOMAIN Tail(q) = 1..(Len(q) - 1)
  BY <1>1, <1>2
<1>4. ASSUME NEW i \in 1..Len(q) PROVE q[i] \in {Head(q)} \union Range(Tail(q))
  <2>1. CASE i = 1
    BY <1>1, <2>1
  <2>2. CASE i # 1
    <3>1. i - 1 \in 1..(Len(q) - 1) /\ (i - 1) + 1 = i
      BY <1>1, <2>2
    <3>2. Tail(q)[i - 1] = q[i]
      BY <1>2, <3>1
    <3> QED
      BY <1>3, <3>1, <3>2 DEF Range
  <2> QED
    BY <2>1, <2>2
<1> QED
  BY <1>1, <1>3, <1>4 DEF Range

\* A build makes a tree and records its checksum.
LEMMA BuildInv ==
  ASSUME StoreInd, NEW c \in Clients, Build(c)
  PROVE  StoreInd'
<1>1. UNCHANGED <<blobs, tag>> /\ Go(c, "save")
  BY DEF Build, Registry
<1>2. PICK t \in Trees :
        /\ tree' = [tree EXCEPT ![c] = t]
        /\ op' = [op EXCEPT ![c] = [Nothing EXCEPT !.recorded = GeneratesHash(t)]]
  BY DEF Build
<1> DEFINE o == [Nothing EXCEPT !.recorded = GeneratesHash(t)]
<1>3. GeneratesHash(t) \in Hashes /\ "save" \in Steps
  BY DEF Hashes, Steps
<1>4. o \in Ops
  BY <1>3, Ended, OpFields
<1>5. o.recorded = GeneratesHash(t) /\ o.sent = 0
  BY DEF Nothing
<1>6. ClientInd("save", o, t, blobs')
  BY <1>3, <1>5 DEF ClientInd, PulledTogether, AssembledSoFar, SavingTree, UploadsTold,
       PushReady
<1> HIDE DEF o
<1> QED
  BY <1>1, <1>2, <1>3, <1>4, <1>6, ClientMoves DEF Go, o

\* Files written before the first of them is read are still a tree.
LEMMA EditTreeInv ==
  ASSUME StoreInd, NEW c \in Clients, EditTree(c)
  PROVE  StoreInd'
<1>1. /\ UNCHANGED <<blobs, tag, pc, op>> /\ pc[c] \in {"save", "check", "stream"}
      /\ op[c].sent = 0
  BY DEF EditTree, Registry
<1>2. PICK t \in Trees : tree' = [tree EXCEPT ![c] = t]
  BY DEF EditTree
<1>3. Len(t) \in Nat
  BY TreeIsSeq
<1>4. ClientInd(pc[c], op[c], t, blobs')
  BY <1>1, <1>3, Typed DEF ClientInd, PulledTogether, AssembledSoFar, SavingTree, UploadsTold,
       PushReady
<1> QED
  BY <1>1, <1>2, <1>4, Typed, ClientMoves

\* The digest scheme is settled before a chunk is streamed.
LEMMA OpenToSaveInv ==
  ASSUME StoreInd, NEW c \in Clients, OpenToSave(c)
  PROVE  StoreInd'
<1>1. UNCHANGED <<blobs, tag, tree>> /\ pc[c] = "save"
  BY DEF OpenToSave, Registry
<1>2. ASSUME NEW b \in Schemes, op' = [op EXCEPT ![c].transparent = b], Go(c, "check")
      PROVE  StoreInd'
  <2> DEFINE o == [op[c] EXCEPT !.transparent = b]
  <2>1. o \in Ops /\ "check" \in Steps /\ op' = [op EXCEPT ![c] = o]
    BY <1>2, Typed, OpFields DEF Steps
  <2>2. o.recorded = op[c].recorded /\ o.sent = op[c].sent
    BY Typed DEF Ops
  <2>3. ClientInd("check", o, tree[c], blobs')
    BY <1>1, <2>2, Typed DEF ClientInd, PulledTogether, AssembledSoFar, SavingTree,
         UploadsTold, PushReady
  <2> QED
    BY <1>1, <1>2, <2>1, <2>3, GoStep
<1>3. CASE End(c, "done")
  BY <1>1, <1>3, EndStep
<1> QED
  BY <1>2, <1>3 DEF OpenToSave, DetectTransparent

\* A push that starts has streamed nothing.
LEMMA CheckTagInv ==
  ASSUME StoreInd, NEW c \in Clients, CheckTag(c)
  PROVE  StoreInd'
<1>1. UNCHANGED <<blobs, tag, tree>> /\ pc[c] = "check"
  BY DEF CheckTag, Registry
<1>2. CASE Go(c, "stream") /\ UNCHANGED op
  <2>1. op' = [op EXCEPT ![c] = op[c]] /\ op[c] \in Ops /\ "stream" \in Steps
    BY <1>2, Typed DEF Steps
  <2>2. tree[c] \in Trees /\ op[c].sent = 0
    BY <1>1, Typed DEF ClientInd, SavingTree
  <2>3. Len(tree[c]) \in Nat
    BY <2>2, TreeIsSeq
  <2>4. ClientInd("stream", op[c], tree[c], blobs')
    BY <1>1, <2>2, <2>3, Typed DEF ClientInd, PulledTogether, AssembledSoFar, SavingTree,
         UploadsTold, PushReady
  <2> QED
    BY <1>1, <1>2, <2>1, <2>4, GoStep
<1>3. CASE End(c, "done")
  BY <1>1, <1>3, EndStep
<1> QED
  BY <1>2, <1>3 DEF CheckTag

\* A chunk met before in the stream was told when it was met; a new one is told now.
LEMMA StreamChunkInv ==
  ASSUME StoreInd, NEW c \in Clients, StreamChunk(c)
  PROVE  StoreInd'
<1> DEFINE t == tree[c]
           n == op[c].sent + 1
           d == ChunkDigest(t[n], op[c].transparent)
           new == \A j \in 1..op[c].sent : t[j] # t[n]
           q == IF new THEN Append(op[c].queue, d) ELSE op[c].queue
           o == [op[c] EXCEPT !.sent = n, !.queue = q]
<1>1. /\ UNCHANGED <<blobs, tag, tree, pc>> /\ pc[c] = "stream" /\ op[c].sent < Len(t)
      /\ op' = [op EXCEPT ![c] = o]
  BY DEF StreamChunk, Registry
<1>2. t \in Trees /\ op[c] \in Ops
  BY <1>1, Typed DEF ClientInd, SavingTree
<1>3. /\ op[c].sent \in Nat /\ op[c].queue \in Seq(Digests) /\ op[c].transparent \in BOOLEAN
      /\ t \in Seq(Chunks) /\ Len(t) \in Nat
  BY <1>2, TreeIsSeq DEF Ops
<1>4. n \in 1..Len(t) /\ n \in Nat
  BY <1>1, <1>3
<1>5. d \in Digests
  BY <1>3, <1>4 DEF ChunkDigest, Digests
<1>6. q \in Seq(Digests) /\ Range(op[c].queue) \subseteq Range(q) /\ (new => d \in Range(q))
  <2>1. Append(op[c].queue, d) \in Seq(Digests)
        /\ Range(op[c].queue) \union {d} \subseteq Range(Append(op[c].queue, d))
    BY <1>3, <1>5, QueueSends
  <2> HIDE DEF new, d
  <2> QED
    BY <1>3, <2>1
<1>7. o \in Ops
  BY <1>2, <1>4, <1>6, OpFields
<1>8. /\ o.sent = n /\ o.queue = q /\ o.flying = op[c].flying /\ o.broken = op[c].broken
      /\ o.transparent = op[c].transparent /\ o.recorded = op[c].recorded
  BY <1>2 DEF Ops
<1>9. ASSUME ~op[c].broken, NEW i \in 1..n
      PROVE  ChunkDigest(t[i], op[c].transparent) \in blobs \union op[c].flying \union Range(q)
  <2>1. \A k \in 1..op[c].sent :
          ChunkDigest(t[k], op[c].transparent) \in blobs \union op[c].flying \union Range(q)
    BY <1>1, <1>6, <1>9, Typed DEF ClientInd, UploadsTold
  <2>2. CASE i \in 1..op[c].sent
    BY <2>1, <2>2
  <2>3. CASE i = n /\ new
    BY <1>6, <2>3
  <2>4. CASE i = n /\ ~new
    <3>1. PICK k \in 1..op[c].sent : t[k] = t[n]
      BY <2>4
    <3> QED
      BY <2>1, <2>4, <3>1
  <2>5. i \in 1..op[c].sent \/ i = n
    BY <1>3
  <2> QED
    BY <2>2, <2>3, <2>4, <2>5
<1>10. n <= Len(t)
  BY <1>3, <1>4
<1> HIDE DEF o, q, n
<1>11. ClientInd("stream", o, t, blobs')
  BY <1>1, <1>8, <1>9, <1>10, Typed DEF ClientInd, PulledTogether, AssembledSoFar, SavingTree,
       UploadsTold, PushReady
<1> QED
  BY <1>1, <1>7, <1>11, GoStep, Typed DEF Go, Steps

\* A frame taken from the channel is on its way.
LEMMA StartUploadInv ==
  ASSUME StoreInd, NEW c \in Clients, StartUpload(c)
  PROVE  StoreInd'
<1> DEFINE q == Tail(op[c].queue)
           f == op[c].flying \union {Head(op[c].queue)}
           o == [op[c] EXCEPT !.queue = q, !.flying = f]
<1>1. /\ UNCHANGED <<blobs, tag, tree, pc>> /\ pc[c] = "stream" /\ op[c].queue # <<>>
      /\ op' = [op EXCEPT ![c] = o]
  BY DEF StartUpload, Registry
<1>2. op[c] \in Ops /\ op[c].queue \in Seq(Digests) /\ op[c].flying \in SUBSET Digests
  BY Typed DEF Ops
<1>3. /\ q \in Seq(Digests) /\ f \in SUBSET Digests
      /\ op[c].flying \union Range(op[c].queue) \subseteq f \union Range(q)
  BY <1>1, <1>2, QueueTakes
<1>4. o \in Ops
  BY <1>2, <1>3, OpFields
<1>5. /\ o.queue = q /\ o.flying = f /\ o.sent = op[c].sent /\ o.broken = op[c].broken
      /\ o.transparent = op[c].transparent /\ o.recorded = op[c].recorded
  BY <1>2 DEF Ops
<1> HIDE DEF o, q, f
<1>6. ClientInd("stream", o, tree[c], blobs')
  BY <1>1, <1>3, <1>5, Typed DEF ClientInd, PulledTogether, AssembledSoFar, SavingTree,
       UploadsTold, PushReady
<1> QED
  BY <1>1, <1>4, <1>6, GoStep, Typed DEF Go, Steps

\* An upload that ended put its chunk, or broke the push.
LEMMA FinishUploadInv ==
  ASSUME StoreInd, NEW c \in Clients, FinishUpload(c)
  PROVE  StoreInd'
<1>1. UNCHANGED <<tag, tree, pc>> /\ pc[c] = "stream"
  BY DEF FinishUpload
<1>2. op[c] \in Ops /\ op[c].flying \in SUBSET Digests
  BY Typed DEF Ops
<1>3. PICK d \in op[c].flying :
        \/ /\ blobs' = blobs \union {d}
           /\ op' = [op EXCEPT ![c].flying = @ \ {d}]
        \/ /\ blobs' \in {blobs, blobs \union {d}}
           /\ op' = [op EXCEPT ![c].flying = @ \ {d}, ![c].broken = TRUE]
  BY DEF FinishUpload, AfterLostPut
<1>4. op[c].flying \ {d} \in SUBSET Digests
  BY <1>2
<1>5. Go(c, "stream") /\ "stream" \in Steps /\ blobs \subseteq blobs'
  BY <1>1, <1>3, Typed DEF Go, Steps
<1>6. CASE blobs' = blobs \union {d} /\ op' = [op EXCEPT ![c].flying = @ \ {d}]
  <2> DEFINE o == [op[c] EXCEPT !.flying = op[c].flying \ {d}]
  <2>1. o \in Ops /\ op' = [op EXCEPT ![c] = o]
    BY <1>2, <1>4, <1>6, OpFields
  <2>2. /\ o.flying = op[c].flying \ {d} /\ o.queue = op[c].queue /\ o.sent = op[c].sent
        /\ o.transparent = op[c].transparent /\ o.recorded = op[c].recorded
        /\ o.broken = op[c].broken
    BY <1>2 DEF Ops
  <2> HIDE DEF o
  <2>3. ClientInd("stream", o, tree[c], blobs')
    BY <1>1, <1>6, <2>2, Typed DEF ClientInd, PulledTogether, AssembledSoFar, SavingTree,
         UploadsTold, PushReady
  <2> QED
    BY <1>1, <1>6, <1>5, <2>1, <2>3, GoStep
<1>7. CASE /\ blobs' \in {blobs, blobs \union {d}}
           /\ op' = [op EXCEPT ![c].flying = @ \ {d}, ![c].broken = TRUE]
  <2> DEFINE o == [op[c] EXCEPT !.flying = op[c].flying \ {d}, !.broken = TRUE]
  <2>1. o \in Ops /\ op' = [op EXCEPT ![c] = o]
    BY <1>2, <1>4, <1>7, OpFields
  <2>2. o.broken = TRUE /\ o.sent = op[c].sent /\ o.recorded = op[c].recorded
    BY <1>2 DEF Ops
  <2> HIDE DEF o
  <2>3. ClientInd("stream", o, tree[c], blobs')
    BY <1>1, <2>2, Typed DEF ClientInd, PulledTogether, AssembledSoFar, SavingTree,
         UploadsTold, PushReady
  <2> QED
    BY <1>1, <1>7, <1>5, <2>1, <2>3, GoStep
<1> QED
  BY <1>3, <1>6, <1>7

\* Once the uploads are joined and none failed, all the index names is in the registry.
LEMMA JoinUploadsInv ==
  ASSUME StoreInd, NEW c \in Clients, JoinUploads(c)
  PROVE  StoreInd'
<1> DEFINE t == tree[c]
           idx == IndexOf(t, op[c].transparent)
           o == [op[c] EXCEPT !.index = idx, !.left = Retries]
<1>1. UNCHANGED <<tag, tree>> /\ pc[c] = "stream" /\ UploadsJoined(op[c], t)
  BY DEF JoinUploads
<1>2. CASE ~op[c].broken /\ blobs' = blobs \union {IndexDigest(idx), ConfigDigest}
           /\ op' = [op EXCEPT ![c] = o] /\ Go(c, "manifest")
  <2>1. t \in Trees /\ op[c] \in Ops /\ op[c].transparent \in BOOLEAN
    BY <1>1, Typed DEF ClientInd, SavingTree, Ops
  <2>2. idx \in Indexes
    BY <2>1 DEF Indexes
  <2>3. DOMAIN t = 1..Len(t) /\ Range(op[c].queue) = {}
    <3>1. t \in Seq(Chunks)
      BY <2>1, TreeIsSeq
    <3> QED
      BY <1>1, <3>1 DEF UploadsJoined, Range
  <2>4. \A i \in 1..Len(t) : ChunkDigest(t[i], op[c].transparent) \in blobs
    BY <1>1, <1>2, <2>3, Typed DEF UploadsJoined, ClientInd, UploadsTold
  <2>5. Range(idx.chunks) \subseteq blobs
    BY <2>3, <2>4 DEF Range, IndexOf
  <2>6. Layers(idx) \subseteq blobs'
    BY <1>2, <2>5 DEF Layers
  <2> HIDE DEF idx
  <2>7. o \in Ops
    BY <2>1, <2>2, OpFields
  <2>8. o.index = idx /\ o.recorded = op[c].recorded
    BY <2>1 DEF Ops
  <2> HIDE DEF o
  <2>9. ClientInd("manifest", o, t, blobs')
    BY <1>1, <2>2, <2>6, <2>8, Typed DEF ClientInd, PulledTogether, AssembledSoFar,
         SavingTree, UploadsTold, PushReady
  <2> QED
    BY <1>1, <1>2, <2>7, <2>9, GoStep DEF Steps
<1>3. CASE End(c, "done") /\ UNCHANGED blobs
  BY <1>1, <1>3, EndStep
<1> QED
  BY <1>2, <1>3 DEF JoinUploads

\* The manifest put under the tag names what the registry has, whichever attempt it was.
LEMMA PushManifestInv ==
  ASSUME StoreInd, NEW c \in Clients, PushManifest(c)
  PROVE  StoreInd'
<1>1. UNCHANGED <<blobs, tree>> /\ pc[c] = "manifest"
  BY DEF PushManifest
<1>2. op[c].index \in Indexes /\ Layers(op[c].index) \subseteq blobs
      /\ op[c].recorded \in Hashes
  BY <1>1, Typed DEF ClientInd, PushReady, SavingTree
<1>3. ManifestOf(op[c]) \in Manifests /\ ManifestOf(op[c]).index = op[c].index
  BY <1>2 DEF ManifestOf, Manifests
<1>4. tag' = tag \/ (tag' \in Manifests /\ Layers(tag'.index) \subseteq blobs')
  BY <1>1, <1>2, <1>3 DEF PushManifest
<1>5. CASE End(c, "done")
  BY <1>1, <1>4, <1>5, EndStep
<1>6. CASE MayRetry(op[c]) /\ op' = [op EXCEPT ![c].left = @ - 1] /\ UNCHANGED pc
  <2> DEFINE o == [op[c] EXCEPT !.left = op[c].left - 1]
  <2>1. op[c] \in Ops /\ op[c].left - 1 \in Nat
    BY <1>6, Typed DEF Ops, MayRetry
  <2>2. o \in Ops /\ op' = [op EXCEPT ![c] = o]
    <3>1. \A n \in Nat : [op[c] EXCEPT !.left = n] \in Ops
      BY <1>2, <2>1, OpFields
    <3> QED
      BY <1>6, <2>1, <3>1
  <2>3. o.index = op[c].index /\ o.recorded = op[c].recorded
    BY <2>1 DEF Ops
  <2> HIDE DEF o
  <2>4. ClientInd("manifest", o, tree[c], blobs')
    BY <1>1, <2>3, Typed DEF ClientInd, PulledTogether, AssembledSoFar, SavingTree,
         UploadsTold, PushReady
  <2>5. /\ pc' = [pc EXCEPT ![c] = "manifest"] /\ "manifest" \in Steps
        /\ tree' = [tree EXCEPT ![c] = tree[c]] /\ tree[c] \in Trees \union {<<>>}
    BY <1>1, <1>6, Typed DEF Steps
  <2> QED
    BY <1>1, <1>4, <2>2, <2>4, <2>5, ClientMoves
<1> QED
  BY <1>5, <1>6 DEF PushManifest

-----------------------------------------------------------------------------
(* Runs that end, and the registry's own steps                             *)

\* The next run begins with nothing.
LEMMA NextRunInv ==
  ASSUME StoreInd, NEW c \in Clients, NextRun(c)
  PROVE  StoreInd'
<1>1. UNCHANGED <<blobs, tag>> /\ "start" \in Steps
  BY DEF NextRun, Registry, Steps
<1>2. /\ pc' = [pc EXCEPT ![c] = "start"] /\ op' = [op EXCEPT ![c] = Nothing]
      /\ tree' = [tree EXCEPT ![c] = <<>>]
  BY DEF NextRun, Go
<1>3. Nothing \in Ops /\ ClientInd("start", Nothing, <<>>, blobs')
  BY Ended
<1> QED
  BY <1>1, <1>2, <1>3, ClientMoves

\* The collector takes nothing the tag or a push under way names.
LEMMA CollectInv ==
  ASSUME StoreInd, Collect
  PROVE  StoreInd'
<1>1. UNCHANGED <<tag, tree, pc, op>>
  BY DEF Collect
<1>2. /\ \A x \in blobs, c \in Clients : x \in InUse(c) => x \in blobs'
      /\ tag # None => \A x \in blobs : x \in Layers(tag.index) => x \in blobs'
  BY DEF Collect
<1>3. TypeOK' /\ ManifestComplete'
  BY <1>1, <1>2 DEF StoreInd, TypeOK, ManifestComplete
<1>4. ASSUME NEW c \in Clients PROVE ClientInd(pc[c], op[c], tree[c], blobs')
  <2>1. ClientInd(pc[c], op[c], tree[c], blobs) /\ op[c] \in Ops
    BY Typed
  <2>2. UploadsTold(pc[c], op[c], tree[c], blobs')
    <3>1. SUFFICES ASSUME pc[c] = "stream", ~op[c].broken, NEW i \in 1..op[c].sent
                   PROVE  ChunkDigest(tree[c][i], op[c].transparent)
                            \in blobs' \union op[c].flying \union Range(op[c].queue)
      BY <2>1 DEF ClientInd, UploadsTold
    <3>2. tree[c] \in Trees /\ op[c].sent <= Len(tree[c]) /\ op[c].sent \in Nat
      BY <2>1, <3>1 DEF ClientInd, SavingTree, UploadsTold, Ops
    <3>3. tree[c][i] \in Chunks
      BY <3>2, TreeIsSeq
    <3>4. ChunkDigest(tree[c][i], op[c].transparent) \in InUse(c)
      BY <3>1, <3>3 DEF InUse
    <3> QED
      BY <1>2, <2>1, <3>1, <3>4 DEF ClientInd, UploadsTold
  <2>3. PushReady(pc[c], op[c], blobs')
    <3>1. SUFFICES ASSUME pc[c] = "manifest"
                   PROVE  op[c].index \in Indexes /\ Layers(op[c].index) \subseteq blobs'
      BY DEF PushReady
    <3>2. op[c].index \in Indexes /\ Layers(op[c].index) \subseteq blobs
      BY <2>1, <3>1 DEF ClientInd, PushReady
    <3>3. op[c].index # None => Layers(op[c].index) \subseteq InUse(c)
      BY <3>1 DEF InUse
    <3> QED
      BY <1>2, <3>2, <3>3, NoneAssumption
  <2> QED
    BY <2>1, <2>2, <2>3 DEF ClientInd
<1> QED
  BY <1>1, <1>3, <1>4 DEF StoreInd

-----------------------------------------------------------------------------
(* The store                                                               *)

LEMMA InitInd == Init => StoreInd
<1> SUFFICES ASSUME Init PROVE StoreInd
  OBVIOUS
<1>1. TypeOK /\ ManifestComplete
  BY Ended DEF Init, TypeOK, ManifestComplete, Steps
<1>2. \A c \in Clients : pc[c] = "start" /\ op[c] = Nothing /\ tree[c] = <<>>
  BY DEF Init
<1>3. ClientInd("start", Nothing, <<>>, blobs)
  BY Ended
<1> QED
  BY <1>1, <1>2, <1>3 DEF StoreInd

\* A crash ends the run; a file of the CAS gone bad and a retired tag harm no run.
LEMMA NextInd == StoreInd /\ [Next]_vars => StoreInd'
<1> SUFFICES ASSUME StoreInd, [Next]_vars PROVE StoreInd'
  OBVIOUS
<1>1. ASSUME NEW c \in Clients, ClientStep(c) PROVE StoreInd'
  BY <1>1, OpenToRestoreInv, ResolveInv, PullIndexInv, FetchChunkInv, ChunksFetchedInv,
     ReadChunkInv, VerifyRestoreInv, BuildInv, OpenToSaveInv, CheckTagInv, StreamChunkInv,
     StartUploadInv, FinishUploadInv, JoinUploadsInv, PushManifestInv,
            NextRunInv DEF ClientStep
<1>2. ASSUME NEW c \in Clients, EditTree(c) PROVE StoreInd'
  BY <1>2, EditTreeInv
<1>3. ASSUME NEW c \in Clients, Crash(c) PROVE StoreInd'
  BY <1>3, EndStep DEF Crash, Registry
<1>4. CASE CorruptChunk
  BY <1>4 DEF CorruptChunk, Registry, StoreInd, TypeOK, ManifestComplete
<1>5. CASE Retire
  BY <1>5 DEF Retire, StoreInd, TypeOK, ManifestComplete
<1>6. CASE Collect
  BY <1>6, CollectInv
<1>7. CASE UNCHANGED vars
  BY <1>7 DEF vars, StoreInd, TypeOK, ManifestComplete
<1> QED
  BY <1>1, <1>2, <1>3, <1>4, <1>5, <1>6, <1>7 DEF Next

LEMMA Inductive == Spec => []StoreInd
BY InitInd, NextInd, PTL DEF Spec

\* The manifest under the tag names only blobs the registry has, and what a restore
\* assembled is, chunk for chunk, a tree some build made (push, pull): for any number of
\* runs, trees and chunks, however often requests are lost, runs killed, CAS files
\* corrupted, tags retired and blobs collected.
THEOREM EntriesWhole == Spec => []EntryWhole
<1>1. StoreInd => EntryWhole
  <2> SUFFICES ASSUME StoreInd PROVE EntryWhole
    OBVIOUS
  <2>1. ASSUME NEW c \in Clients, pc[c] \in {"kept", "rejected"} PROVE op[c].got \in Trees
    <3>1. op[c].pulled.index \in Indexes /\ op[c].got = Stream(op[c].pulled.index)
      BY <2>1, Typed DEF ClientInd, PulledTogether, AssembledSoFar
    <3> QED
      BY <3>1, IndexChunks
  <2> QED
    BY <2>1 DEF StoreInd, EntryWhole, RoundTrip
<1> QED
  BY <1>1, Inductive, PTL

\* A restore that assembled its stream and rejects it was given a manifest whose checksum
\* is not that of its own index: the annotations and the index come from one manifest,
\* whatever is pushed under the tag meanwhile (restore_oci).
THEOREM RejectsOnlyBad == Spec => []RejectedOnlyIfBad
<1>1. StoreInd => RejectedOnlyIfBad
  <2> SUFFICES ASSUME StoreInd, NEW c \in Clients, pc[c] = "rejected"
               PROVE  Stream(op[c].pulled.was.index) # op[c].pulled.was.generates.generates
    BY DEF RejectedOnlyIfBad
  <2> DEFINE p == op[c].pulled
  <2>1. /\ p \in [index: Indexes, meta: Hashes, was: Manifests]
        /\ p.index = p.was.index /\ p.meta = p.was.generates
    BY Typed DEF ClientInd, PulledTogether
  <2>2. op[c].got = Stream(p.index) /\ GeneratesHash(op[c].got) # p.meta
    BY Typed DEF ClientInd, AssembledSoFar
  <2>3. PICK t \in Trees : p.meta = GeneratesHash(t)
    BY <2>1 DEF Hashes
  <2>4. p.was.generates.generates = t
    BY <2>1, <2>3 DEF GeneratesHash
  <2> QED
    BY <2>1, <2>2, <2>3, <2>4
<1> QED
  BY <1>1, Inductive, PTL
=============================================================================
