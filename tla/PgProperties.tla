------------------------------ MODULE PgProperties ------------------------------
(* What must hold of a cluster on Postgres metadata.                            *)
EXTENDS PgStore

PgRecords == [pc : Pcs, op : {"none", "ingest", "delete", "read", "repair"},
              file : Files \cup {None}, new : Contents \cup {<<>>}, done : 0 .. MaxChunks,
              old : Contents \cup {<<>>}, seen : SUBSET Digests,
              result : {"none", "ok", "err"}]

\* The tables and the calls keep their types: a count never leaves Nat, and a
\* thread that stores or streams a chunk has one.
PgTypeOK ==
  /\ blobs \subseteq Digests
  /\ manifests \in [Files -> Contents \cup {None}]
  /\ counts \in [Digests -> Nat]
  /\ blobLock \in [Nodes -> Threads \cup {None}]
  /\ call \in [Threads -> PgRecords]
  /\ \A t \in Threads :
       call[t].pc \in {"exists", "put", "fetch"} => call[t].done < Len(call[t].new)
  /\ up \in [Nodes -> BOOLEAN]
  /\ clashed \in BOOLEAN /\ calls \in Nat /\ faults \in Nat /\ crashes \in Nat

Positions == 1 .. MaxChunks
FileRefs(d) ==
  {r \in Files \X Positions :
     /\ manifests[r[1]] # None /\ r[2] <= Len(manifests[r[1]]) /\ manifests[r[1]][r[2]] = d}

CountsAgree == \A d \in Digests : counts[d] = Cardinality(FileRefs(d))

\* In the database a count is exactly the number of references to its chunk, at
\* every instant: whatever fails, whichever process dies, and even when a reply is
\* lost, because the manifest and the counts change in one transaction, and what
\* the transaction releases is what the manifest held when it was peeked, unless
\* two calls have been writing one file at once. Then the second releases what it
\* peeked before the first committed, and the counts are wrong for good: the peek
\* (mod.rs:380-384, 425-430) is outside the transaction, although
\* docs/CONSISTENCY.md:41 says that two nodes can ingest or delete the same
\* file_id without lost updates.
CountsExact == ~clashed => CountsAgree

\* Every file in the database can be read from every node, those that two calls
\* have written at once included: no transaction brings a count back to 0, so a
\* chunk that a file refers to stays counted, and fsck unlinks no counted chunk.
PgFilesReadable ==
  \A f \in Files : manifests[f] # None =>
    \A i \in DOMAIN manifests[f] : manifests[f][i] \in blobs

\* fsck(repair) leaves no blob behind that nothing counts, so what a crash, a
\* failure or a refused ingest has left on the backend is reclaimed: in this mode
\* nothing is counted before the manifest is (docs/CONSISTENCY.md:58). It says so
\* of a backend that can list its keys, where a repair ends at fsck_unlink; on any
\* other, fsck skips the orphans (fsck.rs:23-25, docs/CONSISTENCY.md:66).
Repaired(t) == call[t].pc = "fsck_unlink" /\ call'[t].result = "ok"
RepairReclaims == [][\A t \in Threads : Repaired(t) => blobs' \subseteq Counted']_vars

\* A delete that has found its file, which nobody else writes, can commit: only a
\* failure of the database makes it return an error. (CHECK (count > 0) in SCHEMA,
\* postgres_meta.rs:21, against decrement_refcount, postgres_meta.rs:272.)
DeleteCommits ==
  ~clashed => \A t \in Threads :
    call[t].pc = "commit_delete" => Debitable(counts, call[t].old)
===============================================================================
