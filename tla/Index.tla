-------------------------------- MODULE Index --------------------------------
(***************************************************************************)
(* The retrieval index of one repository: IndexService.index_repository,   *)
(* _store_and_embed and LocalVectorIndex.update of clangwiki/indexing.py,  *)
(* below the ingestions of platform.py that change the tables it reads.    *)
(*                                                                         *)
(* The index is kept in five places that are written one after another:    *)
(* the table chunks, the full-text table, the vector file, its manifest    *)
(* and the manifest of the whole index.  A chunk is named after its source *)
(* and its content, and so is its vector: a chunk never changes, it comes  *)
(* and goes.  Two profiles here stand for models of the same dimension     *)
(* (bge-m3 and quality).                                                   *)
(***************************************************************************)
EXTENDS FiniteSets, Naturals

CONSTANTS
  Sections,   \* chunks of documents: one for each heading
  Symbols,    \* chunks of source code
  Node,       \* symbol chunk -> the graph node it describes
  Importance, \* symbol chunk -> its place in the order of _select_vector_chunks
  CodeLimit,  \* vector_code_chunk_limit
  Runs,
  Yields,     \* run -> the chunks of its documents and symbols
  Pages,      \* the contents the manual page may have, each a set of sections
  Profiles,   \* the embedding profiles
  Threads,    \* threads that index or activate a run
  MaxChanges, \* bound: activations and edits
  MaxFaults   \* bound: crashes and failed updates

NoRun == "no run"
NoProfile == "no profile"
Manual == "manual"
NodeRow == "node"
NoRow == "no row"

Chunks == Sections \cup Symbols

ASSUME IndexAssumption ==
  /\ Sections \cap Symbols = {}
  /\ Importance \in [Symbols -> Nat]
  /\ \A s, u \in Symbols : Importance[s] = Importance[u] => s = u
  /\ Yields \in [Runs -> SUBSET Chunks]
  /\ Pages \subseteq SUBSET Sections
  /\ \A p \in Pages, r \in Runs : p \cap Yields[r] = {}
  /\ NoProfile \notin Profiles
  /\ Runs \cap {NoRun, Manual, NodeRow, NoRow} = {}
  /\ {CodeLimit, MaxChanges, MaxFaults} \subseteq Nat

VARIABLES
  active,     \* repositories.active_run_id
  ingested,   \* the runs whose documents are in the table documents
  graph,      \* the run of the repository's knowledge_nodes
  page,       \* the sections of the manual page
  rows,       \* chunk -> what its row belongs to: a run's document, the manual
              \* page or a node; NoRow without a row
  fts,        \* chunk -> the number of its entries in chunks_fts
  file,       \* chunks.usearch: "absent", "torn" or "whole"
  vectors,    \* chunk -> the profile that computed its vector in the file
  selected,   \* vector-manifest.json: the profile of its model and selected_keys
  profile,    \* the profile in index-manifest.json
  at,         \* thread -> where it is
  my,         \* thread -> its local variables
  alone,      \* threads undisturbed since they began to index (history)
  settled,    \* the last index job was undisturbed and succeeded (history)
  overlapped, \* what two threads have been in at once: "calls" of
              \* index_repository, "updates" of the vectors (history)
  used,       \* the profiles the repository has been indexed with (history)
  changes, faults

tables == <<active, ingested, graph, page>>
index == <<rows, fts, file, vectors, selected, profile>>
history == <<alone, settled, overlapped, used>>
bounds == <<changes, faults>>
vars == <<tables, index, at, my, history, bounds>>

Updating == {"load", "save", "mark"}
Indexing == {"documents", "nodes", "existing", "store", "keys", "manifest"} \cup Updating
Points == {"idle", "graph", "wiki", "begin"} \cup Indexing

NoVectors == [c \in Chunks |-> NoProfile]
Owners == Runs \cup {Manual, NodeRow, NoRow}

\* target: the run to activate; seen: the active run read; incoming, existing,
\* changed, previous, loaded: as in _store_and_embed and update; ok: update has
\* not failed.
Fresh ==
  [target |-> NoRun, profile |-> NoProfile, seen |-> NoRun, incoming |-> {},
   existing |-> {}, changed |-> {}, previous |-> {}, loaded |-> NoVectors, ok |-> TRUE]

Locals ==
  [target : Runs \cup {NoRun}, profile : Profiles \cup {NoProfile},
   seen : Runs \cup {NoRun}, incoming : SUBSET Chunks, existing : SUBSET Chunks,
   changed : SUBSET Chunks, previous : SUBSET Chunks,
   loaded : [Chunks -> Profiles \cup {NoProfile}], ok : BOOLEAN]

TypeOK ==
  /\ active \in Runs \cup {NoRun}
  /\ ingested \in SUBSET Runs
  /\ graph \in Runs \cup {NoRun}
  /\ page \in Pages
  /\ rows \in [Chunks -> Owners]
  /\ fts \in [Chunks -> Nat]
  /\ file \in {"absent", "torn", "whole"}
  /\ vectors \in [Chunks -> Profiles \cup {NoProfile}]
  /\ file = "absent" => vectors = NoVectors
  /\ selected \in [profile : Profiles \cup {NoProfile}, keys : SUBSET Chunks]
  /\ profile \in Profiles \cup {NoProfile}
  /\ at \in [Threads -> Points]
  /\ my \in [Threads -> Locals]
  /\ \A t \in Threads : at[t] = "idle" => my[t] = Fresh
  /\ alone \in SUBSET Threads
  /\ settled \in BOOLEAN
  /\ overlapped \in SUBSET {"calls", "updates"}
  /\ used \in SUBSET Profiles
  /\ {changes, faults} \subseteq Nat

NoManifest == [profile |-> NoProfile, keys |-> {}]

Init ==
  /\ active = NoRun
  /\ ingested = {}
  /\ graph = NoRun
  /\ page \in Pages
  /\ rows = [c \in Chunks |-> NoRow]
  /\ fts = [c \in Chunks |-> 0]
  /\ file = "absent"
  /\ vectors = NoVectors
  /\ selected = NoManifest
  /\ profile = NoProfile
  /\ at = [t \in Threads |-> "idle"]
  /\ my = [t \in Threads |-> Fresh]
  /\ alone = {}
  /\ settled = FALSE
  /\ overlapped = {}
  /\ used = {}
  /\ changes = 0
  /\ faults = 0

-----------------------------------------------------------------------------
(***************************************************************************)
(* The tables: activating a run, editing the manual page.                  *)
(***************************************************************************)

Go(t, from, to) == at[t] = from /\ at' = [at EXCEPT ![t] = to]

\* Mutant: its local variables outlive the call.
LeaveWithLocals(t) ==
  /\ at' = [at EXCEPT ![t] = "idle"]
  /\ UNCHANGED my

\* The thread returns or its call raises.
Leave(t) ==
  /\ at' = [at EXCEPT ![t] = "idle"]
  /\ my' = [my EXCEPT ![t] = Fresh]

Disturb(others) ==
  /\ alone' = alone \ others
  /\ settled' = FALSE
  /\ UNCHANGED <<overlapped, used>>

OverlapIn(t, points, what) ==
  {w \in {what} : \E u \in Threads \ {t} : at[u] \in points}

\* A run is generated or activated again: its row is published first.
Publish(t) ==
  /\ Go(t, "idle", "graph")
  /\ changes < MaxChanges
  /\ changes' = changes + 1
  /\ \E r \in Runs :
       /\ active' = r
       /\ my' = [my EXCEPT ![t].target = r]
  /\ Disturb(Threads)
  /\ UNCHANGED <<ingested, graph, page, index, faults>>

NodesOf(r) == IF r = NoRun THEN {} ELSE {Node[s] : s \in Yields[r] \cap Symbols}

\* Nodes that the run does not have are deleted, and the rows of their chunks
\* with them; chunks_fts has no foreign key.
IngestGraph(t) ==
  /\ Go(t, "graph", "wiki")
  /\ graph' = my[t].target
  /\ rows' = [c \in Chunks |->
       IF c \in Symbols /\ Node[c] \notin NodesOf(my[t].target) THEN NoRow ELSE rows[c]]
  /\ Disturb(Threads)
  /\ UNCHANGED <<active, ingested, page, fts, file, vectors, selected, profile, my, bounds>>

\* INSERT OR REPLACE deletes the rows of documents ingested before, and the
\* rows of their chunks with them.
IngestWiki(t) ==
  /\ Go(t, "wiki", "begin")
  /\ ingested' = ingested \cup {my[t].target}
  /\ rows' = [c \in Chunks |->
       IF c \in Sections /\ rows[c] = my[t].target THEN NoRow ELSE rows[c]]
  /\ Disturb(Threads)
  /\ UNCHANGED <<active, graph, page, fts, file, vectors, selected, profile, my, bounds>>

\* An ingestion raises, or builds no index.
StopIngestion(t) ==
  /\ at[t] \in {"graph", "wiki", "begin"}
  /\ Leave(t)
  /\ UNCHANGED <<tables, index, history, bounds>>

EditPage ==
  /\ changes < MaxChanges
  /\ changes' = changes + 1
  /\ \E p \in Pages \ {page} : page' = p
  /\ Disturb(Threads)
  /\ UNCHANGED <<active, ingested, graph, index, at, my, faults>>

-----------------------------------------------------------------------------
(***************************************************************************)
(* index_repository: reading.                                              *)
(***************************************************************************)

\* Called by an index job, or at the end of an ingestion, with its own profile.
Begin(t) ==
  /\ \/ at[t] = "idle"
     \/ at[t] = "begin"
  /\ at' = [at EXCEPT ![t] = "documents"]
  /\ \E p \in Profiles :
       /\ my' = [my EXCEPT ![t].profile = p, ![t].seen = active]
       /\ used' = used \cup {p}
  /\ alone' = IF \A u \in Threads \ {t} : at[u] = "idle" THEN {t} ELSE {}
  /\ settled' = FALSE
  /\ overlapped' = overlapped \cup OverlapIn(t, Indexing, "calls")
  /\ UNCHANGED <<tables, index, bounds>>

\* The sections the table documents yields for a run and the manual page.
DocumentChunks(r) ==
  page \cup (IF r \in ingested THEN Yields[r] \cap Sections ELSE {})

\* The symbol chunks knowledge_nodes yields for a run.
SymbolChunks(r) == IF r # NoRun /\ graph = r THEN Yields[r] \cap Symbols ELSE {}

ReadDocuments(t) ==
  /\ Go(t, "documents", "nodes")
  /\ my' = [my EXCEPT ![t].incoming = DocumentChunks(my[t].seen)]
  /\ UNCHANGED <<tables, index, history, bounds>>

ReadNodes(t) ==
  /\ Go(t, "nodes", "existing")
  /\ my' = [my EXCEPT ![t].incoming = @ \cup SymbolChunks(my[t].seen)]
  /\ UNCHANGED <<tables, index, history, bounds>>

Rows == {c \in Chunks : rows[c] # NoRow}

ReadExisting(t) ==
  /\ Go(t, "existing", "store")
  /\ my' = [my EXCEPT ![t].existing = Rows]
  /\ UNCHANGED <<tables, index, history, bounds>>

-----------------------------------------------------------------------------
(***************************************************************************)
(* _store_and_embed: the transaction.                                      *)
(***************************************************************************)

Owner(t, c) ==
  IF c \in Symbols THEN NodeRow ELSE IF c \in UNION Pages THEN Manual ELSE my[t].seen

\* Mutant: the entry of a changed chunk is inserted without deleting first.
EntriesAdded(t, removed, changed) ==
  [c \in Chunks |-> IF c \in removed THEN 0 ELSE IF c \in changed THEN fts[c] + 1 ELSE fts[c]]

\* The old entry of a chunk is deleted, also one left behind by a cascade.
Entries(t, removed, changed) ==
  [c \in Chunks |-> IF c \in removed THEN 0 ELSE IF c \in changed THEN 1 ELSE fts[c]]

\* What it finds changed is what it has not read.  A new row refers to its
\* node, which another thread may have deleted since.
Store(t) ==
  LET removed == my[t].existing \ my[t].incoming
      changed == my[t].incoming \ my[t].existing
  IN /\ Go(t, "store", "keys")
     /\ \A c \in changed \cap Symbols : Node[c] \in NodesOf(graph)
     /\ rows' = [c \in Chunks |->
          IF c \in removed THEN NoRow
          ELSE IF c \in changed /\ rows[c] = NoRow THEN Owner(t, c) ELSE rows[c]]
     /\ fts' = Entries(t, removed, changed)
     /\ my' = [my EXCEPT ![t].changed = changed]
     /\ alone' = alone \cap {t}
     /\ UNCHANGED <<tables, file, vectors, selected, profile, settled, overlapped, used, bounds>>

StoreFails(t) ==
  /\ at[t] = "store"
  /\ \E c \in (my[t].incoming \ my[t].existing) \cap Symbols : Node[c] \notin NodesOf(graph)
  /\ Leave(t)
  /\ UNCHANGED <<tables, index, history, bounds>>

-----------------------------------------------------------------------------
(***************************************************************************)
(* LocalVectorIndex.update.                                                *)
(***************************************************************************)

\* _select_vector_chunks: all prose and the most important symbols.
Embedded(S) ==
  (S \cap Sections) \cup
  {s \in S \cap Symbols :
     Cardinality({u \in S \cap Symbols : Importance[u] < Importance[s]}) < CodeLimit}

\* An unreadable manifest counts as an empty one.
ReadKeys(t) ==
  /\ Go(t, "keys", "load")
  /\ my' = [my EXCEPT ![t].previous = selected.keys]
  /\ overlapped' = overlapped \cup OverlapIn(t, Updating, "updates")
  /\ UNCHANGED <<tables, index, alone, settled, used, bounds>>

Compatible(t) == file # "absent" /\ selected.profile = my[t].profile

\* Mutant: only the chunks the manifest does not list are embedded.
ToEmbedUnlisted(t) == Embedded(my[t].incoming) \ my[t].previous

ToEmbed(t) ==
  IF Compatible(t)
  THEN Embedded(my[t].incoming) \cap (my[t].changed \cup (Chunks \ my[t].previous))
  ELSE Embedded(my[t].incoming)

\* A file that is not the manifest's is not restored but started anew.
LoadAndEmbed(t) ==
  LET incoming == Embedded(my[t].incoming)
      base == IF Compatible(t) THEN vectors ELSE NoVectors
      removed == my[t].previous \ incoming
  IN /\ Go(t, "load", "save")
     /\ Compatible(t) => file = "whole"
     /\ my' = [my EXCEPT ![t].loaded =
          [c \in Chunks |->
             IF c \in ToEmbed(t) THEN my[t].profile
             ELSE IF c \in removed THEN NoProfile ELSE base[c]]]
     /\ UNCHANGED <<tables, index, history, bounds>>

Save(t) ==
  /\ Go(t, "save", "mark")
  /\ file' = "whole"
  /\ vectors' = my[t].loaded
  /\ UNCHANGED <<tables, rows, fts, selected, profile, my, history, bounds>>

\* Mutant: the manifest lists every chunk of the scope.
ListedAll(t) == my[t].incoming

Listed(t) == Embedded(my[t].incoming)

WriteVectorManifest(t) ==
  /\ Go(t, "mark", "manifest")
  /\ selected' = [profile |-> my[t].profile, keys |-> Listed(t)]
  /\ UNCHANGED <<tables, rows, fts, file, vectors, profile, my, history, bounds>>

\* What an interrupted write leaves of the file it was writing: both are
\* written in place.
Interrupted(t) ==
  /\ \/ at[t] = "save" /\ file' = "torn" /\ UNCHANGED vectors
     \/ UNCHANGED <<file, vectors>>
  /\ \/ at[t] = "mark" /\ selected' = NoManifest
     \/ UNCHANGED selected

\* The runtime or the model is missing, the file cannot be restored, the disk is
\* full: the exception is swallowed.
UpdateFails(t) ==
  /\ at[t] \in Updating
  /\ \/ faults < MaxFaults /\ faults' = faults + 1 /\ Interrupted(t)
     \/ /\ at[t] = "load" /\ Compatible(t) /\ file = "torn"
        /\ UNCHANGED <<file, vectors, selected, faults>>
  /\ at' = [at EXCEPT ![t] = "manifest"]
  /\ my' = [my EXCEPT ![t].ok = FALSE]
  /\ UNCHANGED <<tables, rows, fts, profile, history, changes>>

WriteManifest(t) ==
  /\ at[t] = "manifest"
  /\ profile' = my[t].profile
  /\ settled' = (t \in alone /\ my[t].ok)
  /\ alone' = alone \ {t}
  /\ Leave(t)
  /\ UNCHANGED <<tables, rows, fts, file, vectors, selected, overlapped, used, bounds>>

-----------------------------------------------------------------------------

\* A kill also interrupts the summary, which then counts as absent.
Crash ==
  /\ faults < MaxFaults
  /\ faults' = faults + 1
  /\ \E t \in Threads :
       /\ at[t] # "idle"
       /\ Interrupted(t)
       /\ \/ at[t] = "manifest" /\ profile' = NoProfile
          \/ UNCHANGED profile
  /\ at' = [t \in Threads |-> "idle"]
  /\ my' = [t \in Threads |-> Fresh]
  /\ Disturb(Threads)
  /\ UNCHANGED <<tables, rows, fts, changes>>

IndexStep(t) ==
  \/ Begin(t)
  \/ ReadDocuments(t)
  \/ ReadNodes(t)
  \/ ReadExisting(t)
  \/ Store(t)
  \/ StoreFails(t)
  \/ ReadKeys(t)
  \/ LoadAndEmbed(t)
  \/ Save(t)
  \/ WriteVectorManifest(t)
  \/ UpdateFails(t)
  \/ WriteManifest(t)

Next ==
  \/ \E t \in Threads : Publish(t) \/ IngestGraph(t) \/ IngestWiki(t) \/ StopIngestion(t) \/ IndexStep(t)
  \/ EditPage
  \/ Crash

Spec == Init /\ [][Next]_vars

-----------------------------------------------------------------------------
(***************************************************************************)
(* Properties.                                                             *)
(***************************************************************************)

\* Every chunk of the table is found by the full-text search, once: whatever
\* cascades, activations, crashes and concurrent index calls have left behind in
\* chunks_fts, which no foreign key covers.
FoundOnce == \A c \in Rows : fts[c] = 1

\* What the tables yield for the active run.
Wanted == DocumentChunks(active) \cup SymbolChunks(active)

\* Two updates at once can leave a manifest that is not the file's, and so can a
\* fault together with a change of the profile, with calls that overlap or with
\* a second fault.
Consistent ==
  /\ "updates" \notin overlapped
  /\ \/ faults = 0
     \/ faults = 1 /\ overlapped = {} /\ \A p, q \in used : p = q

\* The chunks whose vectors a single fault does not lose.
Robust == IF faults = 0 THEN Chunks ELSE Sections

\* After an index call that nothing disturbed and whose update succeeded, the
\* five parts of the index agree with the tables, whatever activations, edits,
\* changes of the profile, a crash or a failed update came before: the rows are
\* the wanted chunks, the selected ones have a vector of the profile (symbols
\* unless there was a fault: a crash between the vector file and its manifest can
\* leave a symbol listed without a vector), and only they are listed.
IndexIsCurrent ==
  settled /\ Consistent =>
    /\ Rows = Wanted
    /\ file = "whole"
    /\ \A c \in Embedded(Wanted) \cap Robust : vectors[c] = profile
    /\ selected = [profile |-> profile, keys |-> Embedded(Wanted)]

\* No section is forgotten: outside of an update, a row without a vector of the
\* manifest's model is not listed in the vector manifest, so the next call embeds
\* it (previous_keys of _store_and_embed; the docstring of _select_vector_chunks:
\* prose is always embedded).
NothingForgotten ==
  Consistent /\ (\A t \in Threads : at[t] \notin {"keys"} \cup Updating) /\ file = "whole" =>
    \A c \in Rows \cap selected.keys \cap Robust : vectors[c] = selected.profile

=============================================================================
