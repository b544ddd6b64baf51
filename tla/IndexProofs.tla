----------------------------- MODULE IndexProofs -----------------------------
(***************************************************************************)
(* What holds of Index for every set of chunks, runs, pages and threads,   *)
(* and for any number of changes and faults.                               *)
(***************************************************************************)
EXTENDS Index, TLAPS

\* A step that leaves the table and the full text alone, or deletes rows by a
\* cascade and leaves the full text alone.
Cascades == \A c \in Chunks : rows'[c] # NoRow => rows[c] # NoRow /\ fts'[c] = fts[c]

LEMMA CascadeKeeps ==
  ASSUME FoundOnce, Cascades
  PROVE  FoundOnce'
BY DEF FoundOnce, Rows, Cascades

\* The rows a transaction leaves are those it inserts, those it finds although it
\* read them as absent, and those it does not touch; Entries makes the first two
\* unique whatever a cascade has left, and the third were unique before.
LEMMA StoreKeeps ==
  ASSUME FoundOnce, NEW t \in Threads, Store(t)
  PROVE  FoundOnce'
<1> DEFINE removed == my[t].existing \ my[t].incoming
           changed == my[t].incoming \ my[t].existing
<1>1. rows' = [c \in Chunks |->
         IF c \in removed THEN NoRow
         ELSE IF c \in changed /\ rows[c] = NoRow THEN Owner(t, c) ELSE rows[c]]
  BY DEF Store
<1>2. fts' = [c \in Chunks |->
         IF c \in removed THEN 0 ELSE IF c \in changed THEN 1 ELSE fts[c]]
  BY DEF Store, Entries
<1> HIDE DEF removed, changed
<1> SUFFICES ASSUME NEW c \in Chunks, rows'[c] # NoRow
             PROVE  fts'[c] = 1
  BY DEF FoundOnce, Rows
<1>3. c \notin removed
  BY <1>1
<1>4. CASE c \in changed
  BY <1>2, <1>3, <1>4
<1>5. CASE c \notin changed
  <2>1. rows[c] # NoRow
    BY <1>1, <1>3, <1>5
  <2>2. fts[c] = 1
    BY <2>1 DEF FoundOnce, Rows
  <2> QED
    BY <1>2, <1>3, <1>5, <2>2
<1> QED
  BY <1>4, <1>5

\* The other steps of a thread.
LEMMA ThreadCascades ==
  ASSUME NEW t \in Threads,
         \/ Publish(t) \/ IngestGraph(t) \/ IngestWiki(t) \/ StopIngestion(t)
         \/ IndexStep(t) /\ ~Store(t)
  PROVE  Cascades
<1>1. CASE Publish(t)
  BY <1>1 DEF Publish, index, Cascades
<1>2. CASE IngestGraph(t)
  BY <1>2 DEF IngestGraph, Cascades
<1>3. CASE IngestWiki(t)
  BY <1>3 DEF IngestWiki, Cascades
<1>4. CASE StopIngestion(t)
  BY <1>4 DEF StopIngestion, index, Cascades
<1>5. CASE IndexStep(t) /\ ~Store(t)
  <2>1. CASE Begin(t)
    BY <2>1 DEF Begin, index, Cascades
  <2>2. CASE ReadDocuments(t) \/ ReadNodes(t) \/ ReadExisting(t)
    BY <2>2 DEF ReadDocuments, ReadNodes, ReadExisting, index, Cascades
  <2>3. CASE StoreFails(t)
    BY <2>3 DEF StoreFails, index, Cascades
  <2>4. CASE ReadKeys(t) \/ LoadAndEmbed(t)
    BY <2>4 DEF ReadKeys, LoadAndEmbed, index, Cascades
  <2>5. CASE Save(t) \/ WriteVectorManifest(t)
    BY <2>5 DEF Save, WriteVectorManifest, Cascades
  <2>6. CASE UpdateFails(t) \/ WriteManifest(t)
    BY <2>6 DEF UpdateFails, WriteManifest, Cascades
  <2> QED
    BY <1>5, <2>1, <2>2, <2>3, <2>4, <2>5, <2>6 DEF IndexStep
<1> QED
  BY <1>1, <1>2, <1>3, <1>4, <1>5

LEMMA NextKeeps == FoundOnce /\ [Next]_vars => FoundOnce'
<1> SUFFICES ASSUME FoundOnce, [Next]_vars PROVE FoundOnce'
  OBVIOUS
<1>1. ASSUME NEW t \in Threads, Store(t) PROVE FoundOnce'
  BY <1>1, StoreKeeps
<1>2. ASSUME NEW t \in Threads,
             \/ Publish(t) \/ IngestGraph(t) \/ IngestWiki(t) \/ StopIngestion(t)
             \/ IndexStep(t) /\ ~Store(t)
      PROVE  FoundOnce'
  BY <1>2, ThreadCascades, CascadeKeeps
<1>3. CASE EditPage
  <2>1. Cascades
    BY <1>3 DEF EditPage, index, Cascades
  <2> QED
    BY <2>1, CascadeKeeps
<1>4. CASE Crash
  <2>1. Cascades
    BY <1>4 DEF Crash, Cascades
  <2> QED
    BY <2>1, CascadeKeeps
<1>5. CASE UNCHANGED vars
  <2>1. Cascades
    BY <1>5 DEF vars, index, Cascades
  <2> QED
    BY <2>1, CascadeKeeps
<1> QED
  BY <1>1, <1>2, <1>3, <1>4, <1>5 DEF Next

\* The full-text search finds every chunk of the table, once: _store_and_embed
\* deletes the entry of a chunk it inserts although it finds no row, so the
\* entries that foreign-key cascades leave behind are never doubled, whatever
\* index calls, activations and crashes interleave.
THEOREM FullTextIsExact == Spec => []FoundOnce
<1>1. Init => FoundOnce
  BY DEF Init, FoundOnce, Rows
<1> QED
  BY <1>1, NextKeeps, PTL DEF Spec

-----------------------------------------------------------------------------
(***************************************************************************)
(* The inductive invariant behind IndexIsCurrent and NothingForgotten.     *)
(***************************************************************************)

Stored == {"keys"} \cup Updating  \* after the transaction, before the summary

\* What TypeOK does not say of the local variables: they are fresh before the
\* call, and sections of documents are only read for a run.
Sane ==
  \A t \in Threads :
    /\ at[t] \in {"graph", "wiki"} => my[t].target \in Runs
    /\ at[t] \notin Indexing => my[t].incoming = {} /\ my[t].ok
    /\ my[t].seen = NoRun => my[t].incoming \subseteq UNION Pages

\* The history knows of every overlap, and of every profile in use.
Known ==
  /\ "updates" \notin overlapped =>
       \A t, u \in Threads : at[t] \in Updating /\ at[u] \in Updating => t = u
  /\ overlapped = {} =>
       \A t, u \in Threads : at[t] \in Indexing /\ at[u] \in Indexing => t = u
  /\ \A t \in Threads : at[t] \in Indexing => my[t].profile \in used
  /\ selected.profile \in used \cup {NoProfile}
  /\ selected.keys # {} => selected.profile # NoProfile

\* A call that is alone has read what there is: cascades of others only delete.
ReadIsAll ==
  overlapped = {} =>
    \A t \in Threads :
      /\ at[t] = "store" => Rows \subseteq my[t].existing
      /\ at[t] \in Stored => Rows \subseteq my[t].incoming

\* An undisturbed thread is the only one, and its variables are the tables.
Undisturbed ==
  \A t \in alone :
    /\ at[t] \in {"idle"} \cup Indexing
    /\ \A u \in Threads \ {t} : at[u] = "idle"
    /\ at[t] \in Indexing => my[t].seen = active
    /\ at[t] = "nodes" => my[t].incoming = DocumentChunks(active)
    /\ at[t] \in {"existing", "store", "manifest"} \cup Stored => my[t].incoming = Wanted
    /\ at[t] = "store" => my[t].existing = Rows
    /\ at[t] \in {"manifest"} \cup Stored => Rows = Wanted

\* Chunks that the manifest lists although the file lacks their vector.
Lost == {c \in selected.keys : vectors[c] # selected.profile}

\* A lost section has no row, or its row is new and about to be embedded.
Recovered(c) ==
  /\ c \in Rows => \E t \in Threads : at[t] \in {"keys", "load", "save"} /\ c \in my[t].changed
  /\ \A t \in Threads :
       /\ at[t] = "store" => c \notin my[t].existing
       /\ at[t] \in {"keys", "load", "save"} /\ c \in my[t].incoming => c \in my[t].changed

\* v has the vectors that the call of t promises.
Complete(t, v) == \A c \in Embedded(my[t].incoming) \cap Robust : v[c] = my[t].profile

Marking == \E t \in Threads : at[t] = "mark"

VectorsKnown ==
  /\ ~Marking /\ faults = 0 => Lost = {}
  /\ ~Marking => \A c \in Lost \cap Sections : Recovered(c)
  /\ file = "torn" => Lost \cap Sections = {}
  /\ \A t \in Threads :
       /\ at[t] = "load" => my[t].previous = selected.keys
       /\ at[t] = "save" => Complete(t, my[t].loaded)
       /\ at[t] = "mark" => file = "whole" /\ Complete(t, vectors)

Tracked == Consistent => VectorsKnown

\* The outcome of an undisturbed call, before and after the summary is written.
Outcome(p, keys) ==
  Consistent =>
    /\ file = "whole"
    /\ \A c \in Embedded(keys) \cap Robust : vectors[c] = p
    /\ selected = [profile |-> p, keys |-> Embedded(keys)]

Finished ==
  /\ \A t \in alone : at[t] = "manifest" /\ my[t].ok => Outcome(my[t].profile, my[t].incoming)
  /\ settled =>
       /\ \A t \in Threads : at[t] = "idle"
       /\ Rows = Wanted
       /\ Outcome(profile, Wanted)

IInv == TypeOK /\ Sane /\ Known /\ ReadIsAll /\ Undisturbed /\ Tracked /\ Finished

-----------------------------------------------------------------------------
(***************************************************************************)
(* Helpers.                                                                *)
(***************************************************************************)

LEMMA ChunkSets ==
  /\ \A p \in Pages : p \subseteq Sections
  /\ UNION Pages \subseteq Sections
  /\ \A r \in Runs : Yields[r] \subseteq Chunks
  /\ Sections \subseteq Chunks /\ Symbols \subseteq Chunks /\ Sections \cap Symbols = {}
BY IndexAssumption DEF IndexAssumption, Chunks

LEMMA Names ==
  /\ NoRun \notin Runs /\ NoRow \notin Runs /\ NoRow # NoRun
  /\ NoProfile \notin Profiles
BY IndexAssumption DEF IndexAssumption, NoRun, NoRow, NoProfile

LEMMA WantedTyped ==
  ASSUME TypeOK, NEW r \in Runs \cup {NoRun}
  PROVE  /\ DocumentChunks(r) \subseteq Sections
         /\ SymbolChunks(r) \subseteq Symbols
         /\ r = NoRun => DocumentChunks(r) \subseteq UNION Pages /\ SymbolChunks(r) = {}
BY Names, ChunkSets DEF TypeOK, DocumentChunks, SymbolChunks

LEMMA EmbeddedIsBetween ==
  ASSUME NEW S
  PROVE  Embedded(S) \subseteq S /\ S \cap Sections \subseteq Embedded(S)
BY DEF Embedded

LEMMA FreshTyped == Fresh \in Locals
BY DEF Fresh, Locals, NoVectors, NoRun, NoProfile

\* The thread goes to a point; the others stay where they are.
Moves(t, to) ==
  /\ at' \in [Threads -> Points]
  /\ at'[t] = to
  /\ \A u \in Threads \ {t} : at'[u] = at[u]

LEMMA Goes ==
  ASSUME TypeOK, NEW t \in Threads, NEW to \in Points, at' = [at EXCEPT ![t] = to]
  PROVE  Moves(t, to)
BY DEF TypeOK, Moves

\* Only the field f of its local variables changes.
Sets(t, f) ==
  /\ my' \in [Threads -> Locals]
  /\ \A u \in Threads \ {t} : my'[u] = my[u]
  /\ f # "target" => my'[t].target = my[t].target
  /\ f # "profile" => my'[t].profile = my[t].profile
  /\ f # "seen" => my'[t].seen = my[t].seen
  /\ f # "incoming" => my'[t].incoming = my[t].incoming
  /\ f # "existing" => my'[t].existing = my[t].existing
  /\ f # "changed" => my'[t].changed = my[t].changed
  /\ f # "previous" => my'[t].previous = my[t].previous
  /\ f # "loaded" => my'[t].loaded = my[t].loaded
  /\ f # "ok" => my'[t].ok = my[t].ok

LEMMA Assigns ==
  ASSUME TypeOK, NEW t \in Threads
  PROVE  /\ \A S \in SUBSET Chunks :
              /\ my' = [my EXCEPT ![t].incoming = S] => Sets(t, "incoming") /\ my'[t].incoming = S
              /\ my' = [my EXCEPT ![t].existing = S] => Sets(t, "existing") /\ my'[t].existing = S
              /\ my' = [my EXCEPT ![t].changed = S] => Sets(t, "changed") /\ my'[t].changed = S
              /\ my' = [my EXCEPT ![t].previous = S] => Sets(t, "previous") /\ my'[t].previous = S
         /\ \A v \in [Chunks -> Profiles \cup {NoProfile}] :
              my' = [my EXCEPT ![t].loaded = v] => Sets(t, "loaded") /\ my'[t].loaded = v
         /\ my' = [my EXCEPT ![t].ok = FALSE] => Sets(t, "ok") /\ my'[t].ok = FALSE
         /\ \A r \in Runs :
              my' = [my EXCEPT ![t].target = r] => Sets(t, "target") /\ my'[t].target = r
<1>1. my \in [Threads -> Locals]
  BY DEF TypeOK
<1>2. ASSUME NEW S \in SUBSET Chunks, my' = [my EXCEPT ![t].incoming = S]
      PROVE  Sets(t, "incoming") /\ my'[t].incoming = S
  BY <1>1, <1>2 DEF Sets, Locals
<1>3. ASSUME NEW S \in SUBSET Chunks, my' = [my EXCEPT ![t].existing = S]
      PROVE  Sets(t, "existing") /\ my'[t].existing = S
  BY <1>1, <1>3 DEF Sets, Locals
<1>4. ASSUME NEW S \in SUBSET Chunks, my' = [my EXCEPT ![t].changed = S]
      PROVE  Sets(t, "changed") /\ my'[t].changed = S
  BY <1>1, <1>4 DEF Sets, Locals
<1>5. ASSUME NEW S \in SUBSET Chunks, my' = [my EXCEPT ![t].previous = S]
      PROVE  Sets(t, "previous") /\ my'[t].previous = S
  BY <1>1, <1>5 DEF Sets, Locals
<1>6. ASSUME NEW v \in [Chunks -> Profiles \cup {NoProfile}], my' = [my EXCEPT ![t].loaded = v]
      PROVE  Sets(t, "loaded") /\ my'[t].loaded = v
  BY <1>1, <1>6 DEF Sets, Locals
<1>7. ASSUME my' = [my EXCEPT ![t].ok = FALSE]
      PROVE  Sets(t, "ok") /\ my'[t].ok = FALSE
  BY <1>1, <1>7 DEF Sets, Locals
<1>8. ASSUME NEW r \in Runs, my' = [my EXCEPT ![t].target = r]
      PROVE  Sets(t, "target") /\ my'[t].target = r
  BY <1>1, <1>8 DEF Sets, Locals
<1> QED
  BY <1>2, <1>3, <1>4, <1>5, <1>6, <1>7, <1>8

LEMMA FieldsTyped ==
  ASSUME TypeOK, NEW t \in Threads
  PROVE  /\ my[t].target \in Runs \cup {NoRun} /\ my[t].seen \in Runs \cup {NoRun}
         /\ my[t].profile \in Profiles \cup {NoProfile}
         /\ my[t].incoming \in SUBSET Chunks /\ my[t].existing \in SUBSET Chunks
         /\ my[t].changed \in SUBSET Chunks /\ my[t].previous \in SUBSET Chunks
         /\ my[t].loaded \in [Chunks -> Profiles \cup {NoProfile}]
BY DEF TypeOK, Locals

\* What each step of a thread does to its place and its local variables.
LEMMA ReadsDo ==
  ASSUME TypeOK, NEW t \in Threads
  PROVE  /\ ReadDocuments(t) =>
              /\ at[t] = "documents" /\ Moves(t, "nodes") /\ Sets(t, "incoming")
              /\ my'[t].incoming = DocumentChunks(my[t].seen)
         /\ ReadNodes(t) =>
              /\ at[t] = "nodes" /\ Moves(t, "existing") /\ Sets(t, "incoming")
              /\ my'[t].incoming = my[t].incoming \cup SymbolChunks(my[t].seen)
         /\ ReadExisting(t) =>
              /\ at[t] = "existing" /\ Moves(t, "store") /\ Sets(t, "existing")
              /\ my'[t].existing = Rows
         /\ ReadKeys(t) =>
              /\ at[t] = "keys" /\ Moves(t, "load") /\ Sets(t, "previous")
              /\ my'[t].previous = selected.keys
<1>1. {"nodes", "existing", "store", "load"} \subseteq Points
  BY DEF Points, Indexing, Updating
<1>2. ASSUME ReadDocuments(t)
      PROVE  /\ at[t] = "documents" /\ Moves(t, "nodes") /\ Sets(t, "incoming")
             /\ my'[t].incoming = DocumentChunks(my[t].seen)
  <2>1. DocumentChunks(my[t].seen) \in SUBSET Chunks
    BY FieldsTyped, WantedTyped, ChunkSets
  <2> QED
    BY <1>1, <1>2, <2>1, Goes, Assigns DEF ReadDocuments, Go
<1>3. ASSUME ReadNodes(t)
      PROVE  /\ at[t] = "nodes" /\ Moves(t, "existing") /\ Sets(t, "incoming")
             /\ my'[t].incoming = my[t].incoming \cup SymbolChunks(my[t].seen)
  <2> DEFINE S == my[t].incoming \cup SymbolChunks(my[t].seen)
  <2>1. S \in SUBSET Chunks
    BY FieldsTyped, WantedTyped, ChunkSets
  <2>2. my' = [my EXCEPT ![t].incoming = S]
    BY <1>3 DEF ReadNodes
  <2> HIDE DEF S
  <2>3. Sets(t, "incoming") /\ my'[t].incoming = S
    BY <2>1, <2>2, Assigns
  <2> QED
    BY <1>1, <1>3, <2>3, Goes DEF ReadNodes, Go, S
<1>4. ASSUME ReadExisting(t)
      PROVE  /\ at[t] = "existing" /\ Moves(t, "store") /\ Sets(t, "existing")
             /\ my'[t].existing = Rows
  <2>1. Rows \in SUBSET Chunks
    BY DEF Rows
  <2> QED
    BY <1>1, <1>4, <2>1, Goes, Assigns DEF ReadExisting, Go
<1>5. ASSUME ReadKeys(t)
      PROVE  /\ at[t] = "keys" /\ Moves(t, "load") /\ Sets(t, "previous")
             /\ my'[t].previous = selected.keys
  <2>1. selected.keys \in SUBSET Chunks
    BY DEF TypeOK
  <2> QED
    BY <1>1, <1>5, <2>1, Goes, Assigns DEF ReadKeys, Go
<1> QED
  BY <1>2, <1>3, <1>4, <1>5

LEMMA StoreDoes ==
  ASSUME TypeOK, NEW t \in Threads, Store(t)
  PROVE  /\ at[t] = "store" /\ Moves(t, "keys") /\ Sets(t, "changed")
         /\ my'[t].changed = my[t].incoming \ my[t].existing
         /\ rows' = [c \in Chunks |->
              IF c \in my[t].existing \ my[t].incoming THEN NoRow
              ELSE IF c \in my[t].incoming \ my[t].existing /\ rows[c] = NoRow
                   THEN Owner(t, c) ELSE rows[c]]
<1> DEFINE changed == my[t].incoming \ my[t].existing
<1>1. changed \in SUBSET Chunks
  BY FieldsTyped
<1>2. my' = [my EXCEPT ![t].changed = changed]
  BY DEF Store
<1> HIDE DEF changed
<1>3. Sets(t, "changed") /\ my'[t].changed = changed
  BY <1>1, <1>2, Assigns
<1>4. "keys" \in Points
  BY DEF Points, Indexing
<1> QED
  BY <1>3, <1>4, Goes DEF Store, Go, changed

LEMMA LoadDoes ==
  ASSUME TypeOK, NEW t \in Threads, LoadAndEmbed(t)
  PROVE  /\ at[t] = "load" /\ Moves(t, "save") /\ Sets(t, "loaded")
         /\ my'[t].loaded = [c \in Chunks |->
              IF c \in ToEmbed(t) THEN my[t].profile
              ELSE IF c \in my[t].previous \ Embedded(my[t].incoming) THEN NoProfile
              ELSE (IF Compatible(t) THEN vectors ELSE NoVectors)[c]]
<1> DEFINE base == IF Compatible(t) THEN vectors ELSE NoVectors
           loaded == [c \in Chunks |->
              IF c \in ToEmbed(t) THEN my[t].profile
              ELSE IF c \in my[t].previous \ Embedded(my[t].incoming) THEN NoProfile ELSE base[c]]
<1>1. base \in [Chunks -> Profiles \cup {NoProfile}]
  BY DEF TypeOK, NoVectors
<1>2. my' = [my EXCEPT ![t].loaded = loaded]
  BY DEF LoadAndEmbed
<1> HIDE DEF base
<1>3. loaded \in [Chunks -> Profiles \cup {NoProfile}]
  BY <1>1, FieldsTyped
<1> HIDE DEF loaded
<1>4. Sets(t, "loaded") /\ my'[t].loaded = loaded
  BY <1>2, <1>3, Assigns
<1>5. "save" \in Points
  BY DEF Points, Indexing, Updating
<1> QED
  BY <1>4, <1>5, Goes DEF LoadAndEmbed, Go, loaded, base

LEMMA FailDoes ==
  ASSUME TypeOK, NEW t \in Threads, UpdateFails(t)
  PROVE  /\ at[t] \in Updating /\ Moves(t, "manifest") /\ Sets(t, "ok") /\ my'[t].ok = FALSE
         /\ \/ /\ at[t] = "save" /\ file' = "torn" /\ UNCHANGED <<vectors, selected>>
               /\ faults' = faults + 1
            \/ /\ at[t] = "mark" /\ selected' = NoManifest /\ UNCHANGED <<file, vectors>>
               /\ faults' = faults + 1
            \/ UNCHANGED <<file, vectors, selected>> /\ faults' = faults + 1
            \/ at[t] = "load" /\ file = "torn" /\ UNCHANGED <<file, vectors, selected, faults>>
<1>1. "manifest" \in Points
  BY DEF Points, Indexing
<1>2. Moves(t, "manifest") /\ Sets(t, "ok") /\ my'[t].ok = FALSE
  BY <1>1, Goes, Assigns DEF UpdateFails
<1>3. /\ at[t] \in Updating
      /\ \/ faults' = faults + 1 /\ Interrupted(t)
         \/ at[t] = "load" /\ file = "torn" /\ UNCHANGED <<file, vectors, selected, faults>>
  BY DEF UpdateFails
<1>4. Interrupted(t) =>
        \/ at[t] = "save" /\ file' = "torn" /\ UNCHANGED <<vectors, selected>>
        \/ at[t] = "mark" /\ selected' = NoManifest /\ UNCHANGED <<file, vectors>>
        \/ UNCHANGED <<file, vectors, selected>>
  BY DEF Interrupted
<1> QED
  BY <1>2, <1>3, <1>4

LEMMA LeaveDoes ==
  ASSUME TypeOK, NEW t \in Threads, Leave(t)
  PROVE  /\ Moves(t, "idle") /\ my' \in [Threads -> Locals] /\ my'[t] = Fresh
         /\ \A u \in Threads \ {t} : my'[u] = my[u]
<1>1. "idle" \in Points
  BY DEF Points
<1> QED
  BY <1>1, Goes, FreshTyped DEF Leave, TypeOK

LEMMA PublishDoes ==
  ASSUME TypeOK, Sane, NEW t \in Threads, Publish(t)
  PROVE  /\ at[t] = "idle" /\ Moves(t, "graph") /\ Sets(t, "target") /\ my'[t].target \in Runs
         /\ active' \in Runs
<1>1. PICK r \in Runs : active' = r /\ my' = [my EXCEPT ![t].target = r]
  BY DEF Publish
<1>2. at[t] = "idle" /\ Moves(t, "graph")
  <2>1. "graph" \in Points
    BY DEF Points
  <2> QED
    BY <2>1, Goes DEF Publish, Go
<1>3. Sets(t, "target") /\ my'[t].target = r
  BY <1>1, Assigns
<1> QED
  BY <1>1, <1>2, <1>3

LEMMA BeginDoes ==
  ASSUME TypeOK, Sane, NEW t \in Threads, Begin(t)
  PROVE  /\ at[t] \notin Indexing /\ Moves(t, "documents")
         /\ my' \in [Threads -> Locals] /\ \A u \in Threads \ {t} : my'[u] = my[u]
         /\ my'[t].seen = active /\ my'[t].incoming = {} /\ my'[t].ok = TRUE
         /\ my'[t].profile \in Profiles /\ used' = used \cup {my'[t].profile}
<1>1. PICK p \in Profiles : /\ my' = [my EXCEPT ![t].profile = p, ![t].seen = active]
                            /\ used' = used \cup {p}
  BY DEF Begin
<1>2. at[t] \in {"idle", "begin"} /\ Moves(t, "documents")
  <2>1. "documents" \in Points
    BY DEF Points, Indexing
  <2> QED
    BY <2>1, Goes DEF Begin
<1>3. at[t] \notin Indexing
  BY <1>2 DEF Indexing, Updating
<1>4. my[t].incoming = {} /\ my[t].ok = TRUE
  BY <1>3 DEF Sane, Fresh
<1>5. my \in [Threads -> Locals] /\ active \in Runs \cup {NoRun}
  BY DEF TypeOK
<1>6. my' \in [Threads -> Locals]
  <2>1. my' = [my EXCEPT ![t] = [my[t] EXCEPT !.profile = p, !.seen = active]]
    BY <1>1, Zenon
  <2>2. [my[t] EXCEPT !.profile = p, !.seen = active] \in Locals
    BY <1>5, Zenon DEF Locals
  <2> QED
    BY <1>5, <2>1, <2>2, Zenon
<1>7. /\ \A u \in Threads \ {t} : my'[u] = my[u]
      /\ my'[t].seen = active /\ my'[t].profile = p
      /\ my'[t].incoming = my[t].incoming /\ my'[t].ok = my[t].ok
  BY <1>1, <1>5 DEF Locals
<1> QED
  BY <1>1, <1>2, <1>3, <1>4, <1>6, <1>7

-----------------------------------------------------------------------------
(***************************************************************************)
(* Types.                                                                  *)
(***************************************************************************)

\* The part of TypeOK about threads, kept by any step that moves one thread and
\* sets one of its variables.
ThreadsTyped ==
  /\ at \in [Threads -> Points]
  /\ my \in [Threads -> Locals]
  /\ \A t \in Threads : at[t] = "idle" => my[t] = Fresh

StoreTyped ==
  /\ rows \in [Chunks -> Owners]
  /\ fts \in [Chunks -> Nat]
  /\ file \in {"absent", "torn", "whole"}
  /\ vectors \in [Chunks -> Profiles \cup {NoProfile}]
  /\ file = "absent" => vectors = NoVectors
  /\ selected \in [profile : Profiles \cup {NoProfile}, keys : SUBSET Chunks]
  /\ profile \in Profiles \cup {NoProfile}

RestTyped ==
  /\ active \in Runs \cup {NoRun}
  /\ ingested \in SUBSET Runs
  /\ graph \in Runs \cup {NoRun}
  /\ page \in Pages
  /\ alone \in SUBSET Threads
  /\ settled \in BOOLEAN
  /\ overlapped \in SUBSET {"calls", "updates"}
  /\ used \in SUBSET Profiles
  /\ changes \in Nat /\ faults \in Nat

LEMMA TypeParts ==
  /\ TypeOK <=> ThreadsTyped /\ StoreTyped /\ RestTyped
  /\ TypeOK' <=> ThreadsTyped' /\ StoreTyped' /\ RestTyped'
BY DEF TypeOK, ThreadsTyped, StoreTyped, RestTyped

LEMMA SetsKeepTypes ==
  ASSUME TypeOK, NEW t \in Threads, NEW to, to # "idle", Moves(t, to), NEW f, Sets(t, f)
  PROVE  ThreadsTyped'
BY DEF TypeOK, ThreadsTyped, Moves, Sets

LEMMA LeaveKeepsTypes ==
  ASSUME TypeOK, Sane, NEW t \in Threads, Leave(t)
  PROVE  ThreadsTyped' /\ Sane'
<1>1. ThreadsTyped'
  BY LeaveDoes DEF TypeOK, ThreadsTyped, Moves
<1>2. Sane'
  BY LeaveDoes DEF Sane, Moves, Fresh, Indexing, Updating
<1> QED
  BY <1>1, <1>2

\* A step inside of a call keeps Sane, if what it reads for no run is the page.
LEMMA SetsKeepSane ==
  ASSUME TypeOK, Sane, NEW t \in Threads, at[t] \in Indexing,
         NEW to \in Indexing, Moves(t, to), NEW f, Sets(t, f), f \notin {"target", "seen"},
         my[t].seen = NoRun => my'[t].incoming \subseteq UNION Pages
  PROVE  Sane'
<1> SUFFICES ASSUME NEW u \in Threads
             PROVE  /\ at'[u] \in {"graph", "wiki"} => my'[u].target \in Runs
                    /\ at'[u] \notin Indexing => my'[u].incoming = {} /\ my'[u].ok
                    /\ my'[u].seen = NoRun => my'[u].incoming \subseteq UNION Pages
  BY DEF Sane
<1>1. CASE u # t
  BY <1>1 DEF Sane, Moves, Sets
<1>2. CASE u = t
  <2>1. at'[u] \in Indexing /\ at'[u] \notin {"graph", "wiki"}
    BY <1>2 DEF Moves, Indexing, Updating
  <2>2. my'[u].seen = my[u].seen
    BY <1>2 DEF Sets
  <2> QED
    BY <1>2, <2>1, <2>2
<1> QED
  BY <1>1, <1>2

LEMMA PublishTyped ==
  ASSUME TypeOK, Sane, NEW t \in Threads, Publish(t)
  PROVE  TypeOK' /\ Sane'
<1>1. ThreadsTyped'
  BY PublishDoes, SetsKeepTypes
<1>2. StoreTyped'
  BY TypeParts DEF Publish, index, StoreTyped
<1>4. RestTyped'
  <2>1. /\ changes' = changes + 1 /\ Disturb(Threads)
        /\ UNCHANGED <<ingested, graph, page, faults>>
    BY DEF Publish
  <2>2. changes' \in Nat /\ faults' \in Nat
    BY <2>1, TypeParts DEF RestTyped
  <2> QED
    BY <2>1, <2>2, TypeParts, PublishDoes DEF Disturb, RestTyped
<1>3. Sane'
  BY PublishDoes DEF Sane, Moves, Sets, Indexing, Updating
<1> QED
  BY <1>1, <1>2, <1>3, <1>4, TypeParts

LEMMA IngestTyped ==
  ASSUME TypeOK, Sane, NEW t \in Threads, IngestGraph(t) \/ IngestWiki(t) \/ StopIngestion(t)
  PROVE  TypeOK' /\ Sane'
<1> USE DEF Points, Indexing, Updating
<1>1. CASE IngestGraph(t)
  <2>1. rows' \in [Chunks -> Owners]
    BY <1>1 DEF IngestGraph, TypeOK, Owners
  <2>2. my[t].target \in Runs /\ Moves(t, "wiki") /\ UNCHANGED my /\ at[t] = "graph"
    BY <1>1, Goes DEF IngestGraph, Go, Sane
  <2>3. ThreadsTyped'
    BY <2>2 DEF TypeOK, ThreadsTyped, Moves
  <2>4. StoreTyped' /\ RestTyped'
    BY <1>1, <2>1, <2>2 DEF IngestGraph, Disturb, bounds, TypeOK, StoreTyped, RestTyped
  <2>5. Sane'
    BY <2>2 DEF Sane, Moves
  <2> QED
    BY <2>3, <2>4, <2>5, TypeParts
<1>2. CASE IngestWiki(t)
  <2>1. rows' \in [Chunks -> Owners]
    BY <1>2 DEF IngestWiki, TypeOK, Owners
  <2>2. my[t].target \in Runs /\ Moves(t, "begin") /\ UNCHANGED my /\ at[t] = "wiki"
    BY <1>2, Goes DEF IngestWiki, Go, Sane
  <2>3. ThreadsTyped'
    BY <2>2 DEF TypeOK, ThreadsTyped, Moves
  <2>4. StoreTyped' /\ RestTyped'
    BY <1>2, <2>1, <2>2 DEF IngestWiki, Disturb, bounds, TypeOK, StoreTyped, RestTyped
  <2>5. Sane'
    BY <2>2 DEF Sane, Moves
  <2> QED
    BY <2>3, <2>4, <2>5, TypeParts
<1>3. CASE StopIngestion(t)
  <2>1. ThreadsTyped' /\ Sane'
    BY <1>3, LeaveKeepsTypes DEF StopIngestion
  <2>2. StoreTyped' /\ RestTyped'
    BY <1>3 DEF StopIngestion, tables, index, history, bounds, TypeOK, StoreTyped, RestTyped
  <2> QED
    BY <2>1, <2>2, TypeParts
<1> QED
  BY <1>1, <1>2, <1>3

LEMMA ReadsTyped ==
  ASSUME TypeOK, Sane, NEW t \in Threads,
         ReadDocuments(t) \/ ReadNodes(t) \/ ReadExisting(t) \/ ReadKeys(t)
  PROVE  TypeOK' /\ Sane'
<1>1. StoreTyped' /\ RestTyped'
  <2>1. CASE ReadDocuments(t) \/ ReadNodes(t) \/ ReadExisting(t)
    BY <2>1 DEF ReadDocuments, ReadNodes, ReadExisting, tables, index, history, bounds, TypeOK,
      StoreTyped, RestTyped
  <2>2. CASE ReadKeys(t)
    <3>1. UNCHANGED <<tables, index, alone, settled, used, bounds>>
      BY <2>2 DEF ReadKeys
    <3>2. overlapped' \in SUBSET {"calls", "updates"}
      BY <2>2 DEF ReadKeys, OverlapIn, TypeOK
    <3> QED
      BY <3>1, <3>2 DEF tables, index, bounds, TypeOK, StoreTyped, RestTyped
  <2> QED
    BY <2>1, <2>2
<1>2. ThreadsTyped'
  BY ReadsDo, SetsKeepTypes
<1>3. Sane'
  <2>1. my[t].seen = NoRun => my[t].incoming \subseteq UNION Pages
    BY DEF Sane
  <2>2. my[t].seen = NoRun =>
          DocumentChunks(my[t].seen) \subseteq UNION Pages /\ SymbolChunks(my[t].seen) = {}
    BY FieldsTyped, WantedTyped
  <2>3. {"documents", "nodes", "existing", "store", "keys", "load"} \subseteq Indexing
    BY DEF Indexing, Updating
  <2>4. ReadDocuments(t) => Sane'
    BY <2>2, <2>3, ReadsDo, SetsKeepSane
  <2>5. ReadNodes(t) => Sane'
    BY <2>1, <2>2, <2>3, ReadsDo, SetsKeepSane
  <2>6. ReadExisting(t) \/ ReadKeys(t) => Sane'
    <3>1. ReadExisting(t) \/ ReadKeys(t) => my'[t].incoming = my[t].incoming
      BY ReadsDo DEF Sets
    <3> QED
      BY <2>1, <2>3, <3>1, ReadsDo, SetsKeepSane
  <2> QED
    BY <2>4, <2>5, <2>6
<1> QED
  BY <1>1, <1>2, <1>3, TypeParts

LEMMA BeginTyped ==
  ASSUME TypeOK, Sane, NEW t \in Threads, Begin(t)
  PROVE  TypeOK' /\ Sane'
<1>1. ThreadsTyped'
  BY BeginDoes DEF TypeOK, ThreadsTyped, Moves
<1>2. StoreTyped'
  BY DEF Begin, tables, index, bounds, TypeOK, StoreTyped
<1>3. RestTyped'
  <2>1. UNCHANGED <<active, ingested, graph, page, changes, faults>>
    BY DEF Begin, tables, bounds
  <2>2. alone' \in SUBSET Threads /\ settled' \in BOOLEAN
    BY DEF Begin
  <2>3. overlapped' \in SUBSET {"calls", "updates"}
    BY DEF Begin, OverlapIn, TypeOK
  <2>4. used' \in SUBSET Profiles
    BY BeginDoes DEF TypeOK
  <2> QED
    BY <2>1, <2>2, <2>3, <2>4 DEF TypeOK, RestTyped
<1>4. Sane'
  BY BeginDoes DEF Sane, Moves, Indexing
<1> QED
  BY <1>1, <1>2, <1>3, <1>4, TypeParts

LEMMA StoreIsTyped ==
  ASSUME TypeOK, Sane, NEW t \in Threads, Store(t)
  PROVE  TypeOK' /\ Sane'
<1>1. ThreadsTyped'
  BY StoreDoes, SetsKeepTypes
<1>2. rows' \in [Chunks -> Owners]
  <2>1. my[t].incoming \in SUBSET Chunks /\ my[t].seen \in Runs \cup {NoRun}
    BY FieldsTyped
  <2>2. \A c \in my[t].incoming : Owner(t, c) \in Owners
    <3> SUFFICES ASSUME NEW c \in my[t].incoming, c \notin Symbols, c \notin UNION Pages
                 PROVE  my[t].seen \in Runs
      BY DEF Owner, Owners
    <3> QED
      BY <2>1 DEF Sane
  <2>3. rows \in [Chunks -> Owners]
    BY DEF TypeOK
  <2>4. NoRow \in Owners
    BY DEF Owners
  <2> QED
    BY <2>2, <2>3, <2>4, StoreDoes
<1>3. fts' \in [Chunks -> Nat]
  BY DEF Store, Entries, TypeOK
<1>4. StoreTyped' /\ RestTyped'
  BY <1>2, <1>3 DEF Store, tables, bounds, TypeOK, StoreTyped, RestTyped
<1>5. Sane'
  <2>1. my'[t].incoming = my[t].incoming
    BY StoreDoes DEF Sets
  <2>2. {"store", "keys"} \subseteq Indexing
    BY DEF Indexing
  <2>3. my[t].seen = NoRun => my[t].incoming \subseteq UNION Pages
    BY DEF Sane
  <2> QED
    BY <2>1, <2>2, <2>3, StoreDoes, SetsKeepSane
<1> QED
  BY <1>1, <1>4, <1>5, TypeParts

LEMMA UpdateTyped ==
  ASSUME TypeOK, Sane, NEW t \in Threads,
         LoadAndEmbed(t) \/ Save(t) \/ WriteVectorManifest(t) \/ UpdateFails(t)
  PROVE  TypeOK' /\ Sane'
<1>1. {"load", "save", "mark", "manifest"} \subseteq Indexing \cap Points
  BY DEF Indexing, Updating, Points
<1>2. my[t].seen = NoRun => my[t].incoming \subseteq UNION Pages
  BY DEF Sane
<1>3. CASE LoadAndEmbed(t)
  <2>1. ThreadsTyped'
    BY <1>3, LoadDoes, SetsKeepTypes
  <2>2. StoreTyped' /\ RestTyped'
    BY <1>3 DEF LoadAndEmbed, tables, index, history, bounds, TypeOK, StoreTyped, RestTyped
  <2>3. Sane'
    <3>1. my'[t].incoming = my[t].incoming
      BY <1>3, LoadDoes DEF Sets
    <3>2. at[t] = "load" /\ Moves(t, "save") /\ Sets(t, "loaded")
      BY <1>3, LoadDoes
    <3> QED
      BY <1>1, <1>2, <3>1, <3>2, SetsKeepSane
  <2> QED
    BY <2>1, <2>2, <2>3, TypeParts
<1>4. CASE Save(t)
  <2>1. at[t] = "save" /\ Moves(t, "mark") /\ UNCHANGED my
    BY <1>1, <1>4, Goes DEF Save, Go
  <2>2. ThreadsTyped'
    BY <2>1 DEF TypeOK, ThreadsTyped, Moves
  <2>3. StoreTyped' /\ RestTyped'
    BY <1>4, FieldsTyped DEF Save, tables, history, bounds, TypeOK, StoreTyped, RestTyped
  <2>4. Sane'
    BY <2>1, <1>1 DEF Sane, Moves
  <2> QED
    BY <2>2, <2>3, <2>4, TypeParts
<1>5. CASE WriteVectorManifest(t)
  <2>1. at[t] = "mark" /\ Moves(t, "manifest") /\ UNCHANGED my
    BY <1>1, <1>5, Goes DEF WriteVectorManifest, Go
  <2>2. ThreadsTyped'
    BY <2>1 DEF TypeOK, ThreadsTyped, Moves
  <2>3. Listed(t) \in SUBSET Chunks
    BY FieldsTyped, EmbeddedIsBetween DEF Listed
  <2>4. selected' \in [profile : Profiles \cup {NoProfile}, keys : SUBSET Chunks]
    BY <1>5, <2>3, FieldsTyped DEF WriteVectorManifest
  <2>5. StoreTyped' /\ RestTyped'
    BY <1>5, <2>4 DEF WriteVectorManifest, tables, history, bounds, TypeOK, StoreTyped, RestTyped
  <2>6. Sane'
    BY <2>1, <1>1 DEF Sane, Moves
  <2> QED
    BY <2>2, <2>5, <2>6, TypeParts
<1>6. CASE UpdateFails(t)
  <2>1. ThreadsTyped'
    BY <1>6, FailDoes, SetsKeepTypes
  <2>2. UNCHANGED <<tables, rows, fts, profile, history, changes>>
    BY <1>6 DEF UpdateFails
  <2>3. StoreTyped'
    <3>1. NoManifest \in [profile : Profiles \cup {NoProfile}, keys : SUBSET Chunks]
      BY DEF NoManifest
    <3>2. /\ file' \in {"torn", file} /\ vectors' = vectors /\ selected' \in {NoManifest, selected}
      BY <1>6, FailDoes
    <3> QED
      BY <2>2, <3>1, <3>2, TypeParts DEF StoreTyped
  <2>5. RestTyped'
    <3>1. faults' \in {faults, faults + 1}
      BY <1>6, FailDoes
    <3> QED
      BY <2>2, <3>1, TypeParts DEF tables, history, RestTyped
  <2>4. Sane'
    <3>1. my'[t].incoming = my[t].incoming
      BY <1>6, FailDoes DEF Sets
    <3>2. at[t] \in Indexing
      BY <1>6, FailDoes DEF Indexing
    <3> QED
      BY <1>1, <1>2, <1>6, <3>1, <3>2, FailDoes, SetsKeepSane
  <2> QED
    BY <2>1, <2>3, <2>4, <2>5, TypeParts
<1> QED
  BY <1>3, <1>4, <1>5, <1>6

LEMMA EndTyped ==
  ASSUME TypeOK, Sane, NEW t \in Threads, StoreFails(t) \/ WriteManifest(t)
  PROVE  TypeOK' /\ Sane'
<1>1. ThreadsTyped' /\ Sane'
  BY LeaveKeepsTypes DEF StoreFails, WriteManifest
<1>2. CASE StoreFails(t)
  BY <1>1, <1>2, TypeParts
    DEF StoreFails, tables, index, history, bounds, TypeOK, StoreTyped, RestTyped
<1>3. CASE WriteManifest(t)
  <2>1. StoreTyped' /\ RestTyped'
    BY <1>3, FieldsTyped DEF WriteManifest, tables, bounds, TypeOK, StoreTyped, RestTyped
  <2> QED
    BY <1>1, <2>1, TypeParts
<1> QED
  BY <1>2, <1>3

LEMMA OthersTyped ==
  ASSUME TypeOK, Sane, EditPage \/ Crash
  PROVE  TypeOK' /\ Sane'
<1>1. CASE EditPage
  <2>1. ThreadsTyped' /\ StoreTyped' /\ RestTyped'
    <3>1. /\ changes' = changes + 1 /\ Disturb(Threads) /\ page' \in Pages
          /\ UNCHANGED <<active, ingested, graph, faults>>
      BY <1>1 DEF EditPage
    <3>2. ThreadsTyped' /\ StoreTyped'
      BY <1>1, TypeParts DEF EditPage, index, ThreadsTyped, StoreTyped
    <3>4. changes' \in Nat /\ faults' \in Nat
      BY <3>1, TypeParts DEF RestTyped
    <3>3. RestTyped'
      BY <3>1, <3>4, TypeParts DEF Disturb, RestTyped
    <3> QED
      BY <3>2, <3>3
  <2>2. Sane'
    BY <1>1 DEF EditPage, Sane
  <2> QED
    BY <2>1, <2>2, TypeParts
<1>2. CASE Crash
  <2>1. at' = [t \in Threads |-> "idle"] /\ my' = [t \in Threads |-> Fresh]
    BY <1>2 DEF Crash
  <2>2. ThreadsTyped'
    BY <2>1, FreshTyped DEF ThreadsTyped, Points
  <2>3. Sane'
    BY <2>1 DEF Sane, Fresh
  <2>4. PICK t \in Threads : /\ Interrupted(t)
                             /\ (at[t] = "manifest" /\ profile' = NoProfile) \/ UNCHANGED profile
    BY <1>2 DEF Crash
  <2>5. StoreTyped'
    BY <1>2, <2>4 DEF Crash, Interrupted, NoManifest, TypeOK, StoreTyped
  <2>6. RestTyped'
    <3>1. faults' = faults + 1 /\ Disturb(Threads) /\ UNCHANGED <<tables, changes>>
      BY <1>2 DEF Crash
    <3>2. changes' \in Nat /\ faults' \in Nat
      BY <3>1, TypeParts DEF RestTyped
    <3> QED
      BY <3>1, <3>2, TypeParts DEF Disturb, tables, RestTyped
  <2> QED
    BY <2>2, <2>3, <2>5, <2>6, TypeParts
<1> QED
  BY <1>1, <1>2

LEMMA InitTyped == Init => TypeOK /\ Sane
<1> SUFFICES ASSUME Init PROVE TypeOK /\ Sane
  OBVIOUS
<1>1. ThreadsTyped
  BY FreshTyped DEF Init, ThreadsTyped, Points
<1>2. StoreTyped
  BY DEF Init, StoreTyped, NoVectors, NoManifest, Owners
<1>4. RestTyped
  BY DEF Init, RestTyped
<1>3. Sane
  BY DEF Init, Sane, Fresh
<1> QED
  BY <1>1, <1>2, <1>3, <1>4, TypeParts

LEMMA NextTyped == TypeOK /\ Sane /\ [Next]_vars => TypeOK' /\ Sane'
<1> SUFFICES ASSUME TypeOK, Sane, [Next]_vars PROVE TypeOK' /\ Sane'
  OBVIOUS
<1>1. CASE UNCHANGED vars
  <2>1. TypeOK'
    BY <1>1 DEF vars, tables, index, history, bounds, TypeOK
  <2>2. Sane'
    BY <1>1 DEF vars, Sane
  <2> QED
    BY <2>1, <2>2
<1>2. ASSUME NEW t \in Threads, IndexStep(t) PROVE TypeOK' /\ Sane'
  BY <1>2, BeginTyped, ReadsTyped, StoreIsTyped, UpdateTyped, EndTyped DEF IndexStep
<1> QED
  BY <1>1, <1>2, PublishTyped, IngestTyped, OthersTyped DEF Next

\* Every reachable state of the index is well typed: what a thread stores belongs
\* to a run's document, the manual page or a node, and an idle one holds nothing.
THEOREM Typed == Spec => []TypeOK
<1>1. TypeOK /\ Sane /\ [Next]_vars => (TypeOK /\ Sane)'
  BY NextTyped
<1> QED
  BY <1>1, InitTyped, PTL DEF Spec

-----------------------------------------------------------------------------
(***************************************************************************)
(* The history, and what a call that is alone has read.                    *)
(***************************************************************************)

StepOf(t) == Publish(t) \/ IngestGraph(t) \/ IngestWiki(t) \/ StopIngestion(t) \/ IndexStep(t)

\* History only grows, and one step is at most one fault.
LEMMA HistoryGrows ==
  ASSUME TypeOK, [Next]_vars
  PROVE  /\ overlapped \subseteq overlapped' /\ used \subseteq used'
         /\ faults' = faults \/ faults' = faults + 1
<1>1. CASE UNCHANGED vars
  BY <1>1 DEF vars, history, bounds
<1>2. ASSUME NEW t \in Threads, StepOf(t)
      PROVE  /\ overlapped \subseteq overlapped' /\ used \subseteq used'
             /\ faults' = faults \/ faults' = faults + 1
  <2>1. CASE Publish(t) \/ IngestGraph(t) \/ IngestWiki(t) \/ StopIngestion(t)
    BY <2>1 DEF Publish, IngestGraph, IngestWiki, StopIngestion, Disturb, history, bounds
  <2>2. CASE Begin(t) \/ ReadDocuments(t) \/ ReadNodes(t) \/ ReadExisting(t) \/ StoreFails(t)
    BY <2>2 DEF Begin, ReadDocuments, ReadNodes, ReadExisting, StoreFails, history, bounds
  <2>3. CASE Store(t) \/ ReadKeys(t) \/ LoadAndEmbed(t) \/ Save(t) \/ WriteVectorManifest(t)
    BY <2>3 DEF Store, ReadKeys, LoadAndEmbed, Save, WriteVectorManifest, history, bounds
  <2>4. CASE UpdateFails(t) \/ WriteManifest(t)
    BY <2>4 DEF UpdateFails, WriteManifest, history, bounds
  <2> QED
    BY <1>2, <2>1, <2>2, <2>3, <2>4 DEF StepOf, IndexStep
<1>3. CASE EditPage \/ Crash
  BY <1>3 DEF EditPage, Crash, Disturb
<1> QED
  BY <1>1, <1>2, <1>3 DEF Next, StepOf

\* So a consistent state has only had consistent ones before it, and a fault is
\* the first trouble of any kind.
LEMMA ConsistentBefore ==
  ASSUME TypeOK, [Next]_vars, Consistent'
  PROVE  /\ Consistent
         /\ faults' = 0 => faults = 0
         /\ faults' # faults => faults = 0 /\ overlapped = {} /\ \A p, q \in used : p = q
         /\ faults' = 0 \/ (faults' = 1 /\ overlapped = {} /\ \A p, q \in used : p = q)
         /\ Robust' \subseteq Robust
<1>1. faults \in Nat
  BY DEF TypeOK
<1>2. /\ overlapped \subseteq overlapped' /\ used \subseteq used'
      /\ faults' = faults \/ faults' = faults + 1
  BY HistoryGrows
<1>3. /\ "updates" \notin overlapped'
      /\ faults' = 0 \/ (faults' = 1 /\ overlapped' = {} /\ \A p, q \in used' : p = q)
  BY DEF Consistent
<1>4. faults' = 0 => faults = 0
  BY <1>1, <1>2
<1>5. faults' # faults => faults = 0 /\ faults' # 0
  BY <1>1, <1>2, <1>3
<1>6. faults' = 1 => faults = 0 \/ faults = 1
  BY <1>1, <1>2
<1>7. faults' = 0 \/ (faults' = 1 /\ overlapped = {} /\ \A p, q \in used : p = q)
  BY <1>2, <1>3
<1>8. Consistent
  BY <1>2, <1>3, <1>4, <1>6, <1>7 DEF Consistent
<1>9. Robust' \subseteq Robust
  BY <1>4, ChunkSets DEF Robust
<1> QED
  BY <1>4, <1>5, <1>7, <1>8, <1>9

\* A step after which nobody is in a call, or an update, that was not before.
LEMMA KnownByPlace ==
  ASSUME Known, used \subseteq used', overlapped \subseteq overlapped',
         \A u \in Threads :
           /\ at'[u] \in Updating => at[u] \in Updating
           /\ at'[u] \in Indexing => at[u] \in Indexing /\ my'[u].profile = my[u].profile,
         selected' \in {selected, NoManifest}
  PROVE  Known'
BY DEF Known, NoManifest

LEMMA KnownKept ==
  ASSUME TypeOK, Sane, Known, [Next]_vars
  PROVE  Known'
<1>1. used \subseteq used' /\ overlapped \subseteq overlapped'
  BY HistoryGrows
<1>2. CASE UNCHANGED vars
  BY <1>1, <1>2, KnownByPlace DEF vars, index
<1>3. ASSUME NEW t \in Threads, StepOf(t)
      PROVE  Known'
  <2>1. CASE Publish(t)
    BY <1>1, <2>1, PublishDoes, KnownByPlace DEF Publish, index, Moves, Sets, Indexing, Updating
  <2>2. CASE IngestGraph(t) \/ IngestWiki(t)
    <3>1. /\ Moves(t, "wiki") \/ Moves(t, "begin")
          /\ UNCHANGED <<my, selected>>
      BY <2>2, Goes DEF IngestGraph, IngestWiki, Go, Points
    <3> QED
      BY <1>1, <3>1, KnownByPlace DEF Moves, Indexing, Updating
  <2>3. CASE StopIngestion(t) \/ StoreFails(t) \/ WriteManifest(t)
    <3>1. Leave(t) /\ UNCHANGED selected
      BY <2>3 DEF StopIngestion, StoreFails, WriteManifest, index
    <3> QED
      BY <1>1, <3>1, LeaveDoes, KnownByPlace DEF Moves, Indexing, Updating
  <2>4. CASE Begin(t)
    <3>1. /\ UNCHANGED selected
          /\ overlapped' = overlapped \cup OverlapIn(t, Indexing, "calls")
      BY <2>4 DEF Begin, index
    <3>2. ASSUME overlapped' = {}, NEW u \in Threads \ {t} PROVE at[u] \notin Indexing
      BY <3>1, <3>2 DEF OverlapIn
    <3>3. /\ Moves(t, "documents") /\ \A u \in Threads \ {t} : my'[u] = my[u]
          /\ my'[t].profile \in used'
      BY <2>4, BeginDoes
    <3>4. "updates" \notin overlapped' =>
            \A u, v \in Threads : at'[u] \in Updating /\ at'[v] \in Updating => u = v
      BY <1>1, <3>3 DEF Known, Moves, Updating
    <3>5. overlapped' = {} =>
            \A u, v \in Threads : at'[u] \in Indexing /\ at'[v] \in Indexing => u = v
      BY <3>2, <3>3 DEF Moves
    <3>6. \A u \in Threads : at'[u] \in Indexing => my'[u].profile \in used'
      BY <1>1, <3>3 DEF Known, Moves
    <3> QED
      BY <1>1, <3>1, <3>4, <3>5, <3>6 DEF Known
  <2>5. CASE ReadDocuments(t) \/ ReadNodes(t) \/ ReadExisting(t)
    <3>1. UNCHANGED selected
      BY <2>5 DEF ReadDocuments, ReadNodes, ReadExisting, index
    <3> QED
      BY <1>1, <2>5, <3>1, ReadsDo, KnownByPlace DEF Moves, Sets, Indexing, Updating
  <2>6. CASE Store(t)
    <3>1. at[t] = "store" /\ Moves(t, "keys") /\ Sets(t, "changed") /\ UNCHANGED selected
      BY <2>6, StoreDoes DEF Store
    <3> QED
      BY <1>1, <3>1, KnownByPlace DEF Moves, Sets, Indexing, Updating
  <2>7. CASE ReadKeys(t)
    <3>1. /\ UNCHANGED selected
          /\ overlapped' = overlapped \cup OverlapIn(t, Updating, "updates")
      BY <2>7 DEF ReadKeys, index
    <3>2. ASSUME "updates" \notin overlapped', NEW u \in Threads \ {t} PROVE at[u] \notin Updating
      BY <3>1, <3>2 DEF OverlapIn
    <3>3. at[t] = "keys" /\ Moves(t, "load") /\ Sets(t, "previous")
      BY <2>7, ReadsDo
    <3> QED
      BY <1>1, <3>1, <3>2, <3>3 DEF Known, Moves, Sets, Indexing, Updating
  <2>8. CASE LoadAndEmbed(t)
    <3>1. at[t] = "load" /\ Moves(t, "save") /\ Sets(t, "loaded") /\ UNCHANGED selected
      BY <2>8, LoadDoes DEF LoadAndEmbed, index
    <3> QED
      BY <1>1, <3>1, KnownByPlace DEF Moves, Sets, Indexing, Updating
  <2>9. CASE Save(t)
    <3>1. at[t] = "save" /\ Moves(t, "mark") /\ UNCHANGED <<my, selected>>
      BY <2>9, Goes DEF Save, Go, Points, Indexing, Updating
    <3> QED
      BY <1>1, <3>1, KnownByPlace DEF Moves, Indexing, Updating
  <2>10. CASE WriteVectorManifest(t)
    <3>1. /\ at[t] = "mark" /\ Moves(t, "manifest") /\ UNCHANGED <<my, used>>
          /\ selected' = [profile |-> my[t].profile, keys |-> Listed(t)]
      BY <2>10, Goes DEF WriteVectorManifest, Go, Points, Indexing, history
    <3>2. at[t] \in Indexing
      BY <3>1 DEF Indexing, Updating
    <3>3. my[t].profile \in used /\ NoProfile \notin used
      BY <3>2, Names DEF Known, TypeOK
    <3> QED
      BY <1>1, <3>1, <3>3 DEF Known, Moves, Indexing, Updating
  <2>11. CASE UpdateFails(t)
    <3>1. /\ at[t] \in Updating /\ Moves(t, "manifest") /\ Sets(t, "ok")
          /\ selected' \in {selected, NoManifest}
      BY <2>11, FailDoes
    <3> QED
      BY <1>1, <3>1, KnownByPlace DEF Moves, Sets, Indexing, Updating
  <2> QED
    BY <1>3, <2>1, <2>2, <2>3, <2>4, <2>5, <2>6, <2>7, <2>8, <2>9, <2>10, <2>11
      DEF StepOf, IndexStep
<1>4. CASE EditPage
  BY <1>1, <1>4, KnownByPlace DEF EditPage, index
<1>5. CASE Crash
  <2>1. /\ \A u \in Threads : at'[u] = "idle"
        /\ selected' \in {selected, NoManifest}
    BY <1>5 DEF Crash, Interrupted
  <2> QED
    BY <1>1, <2>1, KnownByPlace DEF Indexing, Updating
<1> QED
  BY <1>2, <1>3, <1>4, <1>5 DEF Next, StepOf

\* A step that adds no row, after which nobody has stored, or is about to, that
\* did not before.
LEMMA ReadIsAllByPlace ==
  ASSUME ReadIsAll, overlapped \subseteq overlapped', Rows' \subseteq Rows,
         \A u \in Threads :
           /\ at'[u] = "store" => at[u] = "store" /\ my'[u].existing = my[u].existing
           /\ at'[u] \in Stored => at[u] \in Stored /\ my'[u].incoming = my[u].incoming
  PROVE  ReadIsAll'
BY DEF ReadIsAll

\* Only Store adds rows.
LEMMA RowsShrink ==
  ASSUME [Next]_vars, \A t \in Threads : ~Store(t)
  PROVE  Rows' \subseteq Rows
<1>1. CASE UNCHANGED vars
  BY <1>1 DEF vars, index, Rows
<1>2. CASE EditPage \/ Crash
  BY <1>2 DEF EditPage, Crash, index, Rows
<1>3. ASSUME NEW t \in Threads, StepOf(t)
      PROVE  Cascades \/ Store(t)
  BY <1>3, ThreadCascades DEF StepOf
<1> QED
  BY <1>1, <1>2, <1>3 DEF Next, StepOf, Cascades, Rows

LEMMA ReadIsAllKept ==
  ASSUME TypeOK, Sane, Known, ReadIsAll, [Next]_vars
  PROVE  ReadIsAll'
<1>1. overlapped \subseteq overlapped'
  BY HistoryGrows
<1>2. CASE UNCHANGED vars
  BY <1>1, <1>2, ReadIsAllByPlace DEF vars, index, Rows
<1>3. ASSUME NEW t \in Threads, StepOf(t), ~Store(t), ~ReadExisting(t)
      PROVE  ReadIsAll'
  <2>1. \A u \in Threads :
          /\ at'[u] = "store" => at[u] = "store" /\ my'[u].existing = my[u].existing
          /\ at'[u] \in Stored => at[u] \in Stored /\ my'[u].incoming = my[u].incoming
    <3>1. CASE Publish(t)
      BY <3>1, PublishDoes DEF Moves, Sets, Stored, Updating
    <3>2. CASE IngestGraph(t) \/ IngestWiki(t)
      <4>1. (Moves(t, "wiki") \/ Moves(t, "begin")) /\ UNCHANGED my
        BY <3>2, Goes DEF IngestGraph, IngestWiki, Go, Points
      <4> QED
        BY <4>1 DEF Moves, Stored, Updating
    <3>3. CASE StopIngestion(t) \/ StoreFails(t) \/ WriteManifest(t)
      <4>1. Leave(t)
        BY <3>3 DEF StopIngestion, StoreFails, WriteManifest
      <4> QED
        BY <4>1, LeaveDoes DEF Moves, Stored, Updating
    <3>4. CASE Begin(t)
      BY <3>4, BeginDoes DEF Moves, Stored, Updating
    <3>5. CASE ReadDocuments(t) \/ ReadNodes(t) \/ ReadKeys(t)
      BY <3>5, ReadsDo DEF Moves, Sets, Stored, Updating
    <3>6. CASE LoadAndEmbed(t)
      <4>1. at[t] = "load" /\ Moves(t, "save") /\ Sets(t, "loaded")
        BY <3>6, LoadDoes
      <4> QED
        BY <4>1 DEF Moves, Sets, Stored, Updating
    <3>7. CASE Save(t) \/ WriteVectorManifest(t)
      <4>1. /\ at[t] \in Stored /\ (Moves(t, "mark") \/ Moves(t, "manifest"))
            /\ UNCHANGED my
        BY <3>7, Goes DEF Save, WriteVectorManifest, Go, Stored, Points, Indexing, Updating
      <4> QED
        BY <4>1 DEF Moves, Stored, Updating
    <3>8. CASE UpdateFails(t)
      <4>1. Moves(t, "manifest") /\ Sets(t, "ok")
        BY <3>8, FailDoes
      <4> QED
        BY <4>1 DEF Moves, Sets, Stored, Updating
    <3> QED
      BY <1>3, <3>1, <3>2, <3>3, <3>4, <3>5, <3>6, <3>7, <3>8 DEF StepOf, IndexStep
  <2>2. Rows' \subseteq Rows
    BY <1>3, ThreadCascades DEF StepOf, Cascades, Rows
  <2> QED
    BY <1>1, <2>1, <2>2, ReadIsAllByPlace
<1>4. ASSUME NEW t \in Threads, ReadExisting(t)
      PROVE  ReadIsAll'
  <2>1. /\ at[t] = "existing" /\ Moves(t, "store") /\ Sets(t, "existing")
        /\ my'[t].existing = Rows /\ Rows' = Rows
    BY <1>4, ReadsDo DEF ReadExisting, index, Rows
  <2> QED
    BY <1>1, <2>1 DEF ReadIsAll, Moves, Sets, Stored, Updating
\* What others have read as absent is absent, and what it has read it deletes or keeps.
<1>5. ASSUME NEW t \in Threads, Store(t)
      PROVE  ReadIsAll'
  <2>1. /\ at[t] = "store" /\ Moves(t, "keys") /\ Sets(t, "changed")
        /\ rows' = [c \in Chunks |->
             IF c \in my[t].existing \ my[t].incoming THEN NoRow
             ELSE IF c \in my[t].incoming \ my[t].existing /\ rows[c] = NoRow
                  THEN Owner(t, c) ELSE rows[c]]
    BY <1>5, StoreDoes
  <2>2. Rows' \subseteq (Rows \ (my[t].existing \ my[t].incoming)) \cup my[t].incoming
    BY <2>1 DEF Rows
  <2> SUFFICES ASSUME overlapped' = {}, NEW u \in Threads
               PROVE  /\ at'[u] = "store" => Rows' \subseteq my'[u].existing
                      /\ at'[u] \in Stored => Rows' \subseteq my'[u].incoming
    BY DEF ReadIsAll
  <2>3. overlapped = {}
    BY <1>1
  <2>4. at[t] \in Indexing
    BY <2>1 DEF Indexing
  <2>5. CASE u # t
    <3>1. at[u] \notin Indexing
      BY <2>3, <2>4, <2>5 DEF Known
    <3>2. at'[u] = at[u]
      BY <2>1, <2>5 DEF Moves
    <3> QED
      BY <3>1, <3>2 DEF Stored, Indexing
  <2>6. CASE u = t
    <3>1. Rows \subseteq my[t].existing
      BY <2>1, <2>3 DEF ReadIsAll
    <3>2. my'[u].incoming = my[t].incoming /\ at'[u] = "keys"
      BY <2>1, <2>6 DEF Moves, Sets
    <3> QED
      BY <2>2, <3>1, <3>2
  <2> QED
    BY <2>5, <2>6
<1>6. CASE EditPage
  <2>1. UNCHANGED <<at, my>> /\ Rows' = Rows
    BY <1>6 DEF EditPage, index, Rows
  <2> QED
    BY <1>1, <2>1, ReadIsAllByPlace
<1>7. CASE Crash
  BY <1>7 DEF Crash, ReadIsAll, Stored, Updating
<1> QED
  BY <1>2, <1>3, <1>4, <1>5, <1>6, <1>7 DEF Next, StepOf

-----------------------------------------------------------------------------
(***************************************************************************)
(* Undisturbed calls.                                                      *)
(***************************************************************************)

\* The tables and the rows as an undisturbed call has found them.
Found == <<active, ingested, graph, page, rows>>

LEMMA SameWanted ==
  ASSUME UNCHANGED Found
  PROVE  /\ \A r : DocumentChunks(r)' = DocumentChunks(r)
         /\ Wanted' = Wanted
         /\ Rows' = Rows
BY DEF Found, Wanted, DocumentChunks, SymbolChunks, Rows

\* Who is busy while somebody is undisturbed, is that one.
LEMMA AloneIsMe ==
  ASSUME Undisturbed, NEW t \in Threads, at[t] # "idle"
  PROVE  alone \subseteq {t}
BY DEF Undisturbed

LEMMA UndisturbedKept ==
  ASSUME TypeOK, Sane, Undisturbed, [Next]_vars
  PROVE  Undisturbed'
<1> USE DEF Stored, Indexing, Updating
<1>1. ASSUME alone' = {} PROVE Undisturbed'
  BY <1>1 DEF Undisturbed
<1>2. CASE UNCHANGED vars
  <2>1. UNCHANGED Found /\ UNCHANGED <<alone, at, my>>
    BY <1>2 DEF vars, tables, index, history, Found
  <2> QED
    BY <2>1, SameWanted DEF Undisturbed, Found
<1>3. CASE EditPage \/ Crash
  BY <1>1, <1>3 DEF EditPage, Crash, Disturb, TypeOK
<1>4. ASSUME NEW t \in Threads, StepOf(t)
      PROVE  Undisturbed'
  <2>1. CASE Publish(t) \/ IngestGraph(t) \/ IngestWiki(t)
    BY <1>1, <2>1 DEF Publish, IngestGraph, IngestWiki, Disturb, TypeOK
  <2>2. CASE StopIngestion(t)
    <3>1. alone' = alone /\ at[t] \in {"graph", "wiki", "begin"}
      BY <2>2 DEF StopIngestion, history
    <3>2. alone = {}
      BY <3>1, AloneIsMe DEF Undisturbed
    <3> QED
      BY <1>1, <3>1, <3>2
  <2>3. CASE Begin(t)
    <3>1. /\ alone' = IF \A u \in Threads \ {t} : at[u] = "idle" THEN {t} ELSE {}
          /\ UNCHANGED Found
      BY <2>3 DEF Begin, tables, index, Found
    <3>2. /\ Moves(t, "documents") /\ my'[t].seen = active
      BY <2>3, BeginDoes
    <3> QED
      BY <3>1, <3>2 DEF Undisturbed, Moves, Found
  <2> DEFINE Same == UNCHANGED Found /\ UNCHANGED alone
  <2>4. CASE ReadDocuments(t)
    <3>1. Same
      BY <2>4 DEF ReadDocuments, tables, index, history, Found
    <3>2. /\ at[t] = "documents" /\ Moves(t, "nodes") /\ Sets(t, "incoming")
          /\ my'[t].incoming = DocumentChunks(my[t].seen)
      BY <2>4, ReadsDo
    <3>3. alone \subseteq {t}
      BY <3>2, AloneIsMe
    <3> QED
      BY <3>1, <3>2, <3>3, SameWanted DEF Undisturbed, Moves, Sets, Found
  <2>5. CASE ReadNodes(t)
    <3>1. Same
      BY <2>5 DEF ReadNodes, tables, index, history, Found
    <3>2. /\ at[t] = "nodes" /\ Moves(t, "existing") /\ Sets(t, "incoming")
          /\ my'[t].incoming = my[t].incoming \cup SymbolChunks(my[t].seen)
      BY <2>5, ReadsDo
    <3>3. alone \subseteq {t}
      BY <3>2, AloneIsMe
    <3>4. t \in alone => my'[t].incoming = Wanted
      BY <3>2 DEF Undisturbed, Wanted
    <3> QED
      BY <3>1, <3>2, <3>3, <3>4, SameWanted DEF Undisturbed, Moves, Sets, Found
  <2>6. CASE ReadExisting(t)
    <3>1. Same
      BY <2>6 DEF ReadExisting, tables, index, history, Found
    <3>2. /\ at[t] = "existing" /\ Moves(t, "store") /\ Sets(t, "existing")
          /\ my'[t].existing = Rows
      BY <2>6, ReadsDo
    <3>3. alone \subseteq {t}
      BY <3>2, AloneIsMe
    <3> QED
      BY <3>1, <3>2, <3>3, SameWanted DEF Undisturbed, Moves, Sets, Found
  <2>7. CASE Store(t)
    <3>1. /\ UNCHANGED tables /\ alone' = alone \cap {t}
      BY <2>7 DEF Store
    <3>2. /\ at[t] = "store" /\ Moves(t, "keys") /\ Sets(t, "changed")
          /\ rows' = [c \in Chunks |->
               IF c \in my[t].existing \ my[t].incoming THEN NoRow
               ELSE IF c \in my[t].incoming \ my[t].existing /\ rows[c] = NoRow
                    THEN Owner(t, c) ELSE rows[c]]
      BY <2>7, StoreDoes
    <3>3. Wanted' = Wanted
      BY <3>1 DEF tables, Wanted, DocumentChunks, SymbolChunks
    <3>4. t \in alone => Rows' = my[t].incoming
      <4> SUFFICES ASSUME t \in alone PROVE Rows' = my[t].incoming
        OBVIOUS
      <4>1. my[t].existing = Rows
        BY <3>2 DEF Undisturbed
      <4>2. my[t].incoming \in SUBSET Chunks
        BY FieldsTyped
      <4>3. \A c : Owner(t, c) # NoRow
        <5>1. my[t].seen # NoRow
          BY FieldsTyped, Names
        <5> QED
          BY <5>1 DEF Owner, NodeRow, Manual, NoRow
      <4> QED
        BY <3>2, <4>1, <4>2, <4>3 DEF Rows
    <3>5. t \in alone => my[t].incoming = Wanted /\ my[t].seen = active
      BY <3>2 DEF Undisturbed
    <3>6. active' = active
      BY <3>1 DEF tables
    <3> QED
      BY <3>1, <3>2, <3>3, <3>4, <3>5, <3>6 DEF Undisturbed, Moves, Sets
  <2>8. CASE StoreFails(t)
    <3>1. Same /\ Leave(t) /\ at[t] = "store"
      BY <2>8 DEF StoreFails, tables, index, history, Found
    <3>2. alone \subseteq {t}
      BY <3>1, AloneIsMe
    <3> QED
      BY <3>1, <3>2, LeaveDoes DEF Undisturbed, Moves
  <2>9. CASE ReadKeys(t)
    <3>1. Same
      BY <2>9 DEF ReadKeys, tables, index, Found
    <3>2. at[t] = "keys" /\ Moves(t, "load") /\ Sets(t, "previous")
      BY <2>9, ReadsDo
    <3>3. alone \subseteq {t}
      BY <3>2, AloneIsMe
    <3> QED
      BY <3>1, <3>2, <3>3, SameWanted DEF Undisturbed, Moves, Sets, Found
  <2>10. CASE LoadAndEmbed(t)
    <3>1. Same
      BY <2>10 DEF LoadAndEmbed, tables, index, history, Found
    <3>2. at[t] = "load" /\ Moves(t, "save") /\ Sets(t, "loaded")
      BY <2>10, LoadDoes
    <3>3. alone \subseteq {t}
      BY <3>2, AloneIsMe
    <3> QED
      BY <3>1, <3>2, <3>3, SameWanted DEF Undisturbed, Moves, Sets, Found
  <2>11. CASE Save(t) \/ WriteVectorManifest(t)
    <3>1. Same /\ UNCHANGED my
      BY <2>11 DEF Save, WriteVectorManifest, tables, history, Found
    <3>2. \/ at[t] = "save" /\ Moves(t, "mark")
          \/ at[t] = "mark" /\ Moves(t, "manifest")
      BY <2>11, Goes DEF Save, WriteVectorManifest, Go, Points
    <3>3. alone \subseteq {t}
      BY <3>2, AloneIsMe
    <3> QED
      BY <3>1, <3>2, <3>3, SameWanted DEF Undisturbed, Moves, Found
  <2>12. CASE UpdateFails(t)
    <3>1. Same
      BY <2>12 DEF UpdateFails, tables, history, Found
    <3>2. at[t] \in Updating /\ Moves(t, "manifest") /\ Sets(t, "ok")
      BY <2>12, FailDoes
    <3>3. alone \subseteq {t}
      BY <3>2, AloneIsMe
    <3> QED
      BY <3>1, <3>2, <3>3, SameWanted DEF Undisturbed, Moves, Sets, Found
  <2>13. CASE WriteManifest(t)
    <3>1. alone' = alone \ {t} /\ at[t] # "idle"
      BY <2>13 DEF WriteManifest
    <3> QED
      BY <1>1, <3>1, AloneIsMe
  <2> QED
    BY <1>4, <2>1, <2>2, <2>3, <2>4, <2>5, <2>6, <2>7, <2>8, <2>9, <2>10, <2>11, <2>12, <2>13
      DEF StepOf, IndexStep
<1> QED
  BY <1>2, <1>3, <1>4 DEF Next, StepOf

-----------------------------------------------------------------------------
(***************************************************************************)
(* Vectors.                                                                *)
(***************************************************************************)

Storing == {"keys", "load", "save"}
Places == {"store", "mark"} \cup Storing

\* A step that writes none of the files and adds no row, after which everybody
\* in a transaction or an update was there before, and who was past the
\* transaction still is.
LEMMA TrackedByPlace ==
  ASSUME TypeOK, Tracked, [Next]_vars, faults' = faults, UNCHANGED <<file, vectors, selected>>,
         Rows' \subseteq Rows,
         \A u \in Threads :
           /\ at'[u] \in Places => at'[u] = at[u] /\ my'[u] = my[u]
           /\ at[u] \in Storing \cup {"mark"} => at'[u] = at[u]
  PROVE  Tracked'
<1> SUFFICES ASSUME Consistent' PROVE VectorsKnown'
  BY DEF Tracked
<1>1. Consistent
  BY ConsistentBefore
<1>2. Lost' = Lost /\ Robust' = Robust
  BY DEF Lost, Robust
<1>3. Marking' <=> Marking
  BY DEF Marking, Places
<1>4. ASSUME NEW c \in Lost \cap Sections, ~Marking PROVE Recovered(c)'
  <2>1. Recovered(c)
    BY <1>1, <1>4 DEF Tracked, VectorsKnown
  <2>2. \A u \in Threads : at[u] \in Storing => at'[u] = at[u] /\ my'[u] = my[u]
    BY DEF Places
  <2>3. c \in Rows' => \E u \in Threads : at'[u] \in Storing /\ c \in my'[u].changed
    BY <2>1, <2>2 DEF Recovered, Storing
  <2>4. \A u \in Threads :
          /\ at'[u] = "store" => c \notin my'[u].existing
          /\ at'[u] \in Storing /\ c \in my'[u].incoming => c \in my'[u].changed
    BY <2>1 DEF Recovered, Places, Storing
  <2> QED
    BY <2>3, <2>4 DEF Recovered, Storing
<1>5. ASSUME NEW u \in Threads
      PROVE  /\ at'[u] = "load" => my'[u].previous = selected'.keys
             /\ at'[u] = "save" => Complete(u, my[u].loaded)'
             /\ at'[u] = "mark" => file' = "whole" /\ Complete(u, vectors)'
  <2>1. at'[u] \in {"load", "save", "mark"} => at'[u] = at[u] /\ my'[u] = my[u]
    BY DEF Places, Storing
  <2> QED
    BY <1>1, <1>2, <2>1 DEF Tracked, VectorsKnown, Complete
<1> QED
  BY <1>1, <1>2, <1>3, <1>4, <1>5 DEF Tracked, VectorsKnown

\* The steps that do not touch the vectors, but for the reading of the rows and
\* the transaction.
LEMMA QuietTracked ==
  ASSUME TypeOK, Sane, Tracked, [Next]_vars, NEW t \in Threads,
         \/ Publish(t) \/ IngestGraph(t) \/ IngestWiki(t) \/ StopIngestion(t)
         \/ Begin(t) \/ ReadDocuments(t) \/ ReadNodes(t) \/ StoreFails(t) \/ WriteManifest(t)
  PROVE  Tracked'
<1> USE DEF Places, Storing, Indexing, Updating
<1>1. UNCHANGED <<file, vectors, selected, faults>>
  BY DEF Publish, IngestGraph, IngestWiki, StopIngestion, Begin, ReadDocuments, ReadNodes,
    StoreFails, WriteManifest, index, bounds
<1>2. Rows' \subseteq Rows
  <2>1. UNCHANGED rows \/ Cascades
    BY ThreadCascades DEF StopIngestion, Begin, ReadDocuments, ReadNodes, StoreFails,
      WriteManifest, index
  <2> QED
    BY <2>1 DEF Rows, Cascades
<1>3. /\ at[t] \notin Storing \cup {"mark"}
      /\ at'[t] \notin Places
      /\ \A u \in Threads \ {t} : at'[u] = at[u] /\ my'[u] = my[u]
  <2>1. CASE Publish(t)
    BY <2>1, PublishDoes DEF Moves, Sets
  <2>2. CASE IngestGraph(t) \/ IngestWiki(t)
    <3>1. at[t] \in {"graph", "wiki"} /\ (Moves(t, "wiki") \/ Moves(t, "begin")) /\ UNCHANGED my
      BY <2>2, Goes DEF IngestGraph, IngestWiki, Go, Points
    <3> QED
      BY <3>1 DEF Moves
  <2>3. CASE StopIngestion(t) \/ StoreFails(t) \/ WriteManifest(t)
    <3>1. Leave(t) /\ at[t] \in {"graph", "wiki", "begin", "store", "manifest"}
      BY <2>3 DEF StopIngestion, StoreFails, WriteManifest
    <3> QED
      BY <3>1, LeaveDoes DEF Moves
  <2>4. CASE Begin(t)
    BY <2>4, BeginDoes DEF Moves
  <2>5. CASE ReadDocuments(t) \/ ReadNodes(t)
    <3>1. /\ at[t] \in {"documents", "nodes"}
          /\ (Moves(t, "nodes") \/ Moves(t, "existing")) /\ Sets(t, "incoming")
      BY <2>5, ReadsDo
    <3> QED
      BY <3>1 DEF Moves, Sets
  <2> QED
    BY <2>1, <2>2, <2>3, <2>4, <2>5
<1> QED
  BY <1>1, <1>2, <1>3, TrackedByPlace

\* With a fault, a thread in a call is the only one.
LEMMA OnlyCall ==
  ASSUME Known, overlapped = {}, NEW t \in Threads, at[t] \in Indexing
  PROVE  \A u \in Threads \ {t} : at[u] \notin Indexing
BY DEF Known

LEMMA OnlyUpdate ==
  ASSUME Known, Consistent, NEW t \in Threads, at[t] \in Updating
  PROVE  /\ \A u \in Threads \ {t} : at[u] \notin Updating
         /\ at[t] # "mark" => ~Marking
BY DEF Known, Consistent, Marking, Updating

\* A section that is lost when a call reads or writes the rows is not among them.
LEMMA LostHasNoRow ==
  ASSUME Known, Tracked, Consistent, ~Marking, NEW t \in Threads, at[t] \in {"existing", "store"},
         NEW c \in Lost \cap Sections
  PROVE  c \notin Rows /\ overlapped = {}
<1>1. faults # 0
  BY DEF Tracked, VectorsKnown
<1>2. overlapped = {}
  BY <1>1 DEF Consistent
<1>3. \A u \in Threads : at[u] \notin {"keys", "load", "save"}
  BY <1>2, OnlyCall DEF Indexing, Updating
<1>4. Recovered(c)
  BY DEF Tracked, VectorsKnown
<1> QED
  BY <1>2, <1>3, <1>4 DEF Recovered

LEMMA ReadExistingTracked ==
  ASSUME TypeOK, Known, Tracked, [Next]_vars, NEW t \in Threads, ReadExisting(t)
  PROVE  Tracked'
<1>1. /\ at[t] = "existing" /\ Moves(t, "store") /\ Sets(t, "existing")
      /\ my'[t].existing = Rows
  BY ReadsDo
<1>2. UNCHANGED <<rows, file, vectors, selected, faults>>
  BY DEF ReadExisting, index, bounds
<1> SUFFICES ASSUME Consistent' PROVE VectorsKnown'
  BY DEF Tracked
<1>3. Consistent
  BY ConsistentBefore
<1>4. Lost' = Lost /\ Robust' = Robust /\ Rows' = Rows /\ (Marking' <=> Marking)
  BY <1>1, <1>2 DEF Lost, Robust, Rows, Marking, Moves
<1>5. ASSUME NEW c \in Lost \cap Sections, ~Marking PROVE Recovered(c)'
  <2>1. Recovered(c)
    BY <1>3, <1>5 DEF Tracked, VectorsKnown
  <2>2. c \notin Rows
    BY <1>1, <1>3, <1>5, LostHasNoRow
  <2> QED
    BY <1>1, <1>4, <2>1, <2>2 DEF Recovered, Moves, Sets
<1>6. ASSUME NEW u \in Threads, at'[u] \in {"load", "save", "mark"}
      PROVE  at'[u] = at[u] /\ my'[u] = my[u]
  BY <1>1, <1>6 DEF Moves, Sets
<1> QED
  BY <1>2, <1>3, <1>4, <1>5, <1>6 DEF Tracked, VectorsKnown, Complete

LEMMA StoreTracked ==
  ASSUME TypeOK, Known, Tracked, [Next]_vars, NEW t \in Threads, Store(t)
  PROVE  Tracked'
<1>1. /\ at[t] = "store" /\ Moves(t, "keys") /\ Sets(t, "changed")
      /\ my'[t].changed = my[t].incoming \ my[t].existing
      /\ rows' = [c \in Chunks |->
           IF c \in my[t].existing \ my[t].incoming THEN NoRow
           ELSE IF c \in my[t].incoming \ my[t].existing /\ rows[c] = NoRow
                THEN Owner(t, c) ELSE rows[c]]
  BY StoreDoes
<1>2. UNCHANGED <<file, vectors, selected, faults>>
  BY DEF Store, bounds
<1> SUFFICES ASSUME Consistent' PROVE VectorsKnown'
  BY DEF Tracked
<1>3. Consistent
  BY ConsistentBefore
<1>4. Lost' = Lost /\ Robust' = Robust /\ (Marking' <=> Marking)
  BY <1>1, <1>2 DEF Lost, Robust, Marking, Moves
<1>5. Rows' \subseteq Rows \cup my'[t].changed
  BY <1>1 DEF Rows
\* It has no row, so the transaction finds it changed if it is wanted.
<1>6. ASSUME NEW c \in Lost \cap Sections, ~Marking PROVE Recovered(c)'
  <2>1. Recovered(c)
    BY <1>3, <1>6 DEF Tracked, VectorsKnown
  <2>2. c \notin Rows /\ overlapped = {}
    BY <1>1, <1>3, <1>6, LostHasNoRow
  <2>3. \A u \in Threads \ {t} : at'[u] = at[u] /\ at[u] \notin Indexing
    <3>1. at[t] \in Indexing
      BY <1>1 DEF Indexing
    <3> QED
      BY <1>1, <2>2, <3>1, OnlyCall DEF Moves
  <2>4. c \notin my[t].existing
    BY <1>1, <2>1 DEF Recovered
  <2>5. at'[t] = "keys" /\ my'[t].incoming = my[t].incoming
    BY <1>1 DEF Moves, Sets
  <2>6. c \in my'[t].incoming => c \in my'[t].changed
    BY <1>1, <2>4, <2>5
  <2> QED
    BY <1>5, <2>2, <2>3, <2>5, <2>6 DEF Recovered, Indexing, Updating
<1>7. ASSUME NEW u \in Threads, at'[u] \in {"load", "save", "mark"}
      PROVE  at'[u] = at[u] /\ my'[u] = my[u]
  BY <1>1, <1>7 DEF Moves, Sets
<1> QED
  BY <1>2, <1>3, <1>4, <1>6, <1>7 DEF Tracked, VectorsKnown, Complete

LEMMA ReadKeysTracked ==
  ASSUME TypeOK, Known, Tracked, [Next]_vars, NEW t \in Threads, ReadKeys(t)
  PROVE  Tracked'
<1>1. /\ at[t] = "keys" /\ Moves(t, "load") /\ Sets(t, "previous")
      /\ my'[t].previous = selected.keys
  BY ReadsDo
<1>2. UNCHANGED <<rows, file, vectors, selected, faults>>
  BY DEF ReadKeys, index, bounds
<1> SUFFICES ASSUME Consistent' PROVE VectorsKnown'
  BY DEF Tracked
<1>3. Consistent
  BY ConsistentBefore
<1>4. Lost' = Lost /\ Robust' = Robust /\ Rows' = Rows /\ (Marking' <=> Marking)
  BY <1>1, <1>2 DEF Lost, Robust, Rows, Marking, Moves
<1>5. ASSUME NEW c \in Lost \cap Sections, ~Marking PROVE Recovered(c)'
  <2>1. Recovered(c)
    BY <1>3, <1>5 DEF Tracked, VectorsKnown
  <2>2. \A u \in Threads : /\ my'[u].incoming = my[u].incoming /\ my'[u].changed = my[u].changed
                           /\ my'[u].existing = my[u].existing
                           /\ at[u] \in Storing <=> at'[u] \in Storing
                           /\ at'[u] = "store" => at[u] = "store"
    BY <1>1 DEF Moves, Sets, Storing
  <2> QED
    BY <1>4, <2>1, <2>2 DEF Recovered, Storing
<1>6. ASSUME NEW u \in Threads \ {t}, at'[u] \in {"load", "save", "mark"}
      PROVE  at'[u] = at[u] /\ my'[u] = my[u]
  BY <1>1, <1>6 DEF Moves, Sets
<1>7. at'[t] = "load" /\ my'[t].previous = selected'.keys
  BY <1>1, <1>2 DEF Moves
<1> QED
  BY <1>2, <1>3, <1>4, <1>5, <1>6, <1>7 DEF Tracked, VectorsKnown, Complete

\* What is not embedded anew has its vector already: it is listed and not lost.
LEMMA LoadTracked ==
  ASSUME TypeOK, Known, Tracked, [Next]_vars, NEW t \in Threads, LoadAndEmbed(t)
  PROVE  Tracked'
<1>1. /\ at[t] = "load" /\ Moves(t, "save") /\ Sets(t, "loaded")
      /\ my'[t].loaded = [c \in Chunks |->
           IF c \in ToEmbed(t) THEN my[t].profile
           ELSE IF c \in my[t].previous \ Embedded(my[t].incoming) THEN NoProfile
           ELSE (IF Compatible(t) THEN vectors ELSE NoVectors)[c]]
  BY LoadDoes
<1>2. UNCHANGED <<rows, file, vectors, selected, faults>>
  BY DEF LoadAndEmbed, index, bounds
<1> SUFFICES ASSUME Consistent' PROVE VectorsKnown'
  BY DEF Tracked
<1>3. Consistent
  BY ConsistentBefore
<1>4. ~Marking /\ \A u \in Threads \ {t} : at[u] \notin Updating
  BY <1>1, <1>3, OnlyUpdate DEF Updating
<1>5. Lost' = Lost /\ Robust' = Robust /\ Rows' = Rows
  BY <1>2 DEF Lost, Robust, Rows
<1>6. ASSUME NEW c \in Embedded(my[t].incoming) \cap Robust
      PROVE  my'[t].loaded[c] = my[t].profile
  <2>1. c \in my[t].incoming /\ c \in Chunks
    BY FieldsTyped, EmbeddedIsBetween
  <2>2. CASE c \in ToEmbed(t)
    BY <1>1, <2>1, <2>2
  <2>3. CASE c \notin ToEmbed(t)
    <3>1. /\ Compatible(t)
          /\ c \in my[t].previous /\ c \notin my[t].changed
      BY <1>6, <2>1, <2>3 DEF ToEmbed
    <3>2. c \in selected.keys
      BY <1>1, <1>3, <3>1 DEF Tracked, VectorsKnown
    <3>3. c \notin Lost
      <4>1. CASE faults = 0
        BY <1>3, <1>4, <4>1 DEF Tracked, VectorsKnown
      <4>2. CASE faults # 0
        <5>1. c \in Sections
          BY <1>6, <4>2 DEF Robust
        <5>2. ASSUME c \in Lost PROVE Recovered(c)
          BY <1>3, <1>4, <5>1, <5>2 DEF Tracked, VectorsKnown
        <5> QED
          BY <1>1, <2>1, <3>1, <5>2 DEF Recovered
      <4> QED
        BY <4>1, <4>2
    <3>4. vectors[c] = my[t].profile
      BY <3>1, <3>2, <3>3 DEF Lost, Compatible
    <3> QED
      BY <1>1, <1>6, <2>1, <2>3, <3>1, <3>4
  <2> QED
    BY <2>2, <2>3
<1>7. ASSUME NEW c \in Lost \cap Sections PROVE Recovered(c)'
  <2>1. Recovered(c)
    BY <1>3, <1>4, <1>7 DEF Tracked, VectorsKnown
  <2>2. \A u \in Threads : /\ my'[u].incoming = my[u].incoming /\ my'[u].changed = my[u].changed
                           /\ my'[u].existing = my[u].existing
                           /\ at[u] \in Storing <=> at'[u] \in Storing
                           /\ at'[u] = "store" => at[u] = "store"
    BY <1>1 DEF Moves, Sets, Storing
  <2> QED
    BY <1>5, <2>1, <2>2 DEF Recovered, Storing
<1>8. \A u \in Threads \ {t} : at'[u] \notin {"load", "save", "mark"}
  BY <1>1, <1>4 DEF Moves, Updating
<1>9. /\ at'[t] = "save" /\ my'[t].incoming = my[t].incoming /\ my'[t].profile = my[t].profile
  BY <1>1 DEF Moves, Sets
<1>10. Complete(t, my[t].loaded)'
  BY <1>5, <1>6, <1>9 DEF Complete
<1>11. faults = 0 => Lost = {}
  BY <1>3, <1>4 DEF Tracked, VectorsKnown
<1>12. file = "torn" => Lost \cap Sections = {}
  BY <1>3 DEF Tracked, VectorsKnown
<1> QED
  BY <1>2, <1>5, <1>7, <1>8, <1>9, <1>10, <1>11, <1>12 DEF VectorsKnown

LEMMA SaveTracked ==
  ASSUME TypeOK, Known, Tracked, [Next]_vars, NEW t \in Threads, Save(t)
  PROVE  Tracked'
<1>1. at[t] = "save" /\ Moves(t, "mark") /\ UNCHANGED my
  BY Goes DEF Save, Go, Points, Indexing, Updating
<1>2. file' = "whole" /\ vectors' = my[t].loaded /\ UNCHANGED <<selected, faults>>
  BY DEF Save, bounds
<1> SUFFICES ASSUME Consistent' PROVE VectorsKnown'
  BY DEF Tracked
<1>3. Consistent
  BY ConsistentBefore
<1>4. Marking'
  BY <1>1 DEF Marking, Moves
<1>5. \A u \in Threads \ {t} : at'[u] \notin {"load", "save", "mark"}
  BY <1>1, <1>3, OnlyUpdate DEF Moves, Updating
<1>6. Complete(t, my[t].loaded)
  BY <1>1, <1>3 DEF Tracked, VectorsKnown
<1>7. Complete(t, vectors)'
  BY <1>1, <1>2, <1>6 DEF Complete, Robust
<1> QED
  BY <1>1, <1>2, <1>4, <1>5, <1>7 DEF VectorsKnown, Moves

LEMMA MarkTracked ==
  ASSUME TypeOK, Known, Tracked, [Next]_vars, NEW t \in Threads, WriteVectorManifest(t)
  PROVE  Tracked'
<1>1. at[t] = "mark" /\ Moves(t, "manifest") /\ UNCHANGED my
  BY Goes DEF WriteVectorManifest, Go, Points, Indexing
<1>2. /\ selected' = [profile |-> my[t].profile, keys |-> Embedded(my[t].incoming)]
      /\ UNCHANGED <<file, vectors, faults>>
  BY DEF WriteVectorManifest, Listed, bounds
<1> SUFFICES ASSUME Consistent' PROVE VectorsKnown'
  BY DEF Tracked
<1>3. Consistent
  BY ConsistentBefore
<1>4. \A u \in Threads : at'[u] \notin {"load", "save", "mark"}
  BY <1>1, <1>3, OnlyUpdate DEF Moves, Updating
<1>5. file = "whole" /\ Complete(t, vectors)
  BY <1>1, <1>3 DEF Tracked, VectorsKnown
<1>6. Lost' \cap Robust = {}
  BY <1>2, <1>5 DEF Lost, Complete
<1>7. Lost' \subseteq Chunks
  BY <1>2, FieldsTyped, EmbeddedIsBetween DEF Lost
<1>8. faults' = 0 => Lost' = {}
  BY <1>2, <1>6, <1>7 DEF Robust
<1>9. Lost' \cap Sections = {}
  BY <1>6, ChunkSets DEF Robust
<1> QED
  BY <1>2, <1>4, <1>5, <1>8, <1>9 DEF VectorsKnown

\* What a fault finds: nothing is lost, unless it strikes between the file and its
\* manifest; then the lost sections have no row, as the only call wants all rows.
LEMMA FaultFinds ==
  ASSUME TypeOK, Known, ReadIsAll, Tracked, Consistent, faults = 0, overlapped = {},
         \A p, q \in used : p = q
  PROVE  \/ ~Marking /\ Lost = {}
         \/ Marking /\ file = "whole" /\ \A c \in Lost \cap Sections : c \notin Rows
<1>1. CASE ~Marking
  BY <1>1 DEF Tracked, VectorsKnown
<1>2. CASE Marking
  <2>1. PICK t \in Threads : at[t] = "mark"
    BY <1>2 DEF Marking
  <2>2. file = "whole" /\ Complete(t, vectors)
    BY <2>1 DEF Tracked, VectorsKnown
  <2>3. ASSUME NEW c \in Lost \cap Sections PROVE c \notin Rows
    <3>1. selected.profile \in used /\ my[t].profile \in used
      BY <2>1, <2>3 DEF Known, Lost, Indexing, Updating
    <3>2. selected.profile = my[t].profile
      BY <3>1
    <3>3. c \in Robust
      BY ChunkSets, <2>3 DEF Robust
    <3>4. c \notin Embedded(my[t].incoming)
      BY <2>2, <2>3, <3>2, <3>3 DEF Lost, Complete
    <3>5. c \notin my[t].incoming
      BY <2>3, <3>4, EmbeddedIsBetween
    <3> QED
      BY <2>1, <3>5 DEF ReadIsAll, Stored, Updating
  <2> QED
    BY <1>2, <2>2, <2>3
<1> QED
  BY <1>1, <1>2

LEMMA InterruptedLoses ==
  ASSUME TypeOK, NEW t \in Threads, Interrupted(t)
  PROVE  /\ vectors' = vectors
         /\ selected' \in {selected, NoManifest}
         /\ file' # file => at[t] = "save"
         /\ Lost' \subseteq Lost
<1>1. /\ vectors' = vectors
      /\ selected' \in {selected, NoManifest}
      /\ file' # file => at[t] = "save"
  BY DEF Interrupted
<1> QED
  BY <1>1 DEF Lost, NoManifest

LEMMA FailTracked ==
  ASSUME TypeOK, Known, ReadIsAll, Tracked, [Next]_vars, NEW t \in Threads, UpdateFails(t)
  PROVE  Tracked'
<1>1. /\ at[t] \in Updating /\ Moves(t, "manifest") /\ Sets(t, "ok")
  BY FailDoes
<1>2. Rows' = Rows
  BY DEF UpdateFails, Rows
<1>3. \/ faults' = faults + 1 /\ Interrupted(t)
      \/ /\ at[t] = "load" /\ file = "torn"
         /\ UNCHANGED <<file, vectors, selected, faults>>
  BY DEF UpdateFails
<1> SUFFICES ASSUME Consistent' PROVE VectorsKnown'
  BY DEF Tracked
<1>4. Consistent
  BY ConsistentBefore
<1>5. \A u \in Threads \ {t} : at[u] \notin Updating
  BY <1>1, <1>4, OnlyUpdate
<1>6. \A u \in Threads : at'[u] \notin {"load", "save", "mark"}
  BY <1>1, <1>5 DEF Moves, Updating
<1>7. CASE at[t] = "load" /\ file = "torn" /\ UNCHANGED <<file, vectors, selected, faults>>
  <2>1. ~Marking
    BY <1>1, <1>4, <1>7, OnlyUpdate
  <2>2. Lost' = Lost
    BY <1>7 DEF Lost
  <2> QED
    BY <1>4, <1>6, <1>7, <2>1, <2>2 DEF Tracked, VectorsKnown
<1>8. CASE faults' = faults + 1 /\ Interrupted(t)
  <2>1. faults' # faults /\ faults' # 0
    BY <1>8 DEF TypeOK
  <2>2. faults = 0 /\ overlapped = {} /\ \A p, q \in used : p = q
    BY <2>1, ConsistentBefore
  <2>3. \A c \in Lost' \cap Sections : c \notin Rows'
    BY <1>2, <1>4, <1>8, <2>2, FaultFinds, InterruptedLoses
  <2>4. \A u \in Threads : at'[u] \notin {"store"} \cup Storing
    <3>1. at[t] \in Indexing
      BY <1>1 DEF Indexing
    <3>2. \A u \in Threads \ {t} : at[u] \notin Indexing
      BY <2>2, <3>1, OnlyCall
    <3> QED
      BY <1>1, <3>2 DEF Moves, Storing, Indexing, Updating
  <2>5. \A c \in Lost' \cap Sections : Recovered(c)'
    BY <2>3, <2>4 DEF Recovered, Storing
  <2>6. ASSUME file' = "torn" PROVE Lost' = {}
    <3>1. CASE file = "torn"
      BY <1>4, <1>8, <2>2, <3>1, FaultFinds, InterruptedLoses
    <3>2. CASE file # "torn"
      <4>1. at[t] = "save"
        BY <1>8, <2>6, <3>2, InterruptedLoses
      <4>2. ~Marking
        BY <1>1, <1>4, <4>1, OnlyUpdate
      <4> QED
        BY <1>4, <1>8, <2>2, <4>2, FaultFinds, InterruptedLoses
    <3> QED
      BY <3>1, <3>2
  <2> QED
    BY <1>6, <2>1, <2>5, <2>6 DEF VectorsKnown
<1> QED
  BY <1>3, <1>7, <1>8

LEMMA CrashTracked ==
  ASSUME TypeOK, Known, ReadIsAll, Tracked, [Next]_vars, Crash
  PROVE  Tracked'
<1>1. PICK t \in Threads : Interrupted(t)
  BY DEF Crash
<1>2. faults' = faults + 1 /\ Rows' = Rows /\ \A u \in Threads : at'[u] = "idle"
  BY DEF Crash, Rows
<1> SUFFICES ASSUME Consistent' PROVE VectorsKnown'
  BY DEF Tracked
<1>3. Consistent
  BY ConsistentBefore
<1>4. faults' # faults /\ faults' # 0
  BY <1>2 DEF TypeOK
<1>5. faults = 0 /\ overlapped = {} /\ \A p, q \in used : p = q
  BY <1>4, ConsistentBefore
<1>6. \A c \in Lost' \cap Sections : c \notin Rows'
  BY <1>1, <1>2, <1>3, <1>5, FaultFinds, InterruptedLoses
<1>7. \A c \in Lost' \cap Sections : Recovered(c)'
  BY <1>2, <1>6 DEF Recovered
<1>8. ASSUME file' = "torn" PROVE Lost' = {}
  <2>1. CASE file = "torn"
    BY <1>1, <1>3, <1>5, <2>1, FaultFinds, InterruptedLoses
  <2>2. CASE file # "torn"
    <3>1. at[t] = "save"
      BY <1>1, <1>8, <2>2, InterruptedLoses
    <3>2. ~Marking
      BY <1>3, <3>1, OnlyUpdate DEF Updating
    <3> QED
      BY <1>1, <1>3, <1>5, <3>2, FaultFinds, InterruptedLoses
  <2> QED
    BY <2>1, <2>2
<1> QED
  BY <1>2, <1>4, <1>7, <1>8 DEF VectorsKnown

LEMMA TrackedKept ==
  ASSUME TypeOK, Sane, Known, ReadIsAll, Tracked, [Next]_vars
  PROVE  Tracked'
<1>1. CASE UNCHANGED vars
  <2>1. UNCHANGED <<at, my, file, vectors, selected, faults>> /\ Rows' = Rows
    BY <1>1 DEF vars, index, bounds, Rows
  <2> QED
    BY <2>1, TrackedByPlace
<1>2. CASE EditPage
  <2>1. UNCHANGED <<at, my, file, vectors, selected, faults>> /\ Rows' = Rows
    BY <1>2 DEF EditPage, index, Rows
  <2> QED
    BY <2>1, TrackedByPlace
<1>3. ASSUME NEW t \in Threads, StepOf(t)
      PROVE  Tracked'
  BY <1>3, QuietTracked, ReadExistingTracked, StoreTracked, ReadKeysTracked, LoadTracked,
    SaveTracked, MarkTracked, FailTracked DEF StepOf, IndexStep
<1> QED
  BY <1>1, <1>2, <1>3, CrashTracked DEF Next, StepOf

-----------------------------------------------------------------------------
(***************************************************************************)
(* The outcome.                                                            *)
(***************************************************************************)

LEMMA FinishedKept ==
  ASSUME IInv, [Next]_vars
  PROVE  Finished'
<1> USE DEF IInv
<1>1. ASSUME alone' = {}, settled' = FALSE PROVE Finished'
  BY <1>1 DEF Finished
<1>2. CASE UNCHANGED vars
  <2>1. UNCHANGED Found /\ UNCHANGED <<at, my, alone, settled, profile, file, vectors, selected,
                                       overlapped, used, faults>>
    BY <1>2 DEF vars, tables, index, history, bounds, Found
  <2>2. Wanted' = Wanted /\ Rows' = Rows
    BY <2>1, SameWanted
  <2> QED
    BY <2>1, <2>2 DEF Finished, Outcome, Consistent, Robust
<1>3. CASE EditPage \/ Crash
  BY <1>1, <1>3 DEF EditPage, Crash, Disturb, TypeOK
<1>4. ASSUME NEW t \in Threads, StepOf(t)
      PROVE  Finished'
  <2>1. CASE Publish(t) \/ IngestGraph(t) \/ IngestWiki(t)
    BY <1>1, <2>1 DEF Publish, IngestGraph, IngestWiki, Disturb, TypeOK
  <2>2. CASE Begin(t)
    <3>1. alone' \subseteq {t} /\ settled' = FALSE
      BY <2>2 DEF Begin
    <3>2. at'[t] = "documents"
      BY <2>2, BeginDoes DEF Moves
    <3> QED
      BY <3>1, <3>2 DEF Finished
  <2>3. CASE at[t] # "idle" /\ settled' = settled /\ alone' \subseteq alone /\ at'[t] # "manifest"
    <3>1. settled = FALSE
      BY <2>3 DEF Finished, TypeOK
    <3>2. alone' \subseteq {t}
      BY <2>3, AloneIsMe
    <3> QED
      BY <2>3, <3>1, <3>2 DEF Finished
  <2>4. CASE StopIngestion(t) \/ StoreFails(t)
    <3>1. /\ UNCHANGED <<alone, settled>> /\ Leave(t)
          /\ at[t] \in {"graph", "wiki", "begin", "store"}
      BY <2>4 DEF StopIngestion, StoreFails, history
    <3> QED
      BY <2>3, <3>1, LeaveDoes DEF Moves
  <2>5. CASE ReadDocuments(t) \/ ReadNodes(t) \/ ReadExisting(t) \/ ReadKeys(t)
    <3>1. UNCHANGED <<alone, settled>>
      BY <2>5 DEF ReadDocuments, ReadNodes, ReadExisting, ReadKeys, history
    <3> QED
      BY <2>3, <2>5, <3>1, ReadsDo DEF Moves
  <2>6. CASE Store(t)
    <3>1. settled' = settled /\ alone' = alone \cap {t}
      BY <2>6 DEF Store
    <3> QED
      BY <2>3, <2>6, <3>1, StoreDoes DEF Moves
  <2>7. CASE LoadAndEmbed(t) \/ Save(t)
    <3>1. /\ UNCHANGED <<alone, settled>> /\ at[t] \in {"load", "save"}
          /\ Moves(t, "save") \/ Moves(t, "mark")
      BY <2>7, Goes DEF LoadAndEmbed, Save, Go, history, Points, Indexing, Updating
    <3> QED
      BY <2>3, <3>1 DEF Moves
  <2>8. CASE WriteVectorManifest(t)
    <3>1. at[t] = "mark" /\ UNCHANGED <<my, alone, settled, file, vectors, overlapped, used, faults>>
      BY <2>8 DEF WriteVectorManifest, Go, history, bounds
    <3>2. selected' = [profile |-> my[t].profile, keys |-> Embedded(my[t].incoming)]
      BY <2>8 DEF WriteVectorManifest, Listed
    <3>3. settled = FALSE
      BY <3>1 DEF Finished, TypeOK
    <3>4. alone \subseteq {t}
      BY <3>1, AloneIsMe
    <3>5. Consistent' => file = "whole" /\ Complete(t, vectors)
      BY <3>1, ConsistentBefore DEF Tracked, VectorsKnown
    <3>6. Robust' = Robust
      BY <3>1 DEF Robust
    <3>7. Outcome(my[t].profile, my[t].incoming)'
      BY <3>1, <3>2, <3>5, <3>6 DEF Outcome, Complete
    <3> QED
      BY <3>1, <3>3, <3>4, <3>7 DEF Finished
  <2>9. CASE UpdateFails(t)
    <3>1. at[t] \in Updating /\ my'[t].ok = FALSE
      BY <2>9, FailDoes
    <3>2. UNCHANGED <<alone, settled>>
      BY <2>9 DEF UpdateFails, history
    <3>3. at[t] # "idle"
      BY <3>1 DEF Updating
    <3>4. settled = FALSE
      BY <3>3 DEF Finished, TypeOK
    <3> QED
      BY <3>1, <3>2, <3>3, <3>4, AloneIsMe DEF Finished
  <2>10. CASE WriteManifest(t)
    <3>1. /\ at[t] = "manifest" /\ Leave(t) /\ profile' = my[t].profile
          /\ settled' = (t \in alone /\ my[t].ok) /\ alone' = alone \ {t}
          /\ UNCHANGED <<file, vectors, selected, overlapped, used, faults>> /\ UNCHANGED Found
      BY <2>10 DEF WriteManifest, tables, bounds, Found
    <3>2. alone' = {}
      BY <3>1, AloneIsMe
    <3>3. Wanted' = Wanted /\ Rows' = Rows /\ Robust' = Robust
      BY <3>1, SameWanted DEF Robust
    <3>4. ASSUME settled' PROVE (\A u \in Threads : at'[u] = "idle") /\ Rows' = Wanted'
                                /\ Outcome(profile, Wanted)'
      <4>1. t \in alone /\ my[t].ok
        BY <3>1, <3>4
      <4>2. /\ \A u \in Threads \ {t} : at[u] = "idle"
            /\ my[t].incoming = Wanted /\ Rows = Wanted
        BY <3>1, <4>1 DEF Undisturbed
      <4>3. \A u \in Threads : at'[u] = "idle"
        BY <3>1, <4>2, LeaveDoes DEF Moves
      <4>4. Outcome(my[t].profile, Wanted)
        BY <3>1, <4>1, <4>2 DEF Finished
      <4>5. Outcome(profile, Wanted)'
        BY <3>1, <3>3, <4>4 DEF Outcome, Consistent
      <4> QED
        BY <3>3, <4>2, <4>3, <4>5
    <3> QED
      BY <3>2, <3>4 DEF Finished
  <2> QED
    BY <1>4, <2>1, <2>2, <2>4, <2>5, <2>6, <2>7, <2>8, <2>9, <2>10 DEF StepOf, IndexStep
<1> QED
  BY <1>2, <1>3, <1>4 DEF Next, StepOf

LEMMA InitIInv == Init => IInv
<1> SUFFICES ASSUME Init PROVE IInv
  OBVIOUS
<1>1. TypeOK /\ Sane
  BY InitTyped
<1>2. Known /\ ReadIsAll /\ Undisturbed
  BY DEF Init, Known, ReadIsAll, Undisturbed, NoManifest, Indexing, Updating, Stored
<1>3. Tracked
  BY DEF Init, Tracked, VectorsKnown, Lost, NoManifest
<1>4. Finished
  BY DEF Init, Finished
<1> QED
  BY <1>1, <1>2, <1>3, <1>4 DEF IInv

LEMMA NextIInv == IInv /\ [Next]_vars => IInv'
<1> SUFFICES ASSUME IInv, [Next]_vars PROVE IInv'
  OBVIOUS
<1>1. TypeOK' /\ Sane'
  BY NextTyped DEF IInv
<1>2. Known' /\ ReadIsAll' /\ Undisturbed'
  BY KnownKept, ReadIsAllKept, UndisturbedKept DEF IInv
<1>3. Tracked' /\ Finished'
  BY TrackedKept, FinishedKept DEF IInv
<1> QED
  BY <1>1, <1>2, <1>3 DEF IInv

LEMMA IInvImplies == IInv => IndexIsCurrent /\ NothingForgotten
<1> SUFFICES ASSUME IInv PROVE IndexIsCurrent /\ NothingForgotten
  OBVIOUS
<1>1. IndexIsCurrent
  BY DEF IInv, Finished, Outcome, IndexIsCurrent
<1>2. NothingForgotten
  <2> SUFFICES ASSUME Consistent, \A t \in Threads : at[t] \notin {"keys"} \cup Updating,
                      NEW c \in Rows \cap selected.keys \cap Robust
               PROVE  c \notin Lost
    BY DEF NothingForgotten, Lost
  <2>1. ~Marking
    BY DEF Marking, Updating
  <2>2. CASE faults = 0
    BY <2>1, <2>2 DEF IInv, Tracked, VectorsKnown
  <2>3. CASE faults # 0
    <3>1. c \in Sections
      BY <2>3 DEF Robust
    <3>2. ~Recovered(c)
      BY DEF Recovered, Updating
    <3> QED
      BY <2>1, <3>1, <3>2 DEF IInv, Tracked, VectorsKnown
  <2> QED
    BY <2>2, <2>3
<1> QED
  BY <1>1, <1>2

LEMMA Invariance == Spec => []IInv
BY InitIInv, NextIInv, PTL DEF Spec

\* After an index call that nothing disturbed, rows, vectors and manifests agree
\* with the tables: the incremental update of the vectors misses nothing, however
\* many activations, edits, changes of the profile and interleaved calls came
\* before, or one crash or failed update at any step.
THEOREM UpdatesAreComplete == Spec => []IndexIsCurrent
BY Invariance, IInvImplies, PTL

\* A section that the manifest lists and the table has keeps its vector, so the
\* next update, which trusts the manifest, forgets none.
THEOREM SectionsAreKept == Spec => []NothingForgotten
BY Invariance, IInvImplies, PTL

=============================================================================
