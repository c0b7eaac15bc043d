----------------------------- MODULE VectorIndex -----------------------------
(***************************************************************************)
(* The graph_vids index of hugegraph-llm on Faiss: a file of vectors and a *)
(* pickled list of the vertex ids they were made from                      *)
(* (indices/vector_index/faiss_vector_store.py), kept up to date by        *)
(* rebuilds (operators/index_op/build_semantic_index.py), read by queries  *)
(* (operators/index_op/semantic_id_query.py) and removed by clean.  None   *)
(* of them takes a lock, and the process may die at any moment.            *)
(*                                                                         *)
(* A vector is named by the vertex id it was made from, so a file is a     *)
(* sequence of ids.  A file that is being written cannot be read.  The     *)
(* dimension of the embeddings does not change.                            *)
(***************************************************************************)
EXTENDS Naturals, FiniteSets, Sequences, SequencesExt

CONSTANTS Vid,         \* vertex ids
          Rebuilder,   \* callers of update_vid_embedding
          Query,       \* callers of SemanticIdQuery
          Missing,     \* no such file
          Partial,     \* a file opened for writing and not closed
          MaxRebuilds, \* bound on the rebuilds started
          MaxCrashes   \* bound on the deaths of the process

ASSUME VectorAssumption ==
  /\ Rebuilder \cap Query = {}
  /\ Missing # Partial
  /\ {Missing, Partial} \cap Seq(Vid) = {}
  /\ MaxRebuilds \in Nat
  /\ MaxCrashes \in Nat

Task == Rebuilder \cup Query

VARIABLES
  indexFile, \* index.faiss
  propFile,  \* properties.pkl
  pc,        \* what each task does next
  cleaning,  \* is clean between its two removals?
  rows,      \* the vectors of each task's FaissVectorIndex
  props,     \* its properties
  present,   \* what a rebuild has fetched from the graph
  alone,     \* has nobody else written since the task began to load?
  rebuilds,  \* rebuilds started
  crashes

files == <<indexFile, propFile>>
memory == <<rows, props, present>>
vars == <<files, pc, cleaning, memory, alone, rebuilds, crashes>>

Saving == {"saveIndex", "indexOpen", "saveProps", "propsOpen"}
Stages == Saving \cup {"idle", "load", "readIndex", "readProps", "loaded", "embed"}

TypeOK ==
  /\ indexFile \in Seq(Vid) \cup {Missing, Partial}
  /\ propFile \in Seq(Vid) \cup {Missing, Partial}
  /\ pc \in [Task -> Stages]
  /\ cleaning \in BOOLEAN
  /\ rows \in [Task -> Seq(Vid)]
  /\ props \in [Task -> Seq(Vid)]
  /\ present \in [Task -> SUBSET Vid]
  /\ alone \in [Task -> BOOLEAN]
  /\ rebuilds \in 0 .. MaxRebuilds
  /\ crashes \in 0 .. MaxCrashes

Init ==
  /\ indexFile = Missing
  /\ propFile = Missing
  /\ pc = [t \in Task |-> "idle"]
  /\ cleaning = FALSE
  /\ rows = [t \in Task |-> <<>>]
  /\ props = [t \in Task |-> <<>>]
  /\ present = [t \in Task |-> {}]
  /\ alone = [t \in Task |-> FALSE]
  /\ rebuilds = 0
  /\ crashes = 0

Goto(t, stage) == pc' = [pc EXCEPT ![t] = stage]

\* A task that ends forgets its index.
Ends(t) ==
  /\ Goto(t, "idle")
  /\ rows' = [rows EXCEPT ![t] = <<>>]
  /\ props' = [props EXCEPT ![t] = <<>>]
  /\ present' = [present EXCEPT ![t] = {}]

Settled == ~cleaning /\ (\A t \in Task : pc[t] \notin Saving) /\ indexFile = propFile

\* fetch_graph_data: up to v_limit vertices of a graph that others change.
Fetch(t) ==
  /\ t \in Rebuilder
  /\ pc[t] = "idle"
  /\ rebuilds < MaxRebuilds
  /\ rebuilds' = rebuilds + 1
  /\ \E vids \in SUBSET Vid :
       IsFiniteSet(vids) /\ present' = [present EXCEPT ![t] = vids]
  /\ Goto(t, "load")
  /\ UNCHANGED <<files, cleaning, rows, props, alone, crashes>>

StartQuery(t) ==
  /\ t \in Query
  /\ pc[t] = "idle"
  /\ Goto(t, "load")
  /\ UNCHANGED <<files, cleaning, memory, alone, rebuilds, crashes>>

\* from_name: a new index unless both files exist.
Exists(t) ==
  /\ pc[t] = "load"
  /\ alone' = [alone EXCEPT ![t] = Settled]
  /\ Goto(t, IF Missing \in {indexFile, propFile} THEN "loaded" ELSE "readIndex")
  /\ UNCHANGED <<files, cleaning, memory, rebuilds, crashes>>

\* Mutation: a properties file that cannot be read is taken as it is.
ReadPropsUnchecked(t) ==
  /\ pc[t] = "readProps"
  /\ props' = [props EXCEPT ![t] = propFile]
  /\ Goto(t, "loaded")
  /\ UNCHANGED <<files, cleaning, rows, present, alone, rebuilds, crashes>>

Readable(file) == file \notin {Missing, Partial}

ReadIndex(t) ==
  /\ pc[t] = "readIndex"
  /\ Readable(indexFile)
  /\ rows' = [rows EXCEPT ![t] = indexFile]
  /\ Goto(t, "readProps")
  /\ UNCHANGED <<files, cleaning, props, present, alone, rebuilds, crashes>>

ReadProps(t) ==
  /\ pc[t] = "readProps"
  /\ Readable(propFile)
  /\ props' = [props EXCEPT ![t] = propFile]
  /\ Goto(t, "loaded")
  /\ UNCHANGED <<files, cleaning, rows, present, alone, rebuilds, crashes>>

\* faiss.read_index, open or pkl.load raises, and the task ends.
ReadFails(t) ==
  /\ \/ pc[t] = "readIndex" /\ ~Readable(indexFile)
     \/ pc[t] = "readProps" /\ ~Readable(propFile)
  /\ Ends(t)
  /\ UNCHANGED <<files, cleaning, alone, rebuilds, crashes>>

\* A query searches its own copy.
Search(t) ==
  /\ t \in Query
  /\ pc[t] = "loaded"
  /\ Ends(t)
  /\ UNCHANGED <<files, cleaning, alone, rebuilds, crashes>>

\* The n-th of a set of positions.
Nth(at, n) == CHOOSE i \in at : Cardinality({j \in at : j <= i}) = n

\* What is left of s without the positions in at, in its order.
Without(s, at) ==
  LET kept == DOMAIN s \ at
  IN [n \in 1 .. Cardinality(kept) |-> s[Nth(kept, n)]]

\* Mutation: the vectors stay.
RemoveFromProps(t, vids) ==
  LET at == {i \in DOMAIN props[t] : props[t][i] \in vids}
  IN /\ props' = [props EXCEPT ![t] = Without(@, at)]
     /\ UNCHANGED rows

\* FaissVectorIndex.remove: positions are found in the properties.
RemoveVids(t, vids) ==
  LET at == {i \in DOMAIN props[t] : props[t][i] \in vids}
  IN /\ props' = [props EXCEPT ![t] = Without(@, at)]
     /\ rows' = [rows EXCEPT ![t] = Without(@, at)]

Past(t) == ToSet(props[t])

\* Mutation: whatever is present is added.
AddedAll(t) == present[t]

Added(t) == present[t] \ Past(t)

\* BuildSemanticIndex.run with nothing to add: what was removed, was removed
\* from the copy only.
NothingAdded(t) ==
  /\ t \in Rebuilder
  /\ pc[t] = "loaded"
  /\ Added(t) = {}
  /\ Ends(t)
  /\ UNCHANGED <<files, cleaning, alone, rebuilds, crashes>>

\* Mutation: the last of the batches is lost.
EmbedLosesLast(t, vids) ==
  /\ props' = [props EXCEPT ![t] = @ \o Front(vids)]
  /\ rows' = [rows EXCEPT ![t] = @ \o Front(vids)]

\* FaissVectorIndex.add.
AddVids(t, vids) ==
  /\ props' = [props EXCEPT ![t] = @ \o vids]
  /\ rows' = [rows EXCEPT ![t] = @ \o vids]

Diff(t) ==
  /\ t \in Rebuilder
  /\ pc[t] = "loaded"
  /\ Added(t) # {}
  /\ RemoveVids(t, Past(t) \ present[t])
  /\ Goto(t, "embed")
  /\ UNCHANGED <<files, cleaning, present, alone, rebuilds, crashes>>

\* The order of the added ids is that of a Python set.
Embed(t) ==
  /\ pc[t] = "embed"
  /\ \E vids \in SetToSeqs(Added(t)) : AddVids(t, vids)
  /\ Goto(t, "saveIndex")
  /\ UNCHANGED <<files, cleaning, present, alone, rebuilds, crashes>>

EmbedFails(t) ==
  /\ pc[t] = "embed"
  /\ Ends(t)
  /\ UNCHANGED <<files, cleaning, alone, rebuilds, crashes>>

\* Who writes a file, or clean when nobody does, disturbs everyone else.
Disturb(others) == alone' = [t \in Task |-> alone[t] /\ t \notin others]

\* save_index_by_name: one file, then the other; each is opened, which
\* truncates it, and written.
OpenIndex(t) ==
  /\ pc[t] = "saveIndex"
  /\ indexFile' = Partial
  /\ Goto(t, "indexOpen")
  /\ Disturb(Task \ {t})
  /\ UNCHANGED <<propFile, cleaning, memory, rebuilds, crashes>>

WriteIndex(t) ==
  /\ pc[t] = "indexOpen"
  /\ indexFile' = rows[t]
  /\ Goto(t, "saveProps")
  /\ Disturb(Task \ {t})
  /\ UNCHANGED <<propFile, cleaning, memory, rebuilds, crashes>>

OpenProps(t) ==
  /\ pc[t] = "saveProps"
  /\ propFile' = Partial
  /\ Goto(t, "propsOpen")
  /\ Disturb(Task \ {t})
  /\ UNCHANGED <<indexFile, cleaning, memory, rebuilds, crashes>>

WriteProps(t) ==
  /\ pc[t] = "propsOpen"
  /\ propFile' = props[t]
  /\ Ends(t)
  /\ Disturb(Task \ {t})
  /\ UNCHANGED <<indexFile, cleaning, rebuilds, crashes>>

\* FaissVectorIndex.clean: one file, then the other.
CleanIndex ==
  /\ ~cleaning
  /\ indexFile' = Missing
  /\ cleaning' = TRUE
  /\ Disturb(Task)
  /\ UNCHANGED <<propFile, pc, memory, rebuilds, crashes>>

CleanProps ==
  /\ cleaning
  /\ propFile' = Missing
  /\ cleaning' = FALSE
  /\ Disturb(Task)
  /\ UNCHANGED <<indexFile, pc, memory, rebuilds, crashes>>

\* The process dies and starts again; the files stay as they are.
Crash ==
  /\ crashes < MaxCrashes
  /\ crashes' = crashes + 1
  /\ pc' = [t \in Task |-> "idle"]
  /\ cleaning' = FALSE
  /\ rows' = [t \in Task |-> <<>>]
  /\ props' = [t \in Task |-> <<>>]
  /\ present' = [t \in Task |-> {}]
  /\ Disturb(Task)
  /\ UNCHANGED <<files, rebuilds>>

Load(t) == Exists(t) \/ ReadIndex(t) \/ ReadProps(t) \/ ReadFails(t)
Rebuild(t) == Fetch(t) \/ NothingAdded(t) \/ Diff(t) \/ Embed(t) \/ EmbedFails(t)
Save(t) == OpenIndex(t) \/ WriteIndex(t) \/ OpenProps(t) \/ WriteProps(t)

Next ==
  \/ \E t \in Task : Load(t) \/ Rebuild(t) \/ Save(t) \/ StartQuery(t) \/ Search(t)
  \/ CleanIndex
  \/ CleanProps
  \/ Crash

Spec == Init /\ [][Next]_vars

-----------------------------------------------------------------------------

\* The ids the properties file names.
Stored == IF Readable(propFile) THEN ToSet(propFile) ELSE {}

\* Vectors and properties in memory belong together, position by position, for
\* every task that nobody disturbed: a pair that does not match takes a second
\* writer, clean or a reader in the middle of a save, or the files such a one
\* or a crash has left (save_index_by_name and from_name; search answers with
\* properties[i] for vector i).
MatchedUnlessDisturbed ==
  \A t \in Task :
    pc[t] \in {"loaded", "embed"} \cup Saving /\ alone[t] => rows[t] = props[t]

\* No interleaving of rebuilds, cleans and crashes brings a vertex into the
\* properties twice, not even on files that do not match (added_vids is what
\* is not in past_vids).
NoDuplicates ==
  /\ Readable(propFile) => IsInjective(propFile)
  /\ \A t \in Task : IsInjective(props[t])

\* A rebuild that ends undisturbed leaves files that match and cover every
\* vertex it has fetched; if it saved, nothing but these (run in
\* build_semantic_index.py, which saves only when vertices were added).
RebuildRight ==
  [][\A t \in Rebuilder :
       /\ NothingAdded(t) /\ alone[t] => indexFile = propFile /\ present[t] \subseteq Stored
       /\ WriteProps(t) /\ alone[t] => indexFile' = propFile' /\ Stored' = present[t]]_vars
==============================================================================
