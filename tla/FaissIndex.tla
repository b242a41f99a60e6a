------------------------------ MODULE FaissIndex ------------------------------
(***************************************************************************)
(* The on-disk index of one corpus: generate_embeddings and                *)
(* semantic_search over models/faiss_index.py.  Queries of a session run   *)
(* in thread-pool threads, so several calls for one corpus_ref overlap.    *)
(* The index is two files, written one after the other without a lock,     *)
(* and its existence is what makes it "valid/cached".                      *)
(*                                                                         *)
(* Whatever thread writes a file writes the same bytes: both files are     *)
(* functions of the corpus.  So a file is absent, partial or whole.        *)
(***************************************************************************)
EXTENDS Naturals

CONSTANTS
  Calls,         \* tool calls for the corpus, each in a thread of its own
  Nobody,
  MaxCrashes,    \* bound: how often the process crashes
  MaxFailures    \* bound: how often encoding or writing raises

ASSUME CallersAssumption == Nobody \notin Calls
ASSUME BoundsAssumption == MaxCrashes \in Nat /\ MaxFailures \in Nat

VARIABLES
  loaded,    \* corpus_store holds the corpus; a restarted process does not
  index,     \* <corpus_ref>.index
  ids,       \* <corpus_ref>.ids.json
  tool,      \* per call: the tool
  pc,        \* per call: its step, or how it ended
  before,    \* per call, history variable: the calls that had ended when it started
  crashes, failures

vars == <<loaded, index, ids, tool, pc, before, crashes, failures>>

Tools == {"generate_embeddings", "semantic_search"}
Steps == {"start", "check", "encode", "open_index", "write_index", "open_ids", "write_ids",
          "read_index", "read_ids", "search"}

\* A result (built or cached, hits), a ValueError (no index yet, ids that are no JSON),
\* any other exception, or a thread that died with the process.
Returned == {"built", "cached", "hits"}
Ended    == Returned \cup {"no_index", "torn_ids", "torn_index", "corpus_lost", "raised", "crashed"}

\* "by" is the call that opened the file last and so truncated it.
Files  == [content : {"absent", "partial", "whole"}, by : Calls \cup {Nobody}]
Absent == [content |-> "absent", by |-> Nobody]

Init ==
  /\ loaded = TRUE /\ index = Absent /\ ids = Absent
  /\ tool \in [Calls -> Tools]
  /\ pc = [c \in Calls |-> "not_called"] /\ before = [c \in Calls |-> {}]
  /\ crashes = 0 /\ failures = 0

Finished == {c \in Calls : pc[c] \in Ended}
InFlight(c) == pc[c] \in Steps

Goto(c, from, to) == pc[c] = from /\ pc' = [pc EXCEPT ![c] = to]

Call(c) ==
  /\ Goto(c, "not_called", "start") /\ before' = [before EXCEPT ![c] = Finished]
  /\ UNCHANGED <<loaded, index, ids, tool, crashes, failures>>

\* Both tools resolve the corpus first, before they look at the disk.
GetCorpus(c) ==
  /\ Goto(c, "start", IF loaded THEN "check" ELSE "corpus_lost")
  /\ UNCHANGED <<loaded, index, ids, tool, before, crashes, failures>>

Exists(file) == file.content # "absent"

\* Mutant of index_exists: one that looks into the files.
Readable == index.content = "whole" /\ ids.content = "whole"

\* No file is ever removed and ids comes after index, so looking at one after the other
\* gives what looking at both at once gives.
index_exists == Exists(index) /\ Exists(ids)

CheckIndex(c) ==
  /\ Goto(c, "check", IF index_exists THEN "read_index"
                      ELSE IF tool[c] = "generate_embeddings" THEN "encode" ELSE "no_index")
  /\ UNCHANGED <<loaded, index, ids, tool, before, crashes, failures>>

-----------------------------------------------------------------------------
(* build_index                                                             *)

Encode(c) ==
  /\ Goto(c, "encode", "open_index")
  /\ UNCHANGED <<loaded, index, ids, tool, before, crashes, failures>>

\* Mutant of Truncated: a state of a file that no reader knows.
Emptied(c) == [content |-> "empty", by |-> c]

\* Opening a file for writing empties it.
Truncated(c) == [content |-> "partial", by |-> c]

\* The rest is written and the file closed.  What c writes is all of the file unless
\* another call has truncated it in between: then c's first bytes may be gone.
Completed(file, c) == {[file EXCEPT !.content = "whole"]} \cup (IF file.by = c THEN {} ELSE {file})

OpenIndex(c) ==
  /\ Goto(c, "open_index", "write_index") /\ index' = Truncated(c)
  /\ UNCHANGED <<loaded, ids, tool, before, crashes, failures>>

\* Mutant of WriteIndex: the index is not flushed when the call moves on.
NotFlushed(c) ==
  /\ Goto(c, "write_index", "open_ids")
  /\ UNCHANGED <<loaded, index, ids, tool, before, crashes, failures>>

WriteIndex(c) ==
  /\ Goto(c, "write_index", "open_ids") /\ index' \in Completed(index, c)
  /\ UNCHANGED <<loaded, ids, tool, before, crashes, failures>>

OpenIds(c) ==
  /\ Goto(c, "open_ids", "write_ids") /\ ids' = Truncated(c)
  /\ UNCHANGED <<loaded, index, tool, before, crashes, failures>>

WriteIds(c) ==
  /\ Goto(c, "write_ids", "built") /\ ids' \in Completed(ids, c)
  /\ UNCHANGED <<loaded, index, tool, before, crashes, failures>>

\* Encoding, faiss.write_index or write_text raises: an exception that is no ValueError.
\* Nothing cleans up: a file that was opened stays as it is.
Raise(c) ==
  /\ failures < MaxFailures /\ failures' = failures + 1
  /\ \E step \in {"encode", "open_index", "write_index", "open_ids", "write_ids", "search"} :
       Goto(c, step, "raised")
  /\ UNCHANGED <<loaded, index, ids, tool, before, crashes>>

-----------------------------------------------------------------------------
(* _load_index, for index_stats and query_index                            *)

\* faiss.read_index raises RuntimeError on a file that is cut short.
ReadIndex(c) ==
  /\ Goto(c, "read_index", IF index.content = "whole" THEN "read_ids" ELSE "torn_index")
  /\ UNCHANGED <<loaded, index, ids, tool, before, crashes, failures>>

\* json.loads raises JSONDecodeError, a ValueError.
ReadIds(c) ==
  /\ Goto(c, "read_ids", IF ids.content # "whole" THEN "torn_ids"
                         ELSE IF tool[c] = "generate_embeddings" THEN "cached" ELSE "search")
  /\ UNCHANGED <<loaded, index, ids, tool, before, crashes, failures>>

Search(c) ==
  /\ Goto(c, "search", "hits")
  /\ UNCHANGED <<loaded, index, ids, tool, before, crashes, failures>>

-----------------------------------------------------------------------------

\* Mutant of Crash: a process that finds its corpora again.
CrashKeepingCorpora ==
  /\ crashes < MaxCrashes /\ crashes' = crashes + 1
  /\ pc' = [c \in Calls |-> IF InFlight(c) THEN "crashed" ELSE pc[c]]
  /\ UNCHANGED <<loaded, index, ids, tool, before, failures>>

\* The files stay; the corpus and the threads do not.
Crash ==
  /\ crashes < MaxCrashes /\ crashes' = crashes + 1 /\ loaded' = FALSE
  /\ pc' = [c \in Calls |-> IF InFlight(c) THEN "crashed" ELSE pc[c]]
  /\ UNCHANGED <<index, ids, tool, before, failures>>

Step(c) == \/ GetCorpus(c) \/ CheckIndex(c)
           \/ Encode(c) \/ OpenIndex(c) \/ WriteIndex(c) \/ OpenIds(c) \/ WriteIds(c)
           \/ ReadIndex(c) \/ ReadIds(c) \/ Search(c)

AllEnded == Finished = Calls /\ UNCHANGED vars

Next == (\E c \in Calls : Call(c) \/ Step(c) \/ Raise(c)) \/ Crash \/ AllEnded

Spec == Init /\ [][Next]_vars

-----------------------------------------------------------------------------
(* Properties                                                              *)

TypeOK ==
  /\ loaded \in BOOLEAN /\ index \in Files /\ ids \in Files /\ tool \in [Calls -> Tools]
  /\ pc \in [Calls -> Steps \cup Ended \cup {"not_called"}] /\ before \in [Calls -> SUBSET Calls]
  /\ crashes \in 0..MaxCrashes /\ failures \in 0..MaxFailures

Whole == index.content = "whole" /\ ids.content = "whole"
Building(c) == pc[c] \in {"open_index", "write_index", "open_ids", "write_ids"}

(* "An index existing on disk for a given corpus_ref is sufficient to treat *)
(* it as valid".  The code violates it: ids.json exists from the moment it  *)
(* is opened, and both files exist while a second call rewrites them.       *)
ExistingIndexIsValid == index_exists => Whole

(* How far that goes: once no call is building, an index that exists is     *)
(* whole, for as long as the process holds the corpus and writing does not  *)
(* fail.  The files that a crash tears belong to a corpus_ref that nothing  *)
(* resolves any more.                                                       *)
SettledIndexIsValid ==
  index_exists /\ loaded /\ failures = 0 /\ (\A c \in Calls : ~Building(c)) => Whole

(* A call trips over a torn file only when a call that builds the index     *)
(* overlaps it (or a write failed): calls that wait for each other never do. *)
TornReadsOverlap ==
  \A c \in Calls : pc[c] \in {"torn_index", "torn_ids"} /\ failures = 0 =>
    \E b \in Calls \ {c} : /\ tool[b] = "generate_embeddings"
                           /\ b \notin before[c] /\ c \notin before[b]
                           /\ b \in {index.by, ids.by} \/ Building(b) \/ pc[b] = "built"

(* "Idempotent": after a call that returned, no call computes the           *)
(* embeddings again and no search is told that there is no index, whatever  *)
(* overlaps them, fails or crashes.                                         *)
BuiltOnceReturned ==
  \A c, b \in Calls : b \in before[c] /\ pc[b] \in Returned =>
    pc[c] \notin {"encode", "built", "no_index"} /\ ~Building(c)

-----------------------------------------------------------------------------
(* The inductive invariant behind the safety properties                    *)

\* A call that builds the index, has built it, or was told that there is none.
FoundNone(c) == Building(c) \/ pc[c] \in {"encode", "built", "no_index"}

\* A call that found the index, and one that knows of it.
FoundIndex(c) == pc[c] \in {"read_index", "read_ids", "search", "cached", "hits", "torn_index", "torn_ids"}
Knows(c)      == FoundIndex(c) \/ pc[c] = "built"

\* Ending is for good; a process that lost its corpora lets no call past its first step.
ProcessInv ==
  /\ \A c \in Calls : before[c] \subseteq Finished
  /\ ~loaded => \A c \in Calls : InFlight(c) => pc[c] = "start"

\* Files appear in order and stay; who opened a file got as far as that.
FilesInv ==
  /\ Exists(index) <=> index.by \in Calls
  /\ Exists(ids) <=> ids.by \in Calls
  /\ Exists(index) => pc[index.by] \in {"write_index", "open_ids", "write_ids", "built", "raised", "crashed"}
  /\ Exists(ids) => pc[ids.by] \in {"write_ids", "built", "raised", "crashed"}
  /\ Exists(ids) => Exists(index)
  /\ \A c \in Calls : pc[c] \in {"write_index", "open_ids"} => Exists(index)
  /\ \A c \in Calls : pc[c] = "write_ids" \/ Knows(c) => index_exists
  /\ \A c \in Calls : pc[c] = "encode" \/ Building(c) \/ c \in {index.by, ids.by} =>
                         tool[c] = "generate_embeddings"

\* A file is partial only while the call that opened it last has yet to write it.
PartialInv ==
  loaded /\ failures = 0 =>
    /\ index.content = "partial" => pc[index.by] = "write_index"
    /\ ids.content = "partial" => pc[ids.by] = "write_ids"

\* Who starts after a call that knows of the index neither misses it nor opens its files.
OrderInv ==
  \A c, b \in Calls : b \in before[c] /\ Knows(b) => ~FoundNone(c) /\ c \notin {index.by, ids.by}

Overlap(c, b) == b \in Calls \ {c} /\ b \notin before[c] /\ c \notin before[b]

\* A call that tripped over a file overlaps whoever opened that file last, then or since.
TornInv ==
  failures = 0 =>
    \A c \in Calls : /\ pc[c] = "torn_index" => Overlap(c, index.by)
                     /\ pc[c] = "torn_ids" => Overlap(c, ids.by)

IInv == TypeOK /\ ProcessInv /\ FilesInv /\ PartialInv /\ OrderInv /\ TornInv
=============================================================================
