--------------------------- MODULE FaissIndexProofs ---------------------------
(***************************************************************************)
(* The safety of the on-disk index, for any number of overlapping calls.   *)
(***************************************************************************)
EXTENDS FaissIndex, TLAPS

LEMMA StepCases ==
  ASSUME [Next]_vars
  PROVE  \/ \E c \in Calls : Call(c) \/ Step(c) \/ Raise(c)
         \/ Crash
         \/ UNCHANGED vars
BY DEF Next, AllEnded

\* Every step of a call moves that call alone.
LEMMA Moves ==
  ASSUME TypeOK, NEW c \in Calls, Call(c) \/ Step(c) \/ Raise(c)
  PROVE  /\ \A d \in Calls \ {c} : pc'[d] = pc[d] /\ before'[d] = before[d]
         /\ pc[c] \notin Ended /\ tool' = tool /\ loaded' = loaded
         /\ pc' \in [Calls -> Steps \cup Ended \cup {"not_called"}] /\ pc'[c] # "not_called"
BY DEF TypeOK, Call, Step, Raise, GetCorpus, CheckIndex, Encode, OpenIndex, WriteIndex, OpenIds, WriteIds,
       ReadIndex, ReadIds, Search, Goto, Ended, Returned, Steps

-----------------------------------------------------------------------------

\* Writing the rest of a file: its opener stays, and what the opener writes is all of it.
LEMMA CompletedFacts ==
  ASSUME NEW file \in Files, NEW c \in Calls, NEW done \in Completed(file, c)
  PROVE  /\ done \in Files /\ done.by = file.by /\ done.content \in {file.content, "whole"}
         /\ file.by = c => done.content = "whole"
<1>1. CASE done = [file EXCEPT !.content = "whole"]
  <2>1. done = [content |-> "whole", by |-> file.by]
    BY <1>1 DEF Files
  <2>. QED
    BY <2>1 DEF Files
<1>2. CASE done = file /\ file.by # c
  BY <1>2
<1>. QED
  BY <1>1, <1>2 DEF Completed

LEMMA TypeInit == Init => TypeOK
BY BoundsAssumption DEF Init, TypeOK, Files, Absent, Steps

LEMMA TypeStep == TypeOK /\ [Next]_vars => TypeOK'
<1>. SUFFICES ASSUME TypeOK, [Next]_vars PROVE TypeOK'
  OBVIOUS
<1>. USE DEF TypeOK
<1>1. ASSUME NEW c \in Calls, Call(c) \/ Step(c) \/ Raise(c) PROVE TypeOK'
  <2>1. pc' \in [Calls -> Steps \cup Ended \cup {"not_called"}] /\ tool' = tool /\ loaded' = loaded
    BY <1>1, Moves
  <2>2. before' \in [Calls -> SUBSET Calls]
    BY <1>1 DEF Call, Finished, Step, Raise, GetCorpus, CheckIndex, Encode, OpenIndex, WriteIndex, OpenIds,
                WriteIds, ReadIndex, ReadIds, Search
  <2>3. index' \in Files /\ ids' \in Files
    <3>1. Truncated(c) \in Files
      BY DEF Truncated, Files
    <3>2. (index' = index \/ index' = Truncated(c) \/ index' \in Completed(index, c))
          /\ (ids' = ids \/ ids' = Truncated(c) \/ ids' \in Completed(ids, c))
      BY <1>1 DEF Call, Step, Raise, GetCorpus, CheckIndex, Encode, OpenIndex, WriteIndex, OpenIds,
                  WriteIds, ReadIndex, ReadIds, Search
    <3>. QED
      BY <3>1, <3>2, CompletedFacts
  <2>4. crashes' = crashes /\ failures' \in 0..MaxFailures
    BY <1>1, BoundsAssumption DEF Call, Step, Raise, GetCorpus, CheckIndex, Encode, OpenIndex, WriteIndex, OpenIds,
                WriteIds, ReadIndex, ReadIds, Search
  <2>. QED
    BY <2>1, <2>2, <2>3, <2>4
<1>2. CASE Crash
  <2>1. crashes' \in 0..MaxCrashes
    BY <1>2, BoundsAssumption DEF Crash
  <2>2. pc' \in [Calls -> Steps \cup Ended \cup {"not_called"}]
    BY <1>2 DEF Crash, Ended
  <2>. QED
    BY <1>2, <2>1, <2>2 DEF Crash
<1>3. CASE UNCHANGED vars
  BY <1>3 DEF vars
<1>. QED
  BY <1>1, <1>2, <1>3, StepCases

-----------------------------------------------------------------------------

LEMMA ProcessStep == TypeOK /\ ProcessInv /\ [Next]_vars => ProcessInv'
<1>. SUFFICES ASSUME TypeOK, ProcessInv, [Next]_vars PROVE ProcessInv'
  OBVIOUS
<1>1. ASSUME NEW c \in Calls, Call(c) \/ Step(c) \/ Raise(c) PROVE ProcessInv'
  <2>1. Finished \subseteq Finished'
    BY <1>1, Moves DEF Finished
  <2>2. before'[c] \in {before[c], Finished}
    BY <1>1 DEF TypeOK, Call, Step, Raise, GetCorpus, CheckIndex, Encode, OpenIndex, WriteIndex, OpenIds,
                WriteIds, ReadIndex, ReadIds, Search
  <2>3. ~loaded => (InFlight(c)' => pc'[c] = "start")
    BY <1>1 DEF ProcessInv, TypeOK, Call, Step, Raise, GetCorpus, CheckIndex, Encode, OpenIndex, WriteIndex, OpenIds,
                WriteIds, ReadIndex, ReadIds, Search, Goto, InFlight, Steps, Ended, Returned
  <2>. QED
    BY <1>1, <2>1, <2>2, <2>3, Moves DEF ProcessInv, InFlight
<1>2. CASE Crash
  BY <1>2 DEF Crash, ProcessInv, TypeOK, InFlight, Finished, Ended, Steps
<1>3. CASE UNCHANGED vars
  BY <1>3 DEF vars, ProcessInv, InFlight, Finished
<1>. QED
  BY <1>1, <1>2, <1>3, StepCases

-----------------------------------------------------------------------------

\* What a step of a call does to the two files and where it stands before and after.
LEMMA FileMoves ==
  ASSUME TypeOK, NEW c \in Calls, Call(c) \/ Step(c) \/ Raise(c)
  PROVE  \/ UNCHANGED <<index, ids>> /\ pc'[c] \notin {"write_index", "open_ids", "write_ids", "built"}
         \/ /\ pc[c] = "open_index" /\ pc'[c] = "write_index"
            /\ index'.content = "partial" /\ index'.by = c /\ ids' = ids
         \/ /\ pc[c] = "write_index" /\ pc'[c] = "open_ids"
            /\ index'.content \in {index.content, "whole"} /\ index'.by = index.by /\ ids' = ids
            /\ index.by = c => index'.content = "whole"
         \/ /\ pc[c] = "open_ids" /\ pc'[c] = "write_ids"
            /\ ids'.content = "partial" /\ ids'.by = c /\ index' = index
         \/ /\ pc[c] = "write_ids" /\ pc'[c] = "built"
            /\ ids'.content \in {ids.content, "whole"} /\ ids'.by = ids.by /\ index' = index
            /\ ids.by = c => ids'.content = "whole"
<1>. USE DEF TypeOK, Goto
<1>1. CASE OpenIndex(c)
  BY <1>1 DEF OpenIndex, Truncated
<1>2. CASE WriteIndex(c)
  BY <1>2, CompletedFacts DEF WriteIndex
<1>3. CASE OpenIds(c)
  BY <1>3 DEF OpenIds, Truncated
<1>4. CASE WriteIds(c)
  BY <1>4, CompletedFacts DEF WriteIds
<1>5. CASE Call(c) \/ Raise(c) \/ GetCorpus(c) \/ CheckIndex(c) \/ Encode(c) \/ ReadIndex(c) \/ ReadIds(c) \/ Search(c)
  BY <1>5 DEF Call, Raise, GetCorpus, CheckIndex, Encode, ReadIndex, ReadIds, Search, Steps, Ended, Returned
<1>. QED
  BY <1>1, <1>2, <1>3, <1>4, <1>5 DEF Step

\* How a call comes to a step, and to what it knows of the index.
LEMMA Arrives ==
  ASSUME TypeOK, NEW c \in Calls, Call(c) \/ Step(c) \/ Raise(c)
  PROVE  /\ pc'[c] = "encode" => pc[c] = "check" /\ ~index_exists /\ tool[c] = "generate_embeddings"
         /\ pc'[c] = "no_index" => pc[c] = "check" /\ ~index_exists
         /\ pc'[c] = "open_index" => pc[c] = "encode"
         /\ pc'[c] = "write_index" => pc[c] = "open_index"
         /\ pc'[c] = "open_ids" => pc[c] = "write_index"
         /\ pc'[c] = "write_ids" => pc[c] = "open_ids"
         /\ pc'[c] = "built" => pc[c] = "write_ids"
         /\ FoundIndex(c)' => FoundIndex(c) \/ (pc[c] = "check" /\ index_exists)
         /\ pc'[c] = "torn_index" => pc[c] = "read_index" /\ index.content # "whole"
         /\ pc'[c] = "torn_ids" => pc[c] = "read_ids" /\ ids.content # "whole"
BY DEF TypeOK, Call, Step, Raise, GetCorpus, CheckIndex, Encode, OpenIndex, WriteIndex, OpenIds, WriteIds,
       ReadIndex, ReadIds, Search, Goto, FoundIndex

\* Where the call that opened a file last can go from there.
LEMMA Leaves ==
  ASSUME TypeOK, NEW c \in Calls, Call(c) \/ Step(c) \/ Raise(c)
  PROVE  /\ pc[c] = "write_index" => pc'[c] \in {"open_ids", "raised"}
         /\ pc[c] = "open_ids" => pc'[c] \in {"write_ids", "raised"}
         /\ pc[c] = "write_ids" => pc'[c] \in {"built", "raised"}
         /\ pc'[c] = "raised" => failures' = failures + 1
         /\ pc'[c] # "raised" => failures' = failures
BY DEF TypeOK, Call, Step, Raise, GetCorpus, CheckIndex, Encode, OpenIndex, WriteIndex, OpenIds, WriteIds,
       ReadIndex, ReadIds, Search, Goto

LEMMA FilesInit == Init => FilesInv
BY CallersAssumption DEF Init, FilesInv, Absent, Exists, Building, Knows, FoundIndex, index_exists

LEMMA FilesStep == TypeOK /\ FilesInv /\ [Next]_vars => FilesInv'
<1>. SUFFICES ASSUME TypeOK, FilesInv, [Next]_vars PROVE FilesInv'
  OBVIOUS
<1>. USE DEF Exists, index_exists
<1>1. ASSUME NEW c \in Calls, Call(c) \/ Step(c) \/ Raise(c) PROVE FilesInv'
  <2>1. /\ Exists(index)' <=> (index.by \in Calls)'
        /\ Exists(ids)' <=> (ids.by \in Calls)'
        /\ Exists(index) => Exists(index)'
        /\ Exists(ids) => Exists(ids)'
    BY <1>1, FileMoves DEF FilesInv
  <2>2. Exists(index)' => pc'[index'.by] \in {"write_index", "open_ids", "write_ids", "built", "raised", "crashed"}
    BY <1>1, FileMoves, Moves, Leaves DEF FilesInv, Ended, Returned
  <2>3. Exists(ids)' => pc'[ids'.by] \in {"write_ids", "built", "raised", "crashed"}
    BY <1>1, FileMoves, Moves, Leaves DEF FilesInv, Ended, Returned
  <2>4. Exists(ids)' => Exists(index)'
    BY <1>1, <2>1, FileMoves DEF FilesInv
  <2>5. \A d \in Calls : pc'[d] \in {"write_index", "open_ids"} => Exists(index)'
    <3>1. pc'[c] \in {"write_index", "open_ids"} => Exists(index)'
      BY <1>1, <2>1, FileMoves DEF FilesInv
    <3>. QED
      BY <1>1, <2>1, <3>1, Moves DEF FilesInv
  <2>6. \A d \in Calls : pc'[d] = "write_ids" \/ Knows(d)' => index_exists'
    <3>1. pc'[c] \in {"write_ids", "built"} => index_exists'
      BY <1>1, <2>1, FileMoves DEF FilesInv
    <3>2. FoundIndex(c)' => index_exists'
      BY <1>1, <2>1, Arrives DEF FilesInv, Knows
    <3>. QED
      BY <1>1, <2>1, <3>1, <3>2, Moves DEF FilesInv, Knows, FoundIndex
  <2>7. \A d \in Calls : pc'[d] = "encode" \/ Building(d)' => tool[d] = "generate_embeddings"
    BY <1>1, Moves, Arrives DEF FilesInv, Building
  <2>8. \A d \in Calls : d \in {index'.by, ids'.by} => tool[d] = "generate_embeddings"
    BY <1>1, FileMoves DEF FilesInv, Building
  <2>9. tool' = tool
    BY <1>1, Moves
  <2>. QED
    BY <2>1, <2>2, <2>3, <2>4, <2>5, <2>6, <2>7, <2>8, <2>9 DEF FilesInv
<1>2. CASE Crash
  BY <1>2 DEF Crash, FilesInv, TypeOK, InFlight, Steps, Building, Knows, FoundIndex
<1>3. CASE UNCHANGED vars
  BY <1>3 DEF vars, FilesInv, Building, Knows, FoundIndex
<1>. QED
  BY <1>1, <1>2, <1>3, StepCases

-----------------------------------------------------------------------------

LEMMA PartialStep == TypeOK /\ ProcessInv /\ FilesInv /\ PartialInv /\ [Next]_vars => PartialInv'
<1>. SUFFICES ASSUME TypeOK, ProcessInv, FilesInv, PartialInv, [Next]_vars, loaded', failures' = 0
              PROVE  /\ index'.content = "partial" => pc'[index'.by] = "write_index"
                     /\ ids'.content = "partial" => pc'[ids'.by] = "write_ids"
  BY DEF PartialInv
<1>1. ASSUME NEW c \in Calls, Call(c) \/ Step(c) \/ Raise(c)
      PROVE  /\ index'.content = "partial" => pc'[index'.by] = "write_index"
             /\ ids'.content = "partial" => pc'[ids'.by] = "write_ids"
  <2>0. loaded
    BY <1>1, Moves
  <2>1. failures = 0
    <3>1. failures \in Nat
      BY BoundsAssumption DEF TypeOK
    <3>. QED
      BY <1>1, <3>1, Leaves
  <2>2. /\ index.content = "partial" => index.by \in Calls /\ pc[index.by] = "write_index"
        /\ ids.content = "partial" => ids.by \in Calls /\ pc[ids.by] = "write_ids"
    BY <2>0, <2>1 DEF PartialInv, FilesInv, Exists
  <2>3. pc'[c] # "raised"
    BY <1>1, <2>1, Leaves
  <2>4. ASSUME index'.content = "partial" PROVE pc'[index'.by] = "write_index"
    <3>1. CASE index' = index
      <4>1. pc[index.by] = "write_index" /\ index.by \in Calls
        BY <2>2, <2>4, <3>1
      <4>2. index.by # c
        BY <1>1, <2>3, <2>4, <3>1, <4>1, FileMoves, Leaves
      <4>. QED
        BY <1>1, <3>1, <4>1, <4>2, Moves
    <3>2. CASE pc'[c] = "write_index" /\ index'.by = c
      BY <3>2
    <3>3. CASE index'.content \in {index.content, "whole"} /\ index'.by = index.by /\ index.by # c
      BY <1>1, <2>2, <2>4, <3>3, Moves
    <3>. QED
      BY <1>1, <2>4, <3>1, <3>2, <3>3, FileMoves
  <2>5. ASSUME ids'.content = "partial" PROVE pc'[ids'.by] = "write_ids"
    <3>1. CASE ids' = ids
      <4>1. pc[ids.by] = "write_ids" /\ ids.by \in Calls
        BY <2>2, <2>5, <3>1
      <4>2. ids.by # c
        BY <1>1, <2>3, <2>5, <3>1, <4>1, FileMoves, Leaves
      <4>. QED
        BY <1>1, <3>1, <4>1, <4>2, Moves
    <3>2. CASE pc'[c] = "write_ids" /\ ids'.by = c
      BY <3>2
    <3>3. CASE ids'.content \in {ids.content, "whole"} /\ ids'.by = ids.by /\ ids.by # c
      BY <1>1, <2>2, <2>5, <3>3, Moves
    <3>. QED
      BY <1>1, <2>5, <3>1, <3>2, <3>3, FileMoves
  <2>. QED
    BY <2>4, <2>5
<1>2. CASE Crash
  BY <1>2 DEF Crash
<1>3. CASE UNCHANGED vars
  BY <1>3 DEF vars, PartialInv
<1>. QED
  BY <1>1, <1>2, <1>3, StepCases

\* A call that is still to end is in nobody's past.
LEMMA PastHasEnded ==
  ASSUME ProcessInv, NEW c \in Calls, NEW b \in before[c]
  PROVE  b \in Calls /\ pc[b] \in Ended
BY DEF ProcessInv, Finished

LEMMA OrderStep == TypeOK /\ ProcessInv /\ FilesInv /\ OrderInv /\ [Next]_vars => OrderInv'
<1>. SUFFICES ASSUME TypeOK, ProcessInv, FilesInv, OrderInv, [Next]_vars PROVE OrderInv'
  OBVIOUS
<1>1. ASSUME NEW m \in Calls, Call(m) \/ Step(m) \/ Raise(m) PROVE OrderInv'
  <2>. SUFFICES ASSUME NEW c \in Calls, NEW b \in Calls, b \in before'[c], Knows(b)'
                PROVE  ~FoundNone(c)' /\ c \notin {index'.by, ids'.by}
    BY DEF OrderInv
  <2>1. CASE Call(m) /\ c = m
    <3>1. pc[c] = "not_called" /\ pc'[c] = "start" /\ index' = index /\ ids' = ids
      BY <2>1 DEF Call, Goto, TypeOK
    <3>2. c \notin {index.by, ids.by}
      BY <3>1 DEF FilesInv
    <3>. QED
      BY <3>1, <3>2 DEF FoundNone, Building
  <2>2. CASE ~(Call(m) /\ c = m)
    <3>1. b \in before[c]
      BY <1>1, <2>2, Moves DEF Call, Step, Raise, GetCorpus, CheckIndex, Encode, OpenIndex, WriteIndex, OpenIds,
                              WriteIds, ReadIndex, ReadIds, Search
    <3>2. Knows(b)
      BY <1>1, <3>1, PastHasEnded, Moves DEF Knows, FoundIndex
    <3>3. ~FoundNone(c) /\ c \notin {index.by, ids.by} /\ index_exists
      BY <3>1, <3>2 DEF OrderInv, FilesInv
    <3>4. ~FoundNone(c)'
      BY <1>1, <3>3, Moves, Arrives DEF FoundNone, Building
    <3>5. c \notin {index'.by, ids'.by}
      <4>1. pc[c] \notin {"open_index", "open_ids"}
        BY <3>3 DEF FoundNone, Building
      <4>2. /\ index'.by = index.by \/ (index'.by = m /\ pc[m] = "open_index")
            /\ ids'.by = ids.by \/ (ids'.by = m /\ pc[m] = "open_ids")
        BY <1>1, FileMoves
      <4>. QED
        BY <3>3, <4>1, <4>2
    <3>. QED
      BY <3>4, <3>5
  <2>. QED
    BY <2>1, <2>2
<1>2. CASE Crash
  BY <1>2 DEF Crash, OrderInv, TypeOK, Knows, FoundIndex, FoundNone, Building, InFlight, Steps
<1>3. CASE UNCHANGED vars
  BY <1>3 DEF vars, OrderInv, Knows, FoundIndex, FoundNone, Building
<1>. QED
  BY <1>1, <1>2, <1>3, StepCases

-----------------------------------------------------------------------------

\* The call that trips over a file overlaps the one that is writing it; who opens the
\* file after that has not seen it end, and has not started after it.
LEMMA TornStep ==
  TypeOK /\ ProcessInv /\ FilesInv /\ PartialInv /\ OrderInv /\ TornInv /\ [Next]_vars => TornInv'
<1>. SUFFICES ASSUME TypeOK, ProcessInv, FilesInv, PartialInv, OrderInv, TornInv, [Next]_vars,
                     failures' = 0, NEW c \in Calls
              PROVE  /\ pc'[c] = "torn_index" => Overlap(c, index.by)'
                     /\ pc'[c] = "torn_ids" => Overlap(c, ids.by)'
  BY DEF TornInv
<1>1. ASSUME NEW m \in Calls, Call(m) \/ Step(m) \/ Raise(m)
      PROVE  /\ pc'[c] = "torn_index" => Overlap(c, index.by)'
             /\ pc'[c] = "torn_ids" => Overlap(c, ids.by)'
  <2>1. failures = 0
    <3>1. failures \in Nat
      BY BoundsAssumption DEF TypeOK
    <3>. QED
      BY <1>1, <3>1, Leaves
  <2>2. ASSUME NEW b \in Calls \ {c}, pc[c] \in {"read_index", "read_ids"}, m = c,
               pc[b] \in {"write_index", "write_ids"}
        PROVE  Overlap(c, b)'
    <3>1. c \notin before[b] /\ b \notin before[c]
      BY <2>2, PastHasEnded DEF Ended, Returned
    <3>2. before' = before
      BY <1>1, <2>2 DEF Call, Goto, Step, Raise, GetCorpus, CheckIndex, Encode, OpenIndex, WriteIndex, OpenIds,
                        WriteIds, ReadIndex, ReadIds, Search
    <3>. QED
      BY <3>1, <3>2 DEF Overlap
  <2>3. CASE m = c
    <3>1. ASSUME pc'[c] = "torn_index" PROVE Overlap(c, index.by)'
      <4>1. pc[c] = "read_index" /\ index.content # "whole"
        BY <1>1, <2>3, <3>1, Arrives
      <4>2. index.content = "partial" /\ loaded /\ index.by \in Calls
        BY <4>1 DEF FilesInv, Knows, FoundIndex, index_exists, Exists, TypeOK, Files, ProcessInv, InFlight, Steps
      <4>3. pc[index.by] = "write_index" /\ index' = index
        BY <1>1, <2>1, <2>3, <4>1, <4>2, FileMoves DEF PartialInv
      <4>. QED
        BY <2>2, <2>3, <4>1, <4>2, <4>3
    <3>2. ASSUME pc'[c] = "torn_ids" PROVE Overlap(c, ids.by)'
      <4>1. pc[c] = "read_ids" /\ ids.content # "whole"
        BY <1>1, <2>3, <3>2, Arrives
      <4>2. ids.content = "partial" /\ loaded /\ ids.by \in Calls
        BY <4>1 DEF FilesInv, Knows, FoundIndex, index_exists, Exists, TypeOK, Files, ProcessInv, InFlight, Steps
      <4>3. pc[ids.by] = "write_ids" /\ ids' = ids
        BY <1>1, <2>1, <2>3, <4>1, <4>2, FileMoves DEF PartialInv
      <4>. QED
        BY <2>2, <2>3, <4>1, <4>2, <4>3
    <3>. QED
      BY <3>1, <3>2
  <2>4. ASSUME m # c, pc'[c] \in {"torn_index", "torn_ids"}
        PROVE  /\ pc[c] = pc'[c] /\ pc[c] \in Ended /\ Knows(c) /\ before'[c] = before[c] /\ m \notin before[c]
               /\ \A b \in Calls : b # m => before'[b] = before[b]
    BY <1>1, <2>4, Moves, PastHasEnded DEF Ended, Knows, FoundIndex
  <2>5. ASSUME NEW b \in Calls, m # c, pc'[c] \in {"torn_index", "torn_ids"}, Overlap(c, b),
               b \in {index.by, ids.by}
        PROVE  Overlap(c, b)'
    <3>1. b = m => before'[b] = before[b]
      <4>1. pc[b] # "not_called"
        BY <2>5 DEF FilesInv, Exists
      <4>. QED
        BY <1>1, <4>1 DEF Call, Goto, Step, Raise, GetCorpus, CheckIndex, Encode, OpenIndex, WriteIndex, OpenIds,
                          WriteIds, ReadIndex, ReadIds, Search
    <3>. QED
      BY <2>4, <2>5, <3>1 DEF Overlap
  <2>6. ASSUME m # c, pc'[c] \in {"torn_index", "torn_ids"}, pc[m] \in {"open_index", "open_ids"}
        PROVE  Overlap(c, m)'
    <3>1. c \notin before[m]
      BY <2>4, <2>6 DEF OrderInv, FoundNone, Building
    <3>2. before' = before
      BY <1>1, <2>6 DEF Call, Goto, Step, Raise, GetCorpus, CheckIndex, Encode, OpenIndex, WriteIndex, OpenIds,
                        WriteIds, ReadIndex, ReadIds, Search
    <3>. QED
      BY <2>4, <2>6, <3>1, <3>2 DEF Overlap
  <2>7. ASSUME m # c, pc'[c] = "torn_index" PROVE Overlap(c, index.by)'
    <3>1. Overlap(c, index.by)
      <4>1. pc[c] = "torn_index"
        BY <2>4, <2>7
      <4>. QED
        BY <2>1, <4>1 DEF TornInv
    <3>2. index'.by = index.by \/ (index'.by = m /\ pc[m] = "open_index")
      BY <1>1, FileMoves
    <3>3. index.by \in Calls
      BY <3>1 DEF Overlap
    <3>. QED
      BY <2>5, <2>6, <2>7, <3>1, <3>2, <3>3 DEF Overlap
  <2>8. ASSUME m # c, pc'[c] = "torn_ids" PROVE Overlap(c, ids.by)'
    <3>1. Overlap(c, ids.by)
      <4>1. pc[c] = "torn_ids"
        BY <2>4, <2>8
      <4>. QED
        BY <2>1, <4>1 DEF TornInv
    <3>2. ids'.by = ids.by \/ (ids'.by = m /\ pc[m] = "open_ids")
      BY <1>1, FileMoves
    <3>3. ids.by \in Calls
      BY <3>1 DEF Overlap
    <3>. QED
      BY <2>5, <2>6, <2>8, <3>1, <3>2, <3>3 DEF Overlap
  <2>. QED
    BY <2>3, <2>7, <2>8
<1>2. ASSUME UNCHANGED <<index, ids, before, failures>>,
             pc'[c] \in {"torn_index", "torn_ids"} => pc[c] = pc'[c]
      PROVE  /\ pc'[c] = "torn_index" => Overlap(c, index.by)'
             /\ pc'[c] = "torn_ids" => Overlap(c, ids.by)'
  <2>1. failures = 0
    BY <1>2
  <2>2. /\ pc[c] = "torn_index" => Overlap(c, index.by)
        /\ pc[c] = "torn_ids" => Overlap(c, ids.by)
    BY <2>1 DEF TornInv
  <2>3. index' = index /\ ids' = ids /\ before' = before
    BY <1>2
  <2>. QED
    BY <1>2, <2>2, <2>3 DEF Overlap
<1>3. CASE Crash
  <2>1. UNCHANGED <<index, ids, before, failures>>
    BY <1>3 DEF Crash
  <2>2. pc'[c] \in {"torn_index", "torn_ids"} => pc[c] = pc'[c]
    BY <1>3 DEF Crash, TypeOK
  <2>. QED
    BY <1>2, <2>1, <2>2
<1>4. CASE UNCHANGED vars
  BY <1>2, <1>4 DEF vars
<1>. QED
  BY <1>1, <1>3, <1>4, StepCases

-----------------------------------------------------------------------------

(* The inductive invariant: the process, the two files, the order of calls  *)
(* and the torn reads together.                                             *)
THEOREM Invariance == Spec => []IInv
<1>1. Init => IInv
  BY TypeInit, FilesInit
     DEF IInv, Init, ProcessInv, PartialInv, OrderInv, TornInv, Absent, InFlight, Steps, Knows, FoundIndex
<1>2. IInv /\ [Next]_vars => IInv'
  BY TypeStep, ProcessStep, FilesStep, PartialStep, OrderStep, TornStep DEF IInv
<1>. QED
  BY <1>1, <1>2, PTL DEF Spec

(* Every variable keeps its type: no call reaches a step that is none.      *)
THEOREM TypeCorrect == Spec => []TypeOK
<1>1. IInv => TypeOK
  BY DEF IInv
<1>. QED
  BY <1>1, Invariance, PTL

(* Once no call is building, an index that exists is whole, for as long as  *)
(* the process holds the corpus and no write failed: however many calls     *)
(* rewrote the files at once.                                               *)
THEOREM SettledIsValid == Spec => []SettledIndexIsValid
<1>1. IInv => SettledIndexIsValid
  <2>. SUFFICES ASSUME IInv, index_exists, loaded, failures = 0, \A c \in Calls : ~Building(c)
                PROVE  Whole
    BY DEF SettledIndexIsValid
  <2>1. index.by \in Calls /\ ids.by \in Calls
    BY DEF IInv, FilesInv, index_exists
  <2>2. index.content # "partial" /\ ids.content # "partial"
    BY <2>1 DEF IInv, PartialInv, Building
  <2>. QED
    BY <2>2 DEF IInv, TypeOK, Files, index_exists, Exists, Whole
<1>. QED
  BY <1>1, Invariance, PTL

(* A call trips over a torn file only when it overlaps a call that builds   *)
(* the index: the one that opened that file last.                           *)
THEOREM TornReadsNeedOverlap == Spec => []TornReadsOverlap
<1>1. IInv => TornReadsOverlap
  <2>. SUFFICES ASSUME IInv, NEW c \in Calls, pc[c] \in {"torn_index", "torn_ids"}, failures = 0
                PROVE  \E b \in Calls \ {c} : /\ tool[b] = "generate_embeddings"
                                              /\ b \notin before[c] /\ c \notin before[b]
                                              /\ b \in {index.by, ids.by}
    BY DEF TornReadsOverlap
  <2>1. PICK b \in {index.by, ids.by} : Overlap(c, b)
    BY DEF IInv, TornInv
  <2>2. tool[b] = "generate_embeddings"
    BY <2>1 DEF IInv, FilesInv, Overlap
  <2>. QED
    BY <2>1, <2>2 DEF Overlap
<1>. QED
  BY <1>1, Invariance, PTL

(* "Idempotent": whoever starts after a call that returned neither builds   *)
(* the index again nor is told that there is none.                          *)
THEOREM BuiltOnce == Spec => []BuiltOnceReturned
<1>1. IInv => BuiltOnceReturned
  <2>. SUFFICES ASSUME IInv, NEW c \in Calls, NEW b \in Calls, b \in before[c], pc[b] \in Returned
                PROVE  pc[c] \notin {"encode", "built", "no_index"} /\ ~Building(c)
    BY DEF BuiltOnceReturned
  <2>1. Knows(b)
    BY DEF Knows, FoundIndex, Returned
  <2>. QED
    BY <2>1 DEF IInv, OrderInv, FoundNone
<1>. QED
  BY <1>1, Invariance, PTL
=============================================================================
