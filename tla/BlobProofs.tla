----------------------------- MODULE BlobProofs -----------------------------
(***************************************************************************)
(* Safety of the blob stores for any number of calls and any size of blob. *)
(*                                                                         *)
(* The call that truncated a file last is its writer: until it closes it,  *)
(* the file holds what it has written so far (Writer).  An object is there *)
(* whole or not at all (Objects), and stays while a put stands (Stored).   *)
(* After a deletion that nothing overlapped the store and the cache stay   *)
(* empty, and whoever asks later has to look into the store (Gone).        *)
(***************************************************************************)
EXTENDS BlobStores, FiniteSetTheorems, TLAPS

BlobTyped ==
    /\ backend \in Backends
    /\ cached \in BOOLEAN
    /\ kind \in [Calls -> Kinds]
    /\ pc \in [Calls -> Steps]
    /\ fd \in [Calls -> Calls \cup {NoFile}]
    /\ got \in [Calls -> Data \cup {NoFile}]
    /\ entry \in Calls \cup {NoFile}
    /\ data \in [Calls -> Data]
    /\ cache \in Data \cup {NoFile}
    /\ before \in [Calls -> SUBSET Calls]
    /\ \A c \in Calls : pc[c] \in {"read", "write"} => fd[c] \in Calls
    /\ \A c \in Calls : pc[c] = "write" => Position(c) \in 0 .. Chunks

(* What the steps are for.                                                 *)
Role(c) ==
    /\ pc[c] \in {"write"} => kind[c] = "put"
    /\ pc[c] \in {"read", "notfound"} => kind[c] = "get"
    /\ pc[c] = "fill" => kind[c] \in {"put", "get"}
    /\ pc[c] = "drop" => kind[c] = "delete"

(* What a call was preceded by has ended, and a cache is used if there is  *)
(* one.                                                                    *)
Past ==
    /\ \A c \in Calls : \A d \in before[c] : pc[d] \in Ended
    /\ \A c \in Calls : pc[c] = "call" => before[c] = {}
    /\ ~cached => cache = NoFile /\ \A c \in Calls : pc[c] \notin {"fill", "drop"}

(* A put has written its first chunks, as many as it remembers.            *)
Written(p) == 1 .. Position(p)

Progress(p) ==
    /\ pc[p] \in {"call", "inner", "open"} => got[p] = NoFile
    /\ pc[p] = "write" => got[p] = NoFile \/ got[p] = Written(p)

(* p was the last to truncate the file.                                    *)
Writer(p, f) ==
    /\ fd[p] = f
    /\ \/ pc[p] = "write" /\ Written(p) \subseteq data[f]
       \/ pc[p] = "crashed"
       \/ pc[p] \in {"fill", "done"} /\ data[f] = Content

LocalFiles ==
    backend = "local" =>
        /\ \A p \in Puts : Progress(p)
        /\ entry # NoFile => \E p \in Puts : Writer(p, entry)

Objects ==
    backend = "s3" =>
        /\ entry # NoFile => data[entry] = Content
        /\ cache # NoFile => cache = Content
        /\ \A p \in Puts : pc[p] # "write"
        /\ \A c \in Gets : /\ pc[c] \in {"call", "inner", "fill", "done", "notfound", "crashed"}
                           /\ pc[c] \in {"fill", "done"} => got[c] = Content

(* Nobody deletes since the put began.                                     *)
Undeleted(p) == \A d \in Deletes : Apart(d, p)

Stored ==
    backend = "s3" =>
        /\ \A p \in Puts : pc[p] \in {"fill", "done"} /\ Undeleted(p) => entry # NoFile
        /\ \A c \in Gets : \A p \in before[c] \cap Puts :
              pc[c] = "notfound" /\ pc[p] = "done" => ~Undeleted(p)

(* No put and no get overlaps the deletion.                                *)
Quiet(d) ==
    /\ \A p \in Puts : Apart(p, d)
    /\ \A g \in Gets : Apart(g, d) \/ d \in before[g]

Gone ==
    \A d \in Deletes : Quiet(d) =>
        /\ pc[d] = "drop" => entry = NoFile
        /\ pc[d] = "done" =>
              /\ entry = NoFile /\ cache = NoFile
              /\ \A g \in Gets : d \in before[g] => pc[g] \in {"inner", "notfound", "crashed"}

BlobInv == BlobTyped /\ (\A c \in Calls : Role(c)) /\ Past /\ LocalFiles /\ Objects /\ Stored /\ Gone

----------------------------------------------------------------------------
(* Steps in general.                                                       *)

(* A call moves alone, forward, and only its beginning looks back.         *)
LEMMA OneMoves ==
    ASSUME BlobTyped, NEW c \in Calls, Step(c) \/ Crash(c)
    PROVE  /\ UNCHANGED config /\ pc[c] \notin Ended
           /\ pc' \in [Calls -> Steps] /\ pc'[c] # "call"
           /\ \A d \in Calls : d # c => pc'[d] = pc[d]
           /\ \/ pc[c] # "call" /\ before' = before
              \/ pc[c] = "call" /\ Crash(c) /\ before' = before
              \/ pc[c] = "call" /\ Begin(c) /\ before' = [before EXCEPT ![c] = EndedCalls]
<1> USE DEF BlobTyped, Goto, At, AfterInner, Steps, Ended
<1>1. CASE Begin(c)
  BY <1>1 DEF Begin
<1>2. CASE PutCheck(c) \/ UploadObject(c) \/ OpenFile(c)
  BY <1>2 DEF PutCheck, UploadObject, OpenFile
<1>3. CASE WriteChunk(c) \/ CloseFile(c)
  BY <1>3 DEF WriteChunk, CloseFile
<1>4. CASE GetCheck(c) \/ OpenForRead(c) \/ ReadFile(c)
  BY <1>4 DEF GetCheck, OpenForRead, ReadFile
<1>5. CASE DeleteInner(c) \/ FillCache(c) \/ DropCache(c)
  BY <1>5 DEF DeleteInner, FillCache, DropCache
<1>6. CASE Crash(c)
  BY <1>6 DEF Crash
<1> QED
  BY <1>1, <1>2, <1>3, <1>4, <1>5, <1>6 DEF Step


(* A chunk is written where the last one ended.                            *)
LEMMA NextChunk ==
    ASSUME BlobTyped, NEW c \in Calls, WriteChunk(c)
    PROVE  /\ Position(c) \in 0 .. Chunks - 1 /\ Position(c) + 1 \in Content
           /\ 1 .. Position(c) + 1 \in Data
           /\ got'[c] = 1 .. Position(c) + 1 /\ Position(c)' = Position(c) + 1
           /\ \A d \in Calls : d # c => Position(d)' = Position(d)
<1>1. Position(c) \in 0 .. Chunks /\ Position(c) < Chunks
  BY DEF WriteChunk, MoreToWrite, At, BlobTyped
<1>2. Position(c) \in 0 .. Chunks - 1 /\ Position(c) + 1 \in Content /\ 1 .. Position(c) + 1 \in Data
  BY <1>1, ConstantsAssumption DEF Data, Content
<1>3. got' = [got EXCEPT ![c] = 1 .. Position(c) + 1]
  BY DEF WriteChunk
<1>4. got'[c] = 1 .. Position(c) + 1 /\ \A d \in Calls : d # c => got'[d] = got[d]
  BY <1>3 DEF BlobTyped
<1>5. Cardinality(1 .. Position(c) + 1) = Position(c) + 1
  BY <1>2, FS_Interval, ConstantsAssumption
<1>6. got'[c] # NoFile
  BY <1>2, <1>4, ConstantsAssumption DEF Data, Content
<1> QED
  BY <1>2, <1>4, <1>5, <1>6 DEF Position

(* Only a deletion takes the blob away.                                    *)
LEMMA EntryMoves ==
    ASSUME NEW c \in Calls, Step(c) \/ Crash(c)
    PROVE  \/ entry' \in {entry, c} /\ (pc[c] # "open" => entry' = entry)
           \/ DeleteInner(c)
<1>1. CASE UploadObject(c) \/ OpenFile(c)
  BY <1>1 DEF UploadObject, OpenFile, At
<1>2. CASE Begin(c) \/ PutCheck(c) \/ WriteChunk(c) \/ CloseFile(c) \/ Crash(c)
  BY <1>2 DEF Begin, PutCheck, WriteChunk, CloseFile, Crash
<1>3. CASE GetCheck(c) \/ OpenForRead(c) \/ ReadFile(c) \/ FillCache(c) \/ DropCache(c)
  BY <1>3 DEF GetCheck, OpenForRead, ReadFile, FillCache, DropCache
<1> QED
  BY <1>1, <1>2, <1>3 DEF Step

(* The roles are kept.                                                     *)
LEMMA RolesStep ==
    ASSUME BlobInv, NEW c \in Calls, Step(c) \/ Crash(c), NEW d \in Calls
    PROVE  Role(d)'
<1>1. BlobTyped /\ Role(d) /\ Role(c)
  BY DEF BlobInv
<1>2. UNCHANGED config /\ (d # c => pc'[d] = pc[d])
  BY <1>1, OneMoves
<1>3. CASE d # c
  BY <1>1, <1>2, <1>3 DEF Role, config
<1> SUFFICES ASSUME d = c PROVE Role(c)'
  BY <1>3
<1>4. kind' = kind /\ kind[c] \in Kinds
  BY <1>1, <1>2 DEF config, BlobTyped
<1>5. CASE Begin(c) \/ Crash(c)
  BY <1>1, <1>4, <1>5 DEF Begin, Crash, Goto, Role, BlobTyped
<1>6. CASE PutCheck(c) \/ UploadObject(c) \/ OpenFile(c) \/ WriteChunk(c) \/ CloseFile(c)
  BY <1>1, <1>4, <1>6 DEF PutCheck, UploadObject, OpenFile, WriteChunk, CloseFile,
     Goto, At, AfterInner, Role, BlobTyped
<1>7. CASE GetCheck(c) \/ OpenForRead(c) \/ ReadFile(c)
  BY <1>1, <1>4, <1>7 DEF GetCheck, OpenForRead, ReadFile, Goto, At, AfterInner, Role, BlobTyped
<1>8. CASE DeleteInner(c) \/ FillCache(c) \/ DropCache(c)
  BY <1>1, <1>4, <1>8 DEF DeleteInner, FillCache, DropCache, Goto, At, AfterInner, Role, BlobTyped
<1> QED
  BY <1>5, <1>6, <1>7, <1>8 DEF Step

(* Types are kept.                                                         *)
LEMMA BlobTypedStep ==
    ASSUME BlobInv, NEW c \in Calls, Step(c) \/ Crash(c)
    PROVE  BlobTyped'
<1>1. BlobTyped /\ LocalFiles
  BY DEF BlobInv
<1>2. /\ UNCHANGED config /\ pc' \in [Calls -> Steps]
      /\ \A d \in Calls : d # c => pc'[d] = pc[d]
  BY <1>1, OneMoves
<1>3. before' \in [Calls -> SUBSET Calls]
  BY <1>1, OneMoves DEF BlobTyped, EndedCalls
<1>4. Puts' = Puts
  BY <1>2 DEF config, Puts
<1> USE DEF config
<1>5. CASE Begin(c)
  <2>1. pc'[c] \in {"done", "inner"} /\ got' \in [Calls -> Data \cup {NoFile}]
    BY <1>1, <1>5 DEF Begin, Goto, BlobTyped
  <2>2. \A d \in Calls : d # c => got'[d] = got[d]
    BY <1>1, <1>5 DEF Begin, BlobTyped
  <2> QED
    BY <1>1, <1>2, <1>3, <1>4, <1>5, <2>1, <2>2 DEF Begin, BlobTyped, Position
<1>6. CASE PutCheck(c) \/ CloseFile(c) \/ DropCache(c) \/ Crash(c) \/ DeleteInner(c)
  <2>1. pc'[c] \in {"done", "open", "fill", "drop", "crashed"}
    BY <1>1, <1>6 DEF PutCheck, CloseFile, DropCache, Crash, DeleteInner, Goto, AfterInner, BlobTyped
  <2> QED
    BY <1>1, <1>2, <1>3, <1>4, <1>6, <2>1
       DEF PutCheck, CloseFile, DropCache, Crash, DeleteInner, BlobTyped, Position
<1>7. CASE UploadObject(c)
  <2>1. pc'[c] \in {"done", "fill"}
    BY <1>1, <1>7 DEF UploadObject, Goto, AfterInner, BlobTyped
  <2> QED
    BY <1>1, <1>2, <1>3, <1>4, <1>7, <2>1 DEF UploadObject, BlobTyped, Position, Data
<1>8. CASE OpenFile(c)
  <2> DEFINE f == IF entry = NoFile THEN c ELSE entry
  <2>1. /\ f \in Calls /\ entry' = f /\ data' = [data EXCEPT ![f] = {}]
        /\ fd' = [fd EXCEPT ![c] = f] /\ UNCHANGED <<got, cache>>
        /\ backend = "local" /\ c \in Puts /\ pc[c] = "open" /\ pc'[c] = "write"
    BY <1>1, <1>8 DEF OpenFile, BlobTyped, At, Puts, Goto
  <2> HIDE DEF f
  <2>2. Position(c) = 0
    BY <1>1, <2>1 DEF LocalFiles, Progress, Position
  <2>3. 0 \in 0 .. Chunks
    BY ConstantsAssumption
  <2> QED
    BY <1>1, <1>2, <1>3, <1>4, <2>1, <2>2, <2>3 DEF Data, BlobTyped, Position
<1>9. CASE WriteChunk(c)
  <2>1. fd[c] \in Calls /\ c \in Puts /\ pc' = pc /\ UNCHANGED <<fd, entry, cache>>
    BY <1>1, <1>9 DEF WriteChunk, At, BlobTyped, Puts
  <2>2. data' \in [Calls -> Data] /\ got' \in [Calls -> Data \cup {NoFile}]
    <3> DEFINE n == Position(c) + 1
               chunks == 1 .. Position(c) + 1
    <3>1. n \in Content /\ chunks \in Data
      BY <1>1, <1>9, NextChunk
    <3>2. /\ data' = [data EXCEPT ![fd[c]] = @ \cup {n}] /\ got' = [got EXCEPT ![c] = chunks]
      BY <1>9 DEF WriteChunk
    <3> HIDE DEF n, chunks
    <3> QED
      BY <1>1, <2>1, <3>1, <3>2 DEF BlobTyped, Data
  <2>3. Position(c)' \in 0 .. Chunks
    BY <1>1, <1>9, NextChunk, ConstantsAssumption
  <2>4. \A d \in Calls : pc'[d] = "write" => Position(d)' \in 0 .. Chunks
    BY <1>1, <1>4, <1>9, <2>1, <2>3, NextChunk DEF BlobTyped
  <2> QED
    BY <1>1, <1>2, <1>3, <1>4, <1>9, <2>1, <2>2, <2>4 DEF BlobTyped
<1>10. CASE GetCheck(c) \/ OpenForRead(c) \/ ReadFile(c)
  <2>1. /\ pc'[c] \in {"open", "notfound", "oserror", "read", "done", "fill"}
        /\ pc'[c] = "read" => fd'[c] \in Calls
        /\ UNCHANGED <<entry, data, cache>>
    BY <1>1, <1>10 DEF GetCheck, OpenForRead, ReadFile, Goto, AfterInner, BlobTyped
  <2>2. /\ fd' \in [Calls -> Calls \cup {NoFile}] /\ got' \in [Calls -> Data \cup {NoFile}]
        /\ \A d \in Calls : d # c => fd'[d] = fd[d] /\ got'[d] = got[d]
    BY <1>1, <1>10 DEF GetCheck, OpenForRead, ReadFile, At, BlobTyped
  <2> QED
    BY <1>1, <1>2, <1>3, <1>4, <2>1, <2>2 DEF BlobTyped, Position
<1>11. CASE FillCache(c)
  <2>1. pc'[c] = "done" /\ UNCHANGED <<fd, got, entry, data>> /\ cache' \in Data \cup {NoFile}
    BY <1>1, <1>11 DEF FillCache, Goto, BlobTyped, Data
  <2> QED
    BY <1>1, <1>2, <1>3, <1>4, <2>1 DEF BlobTyped, Position
<1> QED
  BY <1>5, <1>6, <1>7, <1>8, <1>9, <1>10, <1>11 DEF Step


(* What has ended stays so, and nobody looks back twice.                   *)
LEMMA PastStep ==
    ASSUME BlobInv, NEW c \in Calls, Step(c) \/ Crash(c)
    PROVE  Past'
<1>1. BlobTyped /\ Past
  BY DEF BlobInv
<1>2. /\ UNCHANGED config /\ pc[c] \notin Ended /\ pc'[c] # "call"
      /\ \A d \in Calls : d # c => pc'[d] = pc[d]
  BY <1>1, OneMoves
<1>3. ASSUME NEW b \in Calls, NEW d \in before'[b] PROVE pc'[d] \in Ended
  <2>1. d \in before[b] \/ d \in EndedCalls
    BY <1>1, <1>3, OneMoves DEF BlobTyped
  <2>2. pc[d] \in Ended /\ d \in Calls
    BY <1>1, <2>1 DEF Past, EndedCalls, BlobTyped
  <2> QED
    BY <1>2, <2>2
<1>4. ASSUME NEW b \in Calls, pc'[b] = "call" PROVE before'[b] = {}
  <2>1. b # c /\ pc[b] = "call"
    BY <1>2, <1>4
  <2>2. before'[b] = before[b]
    BY <1>1, <2>1, OneMoves DEF BlobTyped
  <2> QED
    BY <1>1, <2>1, <2>2 DEF Past
<1>5. ASSUME ~cached' PROVE cache' = NoFile /\ \A d \in Calls : pc'[d] \notin {"fill", "drop"}
  <2>1. ~cached /\ cache = NoFile /\ \A d \in Calls : pc[d] \notin {"fill", "drop"}
    BY <1>1, <1>2, <1>5 DEF Past, config
  <2>2. cache' = cache /\ pc'[c] \notin {"fill", "drop"}
    BY <1>1, <2>1 DEF Step, Begin, PutCheck, UploadObject, OpenFile, WriteChunk, CloseFile,
       GetCheck, OpenForRead, ReadFile, DeleteInner, FillCache, DropCache, Crash,
       Goto, AfterInner, BlobTyped
  <2> QED
    BY <1>2, <2>1, <2>2
<1> QED
  BY <1>3, <1>4, <1>5 DEF Past

----------------------------------------------------------------------------
(* Files.                                                                  *)

(* Calls that write nothing leave the puts as they are.                    *)
LEMMA OthersLeaveFiles ==
    ASSUME BlobTyped, LocalFiles, UNCHANGED config, entry' \in {entry, NoFile}, data' = data,
           \A p \in Puts : pc'[p] = pc[p] /\ fd'[p] = fd[p] /\ got'[p] = got[p]
    PROVE  LocalFiles'
<1>1. Puts' = Puts
  BY DEF Puts, config
<1>2. ASSUME NEW p \in Puts, Progress(p) PROVE Progress(p)'
  BY <1>2 DEF Progress, Written, Position
<1>3. backend' = backend
  BY DEF config
<1>4. ASSUME entry' # NoFile, NEW p \in Puts, Writer(p, entry) PROVE Writer(p, entry)'
  BY <1>4 DEF Writer, Written, Position
<1> QED
  BY <1>1, <1>2, <1>3, <1>4 DEF LocalFiles, BlobTyped

(* The file of a blob is whole, or has a writer that is at work or died.   *)
LEMMA LocalFilesStep ==
    ASSUME BlobInv, NEW c \in Calls, Step(c) \/ Crash(c)
    PROVE  LocalFiles'
<1>1. BlobTyped /\ LocalFiles /\ BlobTyped'
  BY BlobTypedStep DEF BlobInv
<1>2. /\ UNCHANGED config /\ pc[c] \notin Ended /\ pc'[c] # "call"
      /\ \A d \in Calls : d # c => pc'[d] = pc[d]
  BY <1>1, OneMoves
<1>3. Puts' = Puts /\ Puts \subseteq Calls /\ backend' = backend
  BY <1>2 DEF Puts, config
<1>4. CASE c \notin Puts
  <2>1. kind[c] # "put" /\ \A p \in Puts : p # c
    BY <1>4 DEF Puts
  <2>2. CASE Begin(c)
    BY <1>1, <1>2, <1>3, <2>1, <2>2, OthersLeaveFiles DEF Begin, BlobTyped
  <2>3. CASE GetCheck(c) \/ OpenForRead(c) \/ ReadFile(c)
    BY <1>1, <1>2, <1>3, <2>1, <2>3, OthersLeaveFiles DEF GetCheck, OpenForRead, ReadFile, BlobTyped
  <2>4. CASE DeleteInner(c) \/ FillCache(c) \/ DropCache(c) \/ Crash(c)
    BY <1>1, <1>2, <1>3, <2>1, <2>4, OthersLeaveFiles DEF DeleteInner, FillCache, DropCache, Crash, BlobTyped
  <2>5. ~(PutCheck(c) \/ UploadObject(c) \/ OpenFile(c) \/ WriteChunk(c) \/ CloseFile(c))
    BY <2>1 DEF PutCheck, UploadObject, OpenFile, WriteChunk, CloseFile, At
  <2> QED
    BY <2>2, <2>3, <2>4, <2>5 DEF Step
<1>5. CASE c \in Puts /\ backend = "local"
  <2>1. kind[c] = "put"
    BY <1>5 DEF Puts
  <2>2. CASE /\ UNCHANGED <<entry, data, fd, got>>
             /\ pc'[c] \in {"inner", "open", "write"} => pc[c] \in {"call", "inner"}
             /\ pc'[c] # "write"
             /\ pc[c] \in {"fill", "done"} => pc'[c] \in {"fill", "done", "crashed"}
             /\ pc[c] = "write" /\ pc'[c] # "crashed" => pc'[c] \in {"fill", "done"} /\ Position(c) = Chunks
    <3>1. ASSUME NEW p \in Puts PROVE Progress(p)'
      BY <1>1, <1>2, <1>3, <1>5, <2>2, <3>1 DEF LocalFiles, Progress, Written, Position
    <3>2. ASSUME entry' # NoFile PROVE \E p \in Puts : Writer(p, entry)'
      <4>1. entry # NoFile /\ entry' = entry
        BY <2>2, <3>2
      <4>2. PICK p \in Puts : Writer(p, entry)
        BY <1>1, <1>5, <4>1 DEF LocalFiles
      <4>3. CASE p # c
        BY <1>2, <1>3, <2>2, <4>1, <4>2, <4>3 DEF Writer, Written, Position
      <4>4. CASE p = c /\ pc[c] = "write" /\ pc'[c] # "crashed"
        <5>1. Content \subseteq data[entry] /\ data[entry] \in Data
          BY <1>1, <2>2, <4>1, <4>2, <4>4 DEF Writer, Written, Content, BlobTyped
        <5> QED
          BY <1>3, <2>2, <4>1, <4>2, <4>4, <5>1 DEF Writer, Data
      <4>5. CASE p = c /\ ~(pc[c] = "write" /\ pc'[c] # "crashed")
        BY <1>2, <1>3, <2>2, <4>1, <4>2, <4>5 DEF Writer, Ended
      <4> QED
        BY <4>3, <4>4, <4>5
    <3> QED
      BY <1>3, <3>1, <3>2 DEF LocalFiles
  <2>3. CASE Begin(c) \/ PutCheck(c) \/ FillCache(c) \/ Crash(c)
    <3>1. /\ UNCHANGED <<entry, data, fd, got>>
          /\ pc'[c] \in {"inner", "open"} => pc[c] \in {"call", "inner"}
          /\ pc'[c] # "write"
          /\ pc[c] \in {"fill", "done"} => pc'[c] \in {"fill", "done", "crashed"}
          /\ pc[c] = "write" => pc'[c] = "crashed"
      BY <1>1, <2>1, <2>3 DEF Begin, PutCheck, FillCache, Crash, Goto, At, AfterInner, BlobTyped
    <3> QED
      BY <2>2, <3>1
  <2>4. CASE CloseFile(c)
    <3>1. /\ UNCHANGED <<entry, data, fd, got>> /\ pc'[c] \in {"fill", "done"} /\ pc[c] = "write"
      BY <1>1, <2>4 DEF CloseFile, Goto, At, AfterInner, BlobTyped
    <3>2. Position(c) \in 0 .. Chunks /\ ~(Position(c) < Chunks)
      BY <1>1, <2>4 DEF CloseFile, MoreToWrite, At, BlobTyped
    <3>3. Position(c) = Chunks
      BY <3>2, ConstantsAssumption
    <3> QED
      BY <2>2, <3>1, <3>3
  <2>5. CASE OpenFile(c)
    <3> DEFINE f == IF entry = NoFile THEN c ELSE entry
    <3>1. /\ f \in Calls /\ entry' = f /\ data' = [data EXCEPT ![f] = {}]
          /\ fd' = [fd EXCEPT ![c] = f] /\ UNCHANGED <<got, cache>>
          /\ pc[c] = "open" /\ pc'[c] = "write"
      BY <1>1, <2>5 DEF OpenFile, BlobTyped, At, Goto
    <3> HIDE DEF f
    <3>2. ASSUME NEW p \in Puts PROVE Progress(p)'
      BY <1>1, <1>2, <1>3, <1>5, <3>1, <3>2 DEF LocalFiles, Progress, Written, Position
    <3>3. Written(c)' = {}
      <4>1. Position(c)' = 0
        BY <1>1, <1>5, <3>1 DEF LocalFiles, Progress, Position
      <4> QED
        BY <4>1 DEF Written
    <3>4. Writer(c, entry)'
      BY <1>1, <3>1, <3>3 DEF Writer, BlobTyped
    <3> QED
      BY <1>3, <1>5, <3>2, <3>4 DEF LocalFiles
  <2>6. CASE WriteChunk(c)
    <3>1. /\ pc' = pc /\ pc[c] = "write" /\ fd[c] \in Calls /\ UNCHANGED <<fd, entry>>
          /\ data' = [data EXCEPT ![fd[c]] = @ \cup {Position(c) + 1}]
      BY <1>1, <2>6 DEF WriteChunk, BlobTyped, At
    <3>2. /\ Position(c) \in 0 .. Chunks - 1 /\ Position(c) + 1 \in Content
          /\ got'[c] = 1 .. Position(c) + 1 /\ Position(c)' = Position(c) + 1
          /\ \A d \in Calls : d # c => Position(d)' = Position(d)
      BY <1>1, <2>6, NextChunk
    <3>3. \A d \in Calls : d # c => got'[d] = got[d]
      BY <1>1, <2>6 DEF WriteChunk, BlobTyped
    <3>4. ASSUME NEW p \in Puts PROVE Progress(p)'
      BY <1>1, <1>3, <1>5, <3>1, <3>2, <3>3 DEF LocalFiles, Progress, Written
    <3>5. \A f \in Calls : data[f] \subseteq data'[f] /\ data'[f] \subseteq Content
      BY <1>1, <3>1, <3>2 DEF BlobTyped, Data
    <3>6. ASSUME entry' # NoFile PROVE \E p \in Puts : Writer(p, entry)'
      <4>1. entry # NoFile /\ entry' = entry /\ entry \in Calls
        BY <1>1, <3>1, <3>6 DEF BlobTyped
      <4>2. PICK p \in Puts : Writer(p, entry)
        BY <1>1, <1>5, <4>1 DEF LocalFiles
      <4>3. CASE p # c
        BY <1>3, <3>1, <3>2, <3>5, <4>1, <4>2, <4>3 DEF Writer, Written
      <4>4. CASE p = c
        <5>1. Written(c)' \subseteq data'[entry]
          <6>1. \A n \in 1 .. Position(c) + 1 : n \in 1 .. Position(c) \/ n = Position(c) + 1
            BY <3>2, ConstantsAssumption
          <6>2. Position(c) + 1 \in data'[entry]
            BY <1>1, <3>1, <4>1, <4>2, <4>4 DEF Writer, BlobTyped
          <6>3. 1 .. Position(c) \subseteq data[entry]
            BY <3>1, <4>2, <4>4 DEF Writer, Written
          <6> QED
            BY <3>2, <3>5, <4>1, <6>1, <6>2, <6>3 DEF Written
        <5> QED
          BY <3>1, <4>1, <4>2, <4>4, <5>1 DEF Writer
      <4> QED
        BY <4>3, <4>4
    <3> QED
      BY <1>3, <3>4, <3>6 DEF LocalFiles
  <2>7. ~(UploadObject(c) \/ GetCheck(c) \/ OpenForRead(c) \/ ReadFile(c) \/ DeleteInner(c))
    BY <1>5, <2>1 DEF UploadObject, GetCheck, OpenForRead, ReadFile, DeleteInner, At
  <2>8. ~DropCache(c)
    BY <2>1 DEF BlobInv, DropCache, Role
  <2> QED
    BY <2>3, <2>4, <2>5, <2>6, <2>7, <2>8 DEF Step
<1>6. backend # "local" => LocalFiles'
  BY <1>3 DEF LocalFiles
<1> QED
  BY <1>4, <1>5, <1>6


----------------------------------------------------------------------------
(* Objects.                                                                *)

(* An object, and what is cached or read of it, is whole.                  *)
LEMMA ObjectsStep ==
    ASSUME BlobInv, NEW c \in Calls, Step(c) \/ Crash(c)
    PROVE  Objects'
<1>1. BlobTyped /\ Objects
  BY DEF BlobInv
<1>2. /\ UNCHANGED config /\ pc[c] \notin Ended /\ pc'[c] # "call"
      /\ \A d \in Calls : d # c => pc'[d] = pc[d]
  BY <1>1, OneMoves
<1>3. Puts' = Puts /\ Gets' = Gets /\ backend' = backend /\ Puts \subseteq Calls /\ Gets \subseteq Calls
  BY <1>2 DEF Puts, Gets, config
<1> SUFFICES ASSUME backend = "s3" PROVE Objects'
  BY <1>3 DEF Objects
<1>4. /\ entry # NoFile => data[entry] = Content
      /\ cache # NoFile => cache = Content
      /\ \A p \in Puts : pc[p] # "write"
      /\ \A g \in Gets : /\ pc[g] \in {"call", "inner", "fill", "done", "notfound", "crashed"}
                         /\ pc[g] \in {"fill", "done"} => got[g] = Content
  BY <1>1 DEF Objects
<1>5. ~(OpenFile(c) \/ WriteChunk(c) \/ CloseFile(c) \/ OpenForRead(c) \/ ReadFile(c))
  BY <1>1, <1>4 DEF OpenFile, WriteChunk, CloseFile, OpenForRead, ReadFile, At, Gets, Puts
<1>6. entry' # NoFile => data'[entry'] = Content
  BY <1>1, <1>4, <1>5 DEF Step, Begin, PutCheck, UploadObject, GetCheck, DeleteInner, FillCache,
     DropCache, Crash, BlobTyped
<1>7. cache' # NoFile => cache' = Content
  <2>1. FillCache(c) => kind[c] = "put" \/ c \in Gets
    BY DEF BlobInv, FillCache, Role, Gets
  <2> QED
    BY <1>1, <1>4, <1>5, <2>1 DEF Step, Begin, PutCheck, UploadObject, GetCheck, DeleteInner, FillCache,
     DropCache, Crash, BlobTyped, Kinds, Gets
<1>8. pc'[c] # "write"
  BY <1>1, <1>4, <1>5 DEF Step, Begin, PutCheck, UploadObject, GetCheck, DeleteInner, FillCache,
     DropCache, Crash, BlobTyped, Goto, AfterInner
<1>9. c \in Gets => /\ pc'[c] \in {"inner", "fill", "done", "notfound", "crashed"}
                    /\ pc'[c] \in {"fill", "done"} => got'[c] = Content
  BY <1>1, <1>4, <1>5 DEF Step, Begin, PutCheck, UploadObject, GetCheck, DeleteInner, FillCache,
     DropCache, Crash, BlobTyped, Goto, AfterInner, At, Gets
<1>10. \A d \in Calls : d # c => got'[d] = got[d]
  BY <1>1, <1>5 DEF Step, Begin, PutCheck, UploadObject, GetCheck, DeleteInner, FillCache,
     DropCache, Crash, BlobTyped
<1> QED
  BY <1>2, <1>3, <1>4, <1>6, <1>7, <1>8, <1>9, <1>10 DEF Objects

(* An object that was put stays while nobody deletes it, and who asks for  *)
(* it finds it.                                                            *)
LEMMA StoredStep ==
    ASSUME BlobInv, NEW c \in Calls, Step(c) \/ Crash(c)
    PROVE  Stored'
<1>1. BlobTyped /\ Past /\ Objects /\ Stored
  BY DEF BlobInv
<1>2. /\ UNCHANGED config /\ pc[c] \notin Ended /\ pc'[c] # "call"
      /\ \A d \in Calls : d # c => pc'[d] = pc[d]
  BY <1>1, OneMoves
<1>3. /\ Puts' = Puts /\ Gets' = Gets /\ Deletes' = Deletes /\ backend' = backend
      /\ Puts \subseteq Calls /\ Gets \subseteq Calls /\ Deletes \subseteq Calls
  BY <1>2 DEF Puts, Gets, Deletes, config
<1> SUFFICES ASSUME backend = "s3" PROVE Stored'
  BY <1>3 DEF Stored
<1>4. ASSUME NEW p \in Calls, pc[p] # "call"
      PROVE  before'[p] = before[p] /\ (Undeleted(p)' => Undeleted(p))
  <2>1. before'[p] = before[p]
    BY <1>1, <1>4, OneMoves DEF BlobTyped
  <2>2. \A d \in Calls : pc'[d] = "call" => pc[d] = "call"
    BY <1>2
  <2> QED
    BY <1>3, <2>1, <2>2 DEF Undeleted, Apart
<1>5. ASSUME NEW p \in Puts, pc'[p] \in {"fill", "done"}, Undeleted(p)'
      PROVE  entry' # NoFile
  <2>1. p \in Calls /\ kind[p] = "put" /\ pc[p] \notin {"call", "write"} 
    BY <1>1, <1>2, <1>5 DEF Puts, Objects, Step, Begin, Goto, Crash, BlobTyped, PutCheck,
       UploadObject, OpenFile, WriteChunk, CloseFile, GetCheck, OpenForRead, ReadFile,
       DeleteInner, FillCache, DropCache, At
  <2>2. Undeleted(p) /\ before'[p] = before[p]
    BY <1>4, <1>5, <2>1
  <2>3. CASE pc[p] \in {"fill", "done"}
    <3>1. entry # NoFile
      BY <1>1, <1>5, <2>2, <2>3 DEF Stored
    <3>2. ~DeleteInner(c)
      <4> SUFFICES ASSUME DeleteInner(c) PROVE FALSE
        OBVIOUS
      <4>1. c \in Deletes /\ pc[c] = "inner"
        BY DEF DeleteInner, At, Deletes
      <4>2. c \notin before[p]
        BY <1>2, <2>1, <1>1 DEF Past
      <4> QED
        BY <2>2, <4>1, <4>2 DEF Undeleted, Apart
    <3> QED
      BY <1>2, <3>1, <3>2, EntryMoves, ConstantsAssumption
  <2>4. CASE pc[p] \notin {"fill", "done"}
    <3>1. p = c /\ pc'[c] # pc[c] /\ pc'[c] # "crashed"
      BY <1>2, <1>3, <1>5, <2>4
    <3>2. (PutCheck(c) /\ entry # NoFile) \/ UploadObject(c)
      <4>1. /\ kind[c] = "put" /\ pc[c] \notin {"call", "write", "fill", "done"}
            /\ pc'[c] \in {"fill", "done"}
        BY <1>5, <2>1, <2>4, <3>1
      <4>2. ~(Begin(c) \/ WriteChunk(c) \/ CloseFile(c) \/ FillCache(c) \/ Crash(c))
        BY <1>1, <3>1, <4>1 DEF Begin, WriteChunk, CloseFile, FillCache, Crash, At, Goto, BlobTyped
      <4>3. ~(GetCheck(c) \/ OpenForRead(c) \/ ReadFile(c) \/ DeleteInner(c))
        BY <4>1 DEF GetCheck, OpenForRead, ReadFile, DeleteInner, At
      <4>4. ~DropCache(c)
        BY <4>1 DEF BlobInv, Role, DropCache
      <4>5. ~OpenFile(c)
        BY DEF OpenFile
      <4>6. PutCheck(c) => entry # NoFile
        BY <1>1, <4>1 DEF PutCheck, Present, Goto, BlobTyped
      <4> QED
        BY <4>2, <4>3, <4>4, <4>5, <4>6 DEF Step
    <3> QED
      BY <3>2, ConstantsAssumption DEF PutCheck, UploadObject
  <2> QED
    BY <2>3, <2>4
<1>6. ASSUME NEW g \in Gets, NEW p \in before'[g] \cap Puts, pc'[g] = "notfound", pc'[p] = "done",
             Undeleted(p)'
      PROVE  FALSE
  <2>1. pc[g] # "call" /\ kind[g] = "get" /\ g \in Calls /\ p \in Calls
    BY <1>1, <1>2, <1>6 DEF Gets, Puts, Step, Begin, Goto, Crash, BlobTyped, PutCheck,
       UploadObject, OpenFile, WriteChunk, CloseFile, GetCheck, OpenForRead, ReadFile,
       DeleteInner, FillCache, DropCache, At
  <2>2. before'[g] = before[g]
    BY <1>4, <2>1
  <2>3. pc[p] \in Ended
    BY <1>1, <1>6, <2>1, <2>2 DEF Past
  <2>4. pc[p] = "done" /\ pc[p] # "call"
    BY <1>2, <1>6, <2>1, <2>3 DEF Ended
  <2>5. Undeleted(p)
    BY <1>4, <1>6, <2>1, <2>4
  <2>6. CASE pc[g] = "notfound"
    BY <1>1, <1>6, <2>2, <2>4, <2>5, <2>6 DEF Stored
  <2>7. CASE pc[g] # "notfound"
    <3>1. g = c
      BY <1>2, <1>6, <2>7, <2>1
    <3>2. GetCheck(c) /\ entry = NoFile
      BY <1>1, <1>6, <2>1, <2>7, <3>1 DEF Step, Begin, PutCheck, UploadObject, OpenFile, WriteChunk,
         CloseFile, GetCheck, OpenForRead, ReadFile, DeleteInner, FillCache, DropCache, Crash,
         Goto, At, AfterInner, BlobTyped
    <3> QED
      BY <1>1, <1>6, <2>4, <2>5, <3>2 DEF Stored
  <2> QED
    BY <2>6, <2>7
<1> QED
  BY <1>3, <1>5, <1>6 DEF Stored


----------------------------------------------------------------------------
(* Deletions.                                                              *)

(* After a deletion that nothing overlaps nothing comes back.              *)
LEMMA GoneStep ==
    ASSUME BlobInv, NEW c \in Calls, Step(c) \/ Crash(c)
    PROVE  Gone'
<1>1. BlobTyped /\ Past /\ Gone /\ Role(c)
  BY DEF BlobInv
<1>2. /\ UNCHANGED config /\ pc[c] \notin Ended /\ pc'[c] # "call"
      /\ \A d \in Calls : d # c => pc'[d] = pc[d]
  BY <1>1, OneMoves
<1>3. /\ Puts' = Puts /\ Gets' = Gets /\ Deletes' = Deletes /\ cached' = cached
      /\ Puts \subseteq Calls /\ Gets \subseteq Calls /\ Deletes \subseteq Calls
      /\ Puts \cap Deletes = {} /\ Gets \cap Deletes = {} /\ Calls = Puts \cup Gets \cup Deletes
  BY <1>1, <1>2 DEF Puts, Gets, Deletes, config, BlobTyped, Kinds
<1> SUFFICES ASSUME NEW d \in Deletes, Quiet(d)'
             PROVE  /\ pc'[d] = "drop" => entry' = NoFile
                    /\ pc'[d] = "done" =>
                          /\ entry' = NoFile /\ cache' = NoFile
                          /\ \A g \in Gets : d \in before'[g] => pc'[g] \in {"inner", "notfound", "crashed"}
  BY <1>3 DEF Gone
<1>4. CASE pc[d] = "call"
  <2>1. pc'[d] \notin {"drop", "done"}
    <3>1. CASE d # c
      BY <1>2, <1>3, <1>4, <3>1
    <3>2. CASE d = c
      <4>1. Begin(c) \/ Crash(c)
        BY <1>4, <3>2 DEF Step, PutCheck, UploadObject, OpenFile, WriteChunk, CloseFile, GetCheck,
           OpenForRead, ReadFile, DeleteInner, FillCache, DropCache, At
      <4> QED
        BY <1>1, <3>2, <4>1 DEF Begin, Crash, Goto, BlobTyped, Deletes
    <3> QED
      BY <3>1, <3>2
  <2> QED
    BY <2>1
<1>5. CASE pc[d] # "call"
  <2>1. before'[d] = before[d] /\ \A b \in Calls : pc'[b] = "call" => pc[b] = "call"
    BY <1>1, <1>2, <1>3, <1>5, OneMoves DEF BlobTyped
  <2>2. ASSUME NEW g \in Calls PROVE before'[g] = before[g] \/ (g = c /\ pc[g] = "call")
    BY <1>1, OneMoves DEF BlobTyped
  <2>3. Quiet(d)
    <3>1. ASSUME NEW b \in Calls, Apart(b, d)' PROVE Apart(b, d)
      BY <2>1, <3>1 DEF Apart
    <3>2. ASSUME NEW g \in Gets, d \in before'[g] PROVE Apart(g, d) \/ d \in before[g]
      BY <1>3, <2>2, <3>2 DEF Apart
    <3> QED
      BY <1>3, <3>1, <3>2 DEF Quiet
  <2>4. \A b \in before[d] : pc[b] \in Ended
    BY <1>1, <1>3 DEF Past
  <2>5. ASSUME c \in Puts PROVE pc[c] = "call" /\ pc'[c] # "done"
    <3>1. pc[c] = "call"
      BY <1>2, <2>3, <2>4, <2>5 DEF Quiet, Apart
    <3>2. Begin(c) \/ Crash(c)
      BY <3>1 DEF Step, PutCheck, UploadObject, OpenFile, WriteChunk, CloseFile, GetCheck,
         OpenForRead, ReadFile, DeleteInner, FillCache, DropCache, At
    <3> QED
      BY <1>1, <2>5, <3>1, <3>2 DEF Begin, Crash, Goto, BlobTyped, Puts
  <2>6. entry' = entry \/ entry' = NoFile
    <3>1. UploadObject(c) \/ OpenFile(c) => FALSE
      BY <2>5 DEF UploadObject, OpenFile, At, Puts
    <3> QED
      BY <3>1 DEF Step, Begin, PutCheck, WriteChunk, CloseFile, GetCheck, OpenForRead, ReadFile,
         DeleteInner, FillCache, DropCache, Crash
  <2>7. CASE pc[d] \notin {"drop", "done"}
    <3>1. d # c => pc'[d] \notin {"drop", "done"}
      BY <1>2, <1>3, <2>7
    <3>2. d = c /\ pc'[c] \in {"drop", "done"} => DeleteInner(c)
      <4>1. d = c => kind[c] = "delete" /\ pc[c] # "fill"
        BY <1>1 DEF Deletes, Role
      <4> QED
        BY <1>1, <1>5, <2>7, <4>1 DEF Step, Begin, PutCheck, UploadObject, OpenFile, WriteChunk,
           CloseFile, GetCheck, OpenForRead, ReadFile, FillCache, DropCache, Crash, Goto, At, BlobTyped
    <3>3. d = c /\ DeleteInner(c) => /\ entry' = NoFile /\ cache' = cache /\ before' = before
                                     /\ pc'[c] = "done" => ~cached
      BY <1>1 DEF DeleteInner, Goto, AfterInner, BlobTyped
    <3>4. ~cached => cache = NoFile
      BY <1>1 DEF Past
    <3>5. \A g \in Gets : d \notin before[g] \/ pc[d] \in Ended
      BY <1>1, <1>3 DEF Past
    <3>6. d = c => pc[d] \notin Ended
      BY <1>2
    <3> QED
      BY <3>1, <3>2, <3>3, <3>4, <3>5, <3>6
  <2>8. CASE pc[d] = "drop"
    <3>1. entry' = NoFile
      BY <1>1, <2>3, <2>6, <2>8 DEF Gone
    <3>2. ASSUME pc'[d] = "done" PROVE d = c /\ cache' = NoFile /\ before' = before
      <4>1. d = c
        BY <1>2, <1>3, <2>8, <3>2
      <4>2. DropCache(c)
        BY <1>1, <2>8, <3>2, <4>1 DEF Step, Begin, PutCheck, UploadObject, OpenFile, WriteChunk,
           CloseFile, GetCheck, OpenForRead, ReadFile, DeleteInner, FillCache, Crash, Goto, At, BlobTyped
      <4> QED
        BY <4>1, <4>2 DEF DropCache
    <3>3. \A g \in Gets : d \notin before[g]
      BY <1>1, <1>3, <2>8 DEF Past, Ended
    <3> QED
      BY <3>1, <3>2, <3>3
  <2>9. CASE pc[d] = "done"
    <3>1. /\ entry = NoFile /\ cache = NoFile
          /\ \A g \in Gets : d \in before[g] => pc[g] \in {"inner", "notfound", "crashed"}
      BY <1>1, <2>3, <2>9 DEF Gone
    <3>2. ASSUME c \in Gets
          PROVE  (pc[c] = "call" \/ d \in before[c]) /\ pc[c] # "fill"
      <4>1. c \notin before[d]
        BY <1>2, <2>4
      <4> QED
        BY <2>3, <3>1, <3>2, <4>1 DEF Quiet, Apart
    <3>3. ~FillCache(c)
      BY <1>1, <2>5, <3>2 DEF FillCache, Role, Puts, Gets
    <3>4. cache' = NoFile
      BY <3>1, <3>3 DEF Step, Begin, PutCheck, UploadObject, OpenFile, WriteChunk, CloseFile,
         GetCheck, OpenForRead, ReadFile, DeleteInner, DropCache, Crash
    <3>5. ASSUME NEW g \in Gets, d \in before'[g] PROVE pc'[g] \in {"inner", "notfound", "crashed"}
      <4>1. CASE g # c
        BY <1>2, <1>3, <2>2, <3>1, <3>5, <4>1
      <4>2. CASE g = c
        <5>1. pc[c] \in {"call", "inner"}
          BY <1>2, <3>1, <3>2, <3>5, <4>2 DEF Ended
        <5>2. Begin(c) \/ Crash(c) \/ GetCheck(c)
          BY <4>2, <5>1 DEF Step, PutCheck, UploadObject, OpenFile, WriteChunk, CloseFile,
             OpenForRead, ReadFile, DeleteInner, FillCache, DropCache, At, Gets
        <5> QED
          BY <1>1, <3>1, <4>2, <5>2 DEF Begin, Crash, GetCheck, Goto, BlobTyped
      <4> QED
        BY <4>1, <4>2
    <3> QED
      BY <2>6, <2>9, <3>1, <3>4, <3>5, <1>2, <1>3 DEF Ended
  <2> QED
    BY <2>7, <2>8, <2>9
<1> QED
  BY <1>4, <1>5


----------------------------------------------------------------------------
(* The invariant.                                                          *)

(* An eviction, or nothing.                                                *)
LEMMA EvictKeeps == BlobInv /\ (Evict \/ UNCHANGED vars) => BlobInv'
<1> SUFFICES ASSUME BlobInv, Evict \/ UNCHANGED vars PROVE BlobInv'
  OBVIOUS
<1>1. /\ UNCHANGED <<backend, cached, kind, pc, fd, got, entry, data, before>>
      /\ cache' \in {cache, NoFile}
  BY DEF Evict, vars, config
<1>2. Puts' = Puts /\ Gets' = Gets /\ Deletes' = Deletes
  BY <1>1 DEF Puts, Gets, Deletes
<1>3. BlobTyped'
  BY <1>1 DEF BlobInv, BlobTyped, Position
<1>4. (\A c \in Calls : Role(c))'
  BY <1>1 DEF BlobInv, Role
<1>5. Past'
  BY <1>1 DEF BlobInv, Past
<1>6. LocalFiles'
  BY <1>1, <1>2 DEF BlobInv, LocalFiles, Progress, Writer, Written, Position
<1>7. Objects'
  BY <1>1, <1>2 DEF BlobInv, Objects
<1>8. Stored'
  BY <1>1, <1>2 DEF BlobInv, Stored, Undeleted, Apart
<1>9. Gone'
  <2>1. \A d \in Deletes : Quiet(d)' => Quiet(d)
    BY <1>1, <1>2 DEF Quiet, Apart
  <2> QED
    BY <1>1, <1>2, <2>1 DEF BlobInv, Gone
<1> QED
  BY <1>3, <1>4, <1>5, <1>6, <1>7, <1>8, <1>9 DEF BlobInv

(* Nothing is stored or cached, and nobody has begun.                      *)
LEMMA BlobInit == Init => BlobInv
<1> SUFFICES ASSUME Init PROVE BlobInv
  OBVIOUS
<1>1. \A c \in Calls : pc[c] = "call" /\ got[c] = NoFile /\ before[c] = {}
  BY DEF Init
<1>2. BlobTyped
  BY <1>1 DEF Init, BlobTyped, Data, Steps
<1>3. \A c \in Calls : Role(c)
  BY <1>1 DEF Role
<1>4. Past
  BY <1>1 DEF Init, Past
<1>5. LocalFiles
  BY <1>1 DEF Init, LocalFiles, Progress, Puts
<1>6. Objects /\ Stored
  BY <1>1 DEF Init, Objects, Stored, Gets, Puts
<1>7. Gone
  BY <1>1 DEF Gone, Deletes
<1> QED
  BY <1>2, <1>3, <1>4, <1>5, <1>6, <1>7 DEF BlobInv

(* The invariant of the blob stores.                                       *)
THEOREM BlobInvariance == Spec => []BlobInv
<1>1. BlobInv /\ [Next]_vars => BlobInv'
  BY EvictKeeps, BlobTypedStep, RolesStep, PastStep, LocalFilesStep, ObjectsStep, StoredStep,
     GoneStep DEF Next, BlobInv
<1> QED
  BY <1>1, BlobInit, PTL DEF Spec

(* However many puts write and truncate one file at a time, and die where  *)
(* they may, it is whole unless one of them is at work on it or died at it *)
(* (local_blob.py:26-33).                                                  *)
THEOREM TornFilesHaveWriters == Spec => []TornMeansWriter
<1>1. BlobInv => TornMeansWriter
  <2> SUFFICES ASSUME BlobInv, entry # NoFile, data[entry] # Content
               PROVE  \E p \in Puts : fd[p] = entry /\ pc[p] \in {"write", "crashed"}
    BY DEF TornMeansWriter
  <2>1. backend = "local"
    BY ConstantsAssumption DEF BlobInv, BlobTyped, Objects
  <2> QED
    BY <2>1 DEF BlobInv, LocalFiles, Writer
<1> QED
  BY <1>1, BlobInvariance, PTL

(* On an object store, with or without the cache, a blob whose put has     *)
(* returned and that nobody deletes since is returned to every later get,  *)
(* and no get ever returns part of a blob (s3_blob.py, cached_blob.py).    *)
THEOREM ObjectsAreReadable == Spec => []ObjectReadable
<1>1. BlobInv => ObjectReadable
  <2> SUFFICES ASSUME BlobInv, backend = "s3" PROVE ObjectReadable
    BY DEF ObjectReadable
  <2>1. \A c \in Gets : pc[c] = "done" => got[c] = Content
    BY DEF BlobInv, Objects
  <2>2. ASSUME NEW c \in Gets, pc[c] \in Ended \ {"crashed"}, NEW p \in before[c], Standing(p)
        PROVE  pc[c] = "done"
    <3>1. p \in Puts /\ pc[p] = "done" /\ Undeleted(p)
      BY <2>2 DEF Standing, At, Puts, Undeleted, BlobInv, BlobTyped, Gets
    <3> QED
      BY <2>2, <3>1 DEF BlobInv, Stored, Objects, Ended
  <2> QED
    BY <2>1, <2>2 DEF ObjectReadable, StoredBlobReadable
<1> QED
  BY <1>1, BlobInvariance, PTL

(* After a deletion that no put and no get overlapped, nobody finds the    *)
(* blob, in the store or in the cache (cached_blob.py).                    *)
THEOREM DeletedBlobsAreGone == Spec => []DeletedIsGone
<1>1. BlobInv => DeletedIsGone
  BY DEF BlobInv, Gone, Quiet, DeletedIsGone, Deletes
<1> QED
  BY <1>1, BlobInvariance, PTL
=============================================================================
