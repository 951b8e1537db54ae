------------------------------- MODULE GridFS -------------------------------
(***************************************************************************)
(* gridfs/__init__.py and grid_file.py: files that are stored in chunks.   *)
(* Writers that use one _id, whoever reads it, and a deletion meet in the  *)
(* two collections; files of different _ids share nothing.                 *)
(*                                                                         *)
(* Chunks are inserted without waiting for the server, so each command is  *)
(* a step, and an insertion may come to nothing.  The bytes of a writer    *)
(* are numbered in the order in which they are passed to write.  intact    *)
(* records, for the properties, that no chunk of the writer was dropped,   *)
(* and that nothing was written after a close that had failed had flushed  *)
(* a short chunk.                                                          *)
(***************************************************************************)
EXTENDS Integers, Sequences

CONSTANTS Writers, Readers, NoWriter,
          chunkSize,
          MaxBytes,      \* bound on what a writer writes
          WriteSizes,    \* how much is passed to write
          ReadSizes,     \* how much is asked of read
          Positions      \* of seek

ASSUME GridAssumption ==
  /\ NoWriter \notin Writers
  /\ chunkSize \in Nat \ {0} /\ MaxBytes \in Nat
  /\ WriteSizes \subseteq Nat /\ ReadSizes \subseteq Nat /\ Positions \subseteq Nat

VARIABLES file,          \* the document in files
          chunk,         \* the documents in chunks, by n
          gridIn,        \* the GridIn of every writer
          gridOut,       \* the GridOut of every reader
          deletion       \* how far delete is

gridVars == <<file, chunk, gridIn, gridOut, deletion>>

Bytes == Writers \X (1..MaxBytes)
ChunkNumbers == 0..MaxBytes
Data == Seq(Bytes)                       \* of no more than chunkSize bytes

NoFile == [owner |-> NoWriter, length |-> 0]
NoChunk == [owner |-> NoWriter, data |-> <<>>]

\* left: what write has not yet read of its argument.
GridIn == [pc : {"open", "flushBuffer", "loop", "insert", "closed"},
           buffer : Data, left : 0..MaxBytes, given : 0..MaxBytes,
           position : 0..MaxBytes, chunk_number : ChunkNumbers,
           intact : BOOLEAN]

\* n and had belong to read: the next chunk, and how much was in the buffer.
GridOut == [pc : {"none", "open", "reading"},
            file : [owner : Writers \union {NoWriter}, length : 0..MaxBytes],
            position : Nat, buffer : Seq(Bytes), size : 0..MaxBytes,
            n : ChunkNumbers, had : Nat]

GridTypeOK ==
  /\ file \in [owner : Writers \union {NoWriter}, length : 0..MaxBytes]
  /\ chunk \in [ChunkNumbers -> [owner : Writers \union {NoWriter}, data : Data]]
  /\ \A n \in ChunkNumbers : Len(chunk[n].data) <= chunkSize
  /\ gridIn \in [Writers -> GridIn]
  /\ \A w \in Writers : Len(gridIn[w].buffer) <= chunkSize
  /\ gridOut \in [Readers -> GridOut]
  /\ deletion \in {"none", "chunks", "done"}

GridInit ==
  /\ file = NoFile
  /\ chunk = [n \in ChunkNumbers |-> NoChunk]
  /\ gridIn = [w \in Writers |->
       [pc |-> "open", buffer |-> <<>>, left |-> 0, given |-> 0, position |-> 0,
        chunk_number |-> 0, intact |-> TRUE]]
  /\ gridOut = [r \in Readers |->
       [pc |-> "none", file |-> NoFile, position |-> 0, buffer |-> <<>>,
        size |-> 0, n |-> 0, had |-> 0]]
  /\ deletion = "none"

SetIn(w, g) == gridIn' = [gridIn EXCEPT ![w] = g]
SetOut(r, g) == gridOut' = [gridOut EXCEPT ![r] = g]

----------------------------------------------------------------------------
(* GridIn *)

\* The next n bytes of what write was given.
Taken(w, g, n) == [i \in 1..n |-> <<w, g.given - g.left + i>>]

SetFields(w, g) == SetIn(w, g) /\ UNCHANGED <<file, gridOut, deletion>>

\* The loop of write: as long as there is a chunk to flush; what is left then
\* goes into the buffer.
Loop(w, g) ==
  IF g.left >= chunkSize THEN [g EXCEPT !.pc = "loop"]
  ELSE [g EXCEPT !.buffer = Taken(w, g, g.left), !.left = 0, !.pc = "open"]

\* write: what is in the buffer is filled up to a chunk first.
GridWrite(w, n) ==
  LET aligned == gridIn[w].position = gridIn[w].chunk_number * chunkSize
      g == [gridIn[w] EXCEPT !.given = @ + n, !.left = n,
                             !.intact = @ /\ aligned]
      space == chunkSize - Len(g.buffer)
      some == IF n < space THEN n ELSE space
      filled == [g EXCEPT !.buffer = @ \o Taken(w, g, some), !.left = @ - some]
  IN  /\ g.pc = "open"
      /\ g.given <= MaxBytes
      /\ \/ g.buffer = <<>> /\ SetFields(w, Loop(w, g))
         \/ g.buffer # <<>> /\ n < space /\ SetFields(w, filled)
         \/ /\ g.buffer # <<>> /\ n >= space
            /\ SetFields(w, [filled EXCEPT !.pc = "flushBuffer"])
      /\ UNCHANGED chunk

\* __flush_data: the insertion of a chunk, which nobody waits for.  It is
\* dropped if there is such a chunk, or if the server fails to take it.
FlushData(w, data, g, sent) ==
  LET n == g.chunk_number
  IN  \/ /\ chunk[n] = NoChunk
         /\ chunk' = [chunk EXCEPT ![n] = [owner |-> w, data |-> data]]
         /\ SetFields(w, sent)
      \/ /\ SetFields(w, [sent EXCEPT !.intact = FALSE])
         /\ UNCHANGED chunk

Flushed(g, data) ==
  [g EXCEPT !.chunk_number = @ + 1, !.position = @ + Len(data)]

FlushBuffer(w) ==
  LET g == gridIn[w]
      sent == [Flushed(g, g.buffer) EXCEPT !.buffer = <<>>]
  IN  /\ g.pc = "flushBuffer"
      /\ FlushData(w, g.buffer, g, Loop(w, sent))

FlushChunk(w) ==
  LET g == gridIn[w]
      data == Taken(w, g, chunkSize)
      sent == [Flushed(g, data) EXCEPT !.left = @ - chunkSize]
  IN  /\ g.pc = "loop"
      /\ FlushData(w, data, g, Loop(w, sent))

\* The connection fails: an exception leaves write, what it had read is lost
\* unless it is in the buffer, and the rest of its argument too.
WriteFails(w) ==
  /\ gridIn[w].pc \in {"flushBuffer", "loop"}
  /\ SetFields(w, [gridIn[w] EXCEPT !.pc = "open", !.left = 0, !.intact = FALSE])
  /\ UNCHANGED chunk

\* close flushes the buffer, unless there is nothing in it.
CloseFile(w) ==
  LET g == gridIn[w]
      closing == [g EXCEPT !.buffer = <<>>, !.pc = "insert"]
  IN  /\ g.pc = "open"
      /\ IF g.buffer = <<>> THEN SetFields(w, closing) /\ UNCHANGED chunk
         ELSE FlushData(w, g.buffer, g, Flushed(closing, g.buffer))

\* The safe insertion of the file's document; FileExists if there is one.  put
\* closes the file also when write has raised.
InsertFile(w) ==
  LET g == gridIn[w]
  IN  /\ g.pc = "insert"
      /\ \/ /\ file = NoFile
            /\ file' = [owner |-> w, length |-> g.position]
            /\ SetIn(w, [g EXCEPT !.pc = "closed"])
         \/ /\ file # NoFile
            /\ SetIn(w, [g EXCEPT !.pc = "open"])
            /\ UNCHANGED file
      /\ UNCHANGED <<chunk, gridOut, deletion>>

\* A command of close fails, or its reply is lost after the document is in:
\* the file is not closed, and close may be called again.
CloseFileFails(w) ==
  LET g == gridIn[w]
  IN  /\ g.pc = "insert"
      /\ SetIn(w, [g EXCEPT !.pc = "open"])
      /\ \/ UNCHANGED file
         \/ file = NoFile /\ file' = [owner |-> w, length |-> g.position]
      /\ UNCHANGED <<chunk, gridOut, deletion>>

----------------------------------------------------------------------------
(* delete *)

RemoveFile ==
  /\ deletion = "none"
  /\ file' = NoFile
  /\ deletion' = "chunks"
  /\ UNCHANGED <<chunk, gridIn, gridOut>>

\* All chunks of the _id, those of a writer too that has begun in between.
RemoveChunks ==
  /\ deletion = "chunks"
  /\ chunk' = [n \in ChunkNumbers |-> NoChunk]
  /\ gridIn' = [w \in Writers |->
       [gridIn[w] EXCEPT !.intact = @ /\ \A n \in ChunkNumbers : chunk[n].owner # w]]
  /\ deletion' = "done"
  /\ UNCHANGED <<file, gridOut>>

----------------------------------------------------------------------------
(* GridOut *)

Open(r) ==
  /\ gridOut[r].pc = "none"
  /\ file # NoFile
  /\ SetOut(r, [gridOut[r] EXCEPT !.pc = "open", !.file = file])
  /\ UNCHANGED <<file, chunk, gridIn, deletion>>

\* Mutant: what has been read ahead stays in the buffer.
Seek_KeepsBuffer(r, pos) ==
  /\ gridOut[r].pc = "open"
  /\ SetOut(r, [gridOut[r] EXCEPT !.position = pos])
  /\ UNCHANGED <<file, chunk, gridIn, deletion>>

Seek(r, pos) ==
  /\ gridOut[r].pc = "open"
  /\ SetOut(r, [gridOut[r] EXCEPT !.position = pos, !.buffer = <<>>])
  /\ UNCHANGED <<file, chunk, gridIn, deletion>>

\* A size that is negative or too large stands for what is left; after a seek
\* past the end that is less than nothing, and the position goes back.
GridRead(r, size) ==
  LET g == gridOut[r]
      remainder == g.file.length - g.position
  IN  /\ g.pc = "open"
      /\ SetOut(r, IF remainder < 0 THEN [g EXCEPT !.position = g.file.length]
                   ELSE [g EXCEPT !.pc = "reading", !.had = Len(g.buffer),
                          !.size = IF size > remainder THEN remainder ELSE size,
                          !.n = (Len(g.buffer) + g.position) \div chunkSize])
      /\ UNCHANGED <<file, chunk, gridIn, deletion>>

ReadDone(g) == [g EXCEPT !.pc = "open", !.size = 0, !.n = 0, !.had = 0]

\* find_one; the first chunk counts from the position on.
FetchChunk(r) ==
  LET g == gridOut[r]
      data == chunk[g.n].data
  IN  /\ g.pc = "reading" /\ Len(g.buffer) < g.size
      /\ SetOut(r, IF chunk[g.n] = NoChunk         \* CorruptGridFile
                   THEN [ReadDone(g) EXCEPT !.buffer = SubSeq(@, 1, g.had)]
                   ELSE [g EXCEPT !.n = @ + 1, !.buffer = @ \o
                           IF @ # <<>> THEN data
                           ELSE SubSeq(data, (g.position % chunkSize) + 1, Len(data))])
      /\ UNCHANGED <<file, chunk, gridIn, deletion>>

Returned(g) == SubSeq(g.buffer, 1, g.size)

ReadReturns(r) ==
  LET g == gridOut[r]
  IN  /\ g.pc = "reading" /\ Len(g.buffer) >= g.size
      /\ SetOut(r, [ReadDone(g) EXCEPT !.position = @ + g.size,
                        !.buffer = SubSeq(@, g.size + 1, Len(@))])
      /\ UNCHANGED <<file, chunk, gridIn, deletion>>

GridNext ==
  \/ \E w \in Writers :
       \/ \E n \in WriteSizes : GridWrite(w, n)
       \/ FlushBuffer(w) \/ FlushChunk(w) \/ WriteFails(w)
       \/ CloseFile(w) \/ InsertFile(w) \/ CloseFileFails(w)
  \/ RemoveFile \/ RemoveChunks
  \/ \E r \in Readers :
       \/ Open(r) \/ FetchChunk(r) \/ ReadReturns(r)
       \/ \E n \in Positions : Seek(r, n)
       \/ \E n \in ReadSizes : GridRead(r, n)

GridSpec == GridInit /\ [][GridNext]_gridVars
----------------------------------------------------------------------------
(* What GridFS promises. *)

Intact(w) == w # NoWriter /\ gridIn[w].intact

\* While the file stays listed, a read returns the bytes that were written from
\* its position on, however reads, seeks and the calls of write divide the file,
\* and whoever else tries to use its _id meanwhile; once the file is closed it
\* has all bytes that were passed to write.
ReadIsWritten(r) ==
  LET g == gridOut[r]
      owner == file.owner
  IN  (ReadReturns(r) /\ file = g.file /\ Intact(owner)) =>
        /\ Returned(g) = [i \in 1..g.size |-> <<owner, g.position + i>>]
        /\ gridIn[owner].pc = "closed" => file.length = gridIn[owner].given

ReadsWritten == [][\A r \in Readers : ReadIsWritten(r)]_gridVars
=============================================================================
