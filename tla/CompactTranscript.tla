-------------------------- MODULE CompactTranscript -------------------------
(***************************************************************************)
(* The storage codec of a journal, compact_transcript.js of                *)
(* backend/cgy_native/tools: pack() reads the journal in pieces, gathers   *)
(* them into chunks and writes each as a frame, and may be killed between  *)
(* any two writes; unpack() reads what is there in pieces of its own.      *)
(*                                                                         *)
(* A file is a sequence of cells, written and read one after the other:    *)
(* the cells of the header, and for every frame its two lengths and its    *)
(* compressed cells.  Deflate is injective and as long as DeflatedLength   *)
(* says.  The journal is ASCII, so that a piece of text has as many bytes  *)
(* as were read for it.                                                    *)
(***************************************************************************)
EXTENDS Naturals, Sequences, SequencesExt

CONSTANTS
  Journals,      \* journals that may be packed: sequences of bytes
  PieceLength,   \* what a read stream returns at a time, 64 KiB
  ChunkBytes,    \* CHUNK_BYTES, 4 MiB
  FrameSlack,    \* 65536, what a compressed chunk may have beyond CHUNK_BYTES
  HeaderLength,  \* cells of MAGIC
  DeflatedLength(_)

Bytes == 0..127  \* ASCII

ASSUME CodecAssumption ==
  /\ Journals \subseteq Seq(Bytes)
  /\ PieceLength \in Nat \ {0}
  /\ ChunkBytes \in Nat \ {0}
  /\ ChunkBytes % PieceLength = 0
  /\ HeaderLength \in Nat \ {0}
  /\ FrameSlack \in Nat
  /\ \A n \in 1..ChunkBytes : DeflatedLength(n) \in 1..(ChunkBytes + FrameSlack)

VARIABLES
  journal,   \* the input of pack
  position,  \* bytes of it read
  chunk,     \* gathered and not yet framed
  queue,     \* cells of writeAll calls still to be written
  packer,    \* "packing", "ending", "done" or "killed"
  file,      \* the compact file
  read,      \* cells of it that unpack has read
  pending,   \* read and not yet consumed
  magicChecked,
  decoded,   \* what unpack has put out
  unpacker   \* "waiting", "reading", "accepted" or "refused"

packVars == <<journal, position, chunk, queue, packer, file>>
unpackVars == <<read, pending, magicChecked, decoded, unpacker>>
codecVars == <<packVars, unpackVars>>

\* Cells.
Header == [i \in 1..HeaderLength |-> <<"magic", i>>]
Deflated(raw) == [i \in 1..DeflatedLength(Len(raw)) |-> <<"deflated", raw, i>>]
Frame(raw) == <<Len(raw), Len(Deflated(raw))>> \o Deflated(raw)

\* A flush of an empty chunk writes nothing.
FrameOf(raw) == IF raw = <<>> THEN <<>> ELSE Frame(raw)

CodecInit ==
  /\ journal \in Journals
  /\ position = 0 /\ chunk = <<>> /\ queue = Header /\ packer = "packing"
  /\ file = <<>>
  /\ read = 0 /\ pending = <<>> /\ magicChecked = FALSE /\ decoded = <<>>
  /\ unpacker = "waiting"

-----------------------------------------------------------------------------
(* pack                                                                    *)

\* (Faulty: a chunk is flushed when it has become too large.)
Full_Exceeded(c) == Len(c) > ChunkBytes
Full(c) == Len(c) >= ChunkBytes

\* The data handler writes synchronously: the next piece waits for it.
ReadPiece ==
  /\ packer = "packing" /\ queue = <<>>
  /\ position < Len(journal)
  /\ LET upTo == IF position + PieceLength < Len(journal)
                 THEN position + PieceLength ELSE Len(journal)
         gathered == chunk \o SubSeq(journal, position + 1, upTo)
     IN /\ position' = upTo
        /\ chunk' = IF Full(gathered) THEN <<>> ELSE gathered
        /\ queue' = IF Full(gathered) THEN FrameOf(gathered) ELSE <<>>
  /\ UNCHANGED <<journal, packer, file, unpackVars>>

\* The end of the stream: the last flush.
EndInput ==
  /\ packer = "packing" /\ queue = <<>>
  /\ position = Len(journal)
  /\ queue' = FrameOf(chunk)
  /\ chunk' = <<>>
  /\ packer' = "ending"
  /\ UNCHANGED <<journal, position, file, unpackVars>>

\* writeAll: a write may be short and is then continued.
WriteCells ==
  /\ packer \in {"packing", "ending"} /\ queue # <<>>
  /\ \E n \in 1..Len(queue) :
       /\ file' = file \o SubSeq(queue, 1, n)
       /\ queue' = SubSeq(queue, n + 1, Len(queue))
  /\ UNCHANGED <<journal, position, chunk, packer, unpackVars>>

CloseFile ==
  /\ packer = "ending" /\ queue = <<>>
  /\ packer' = "done"
  /\ UNCHANGED <<journal, position, chunk, queue, file, unpackVars>>

Kill ==
  /\ packer \in {"packing", "ending"}
  /\ packer' = "killed"
  /\ UNCHANGED <<journal, position, chunk, queue, file, unpackVars>>

-----------------------------------------------------------------------------
(* unpack, of a file that is no longer written                             *)

Open ==
  /\ packer \in {"done", "killed"} /\ unpacker = "waiting"
  /\ unpacker' = "reading"
  /\ UNCHANGED <<packVars, read, pending, magicChecked, decoded>>

HasMagic == magicChecked \/ Len(pending) >= HeaderLength
TooLarge == pending[1] > ChunkBytes \/ pending[2] > ChunkBytes + FrameSlack
HasFrame ==
  /\ magicChecked /\ Len(pending) >= 2
  /\ TooLarge \/ Len(pending) >= 2 + pending[2]
Consumable == (~magicChecked /\ HasMagic) \/ HasFrame

CheckMagic ==
  /\ unpacker = "reading" /\ ~magicChecked /\ HasMagic
  /\ IF SubSeq(pending, 1, HeaderLength) = Header
     THEN /\ magicChecked' = TRUE
          /\ pending' = SubSeq(pending, HeaderLength + 1, Len(pending))
          /\ UNCHANGED unpacker
     ELSE /\ unpacker' = "refused"
          /\ UNCHANGED <<magicChecked, pending>>
  /\ UNCHANGED <<packVars, read, decoded>>

\* A frame that promises too much, or does not inflate to what it promises, is
\* refused.
Inflates(raw) ==
  /\ SubSeq(pending, 3, 2 + pending[2]) = Deflated(raw)
  /\ Len(raw) = pending[1]

ConsumeFrame ==
  /\ unpacker = "reading" /\ HasFrame
  /\ LET raw == pending[3][2]
     IN IF ~TooLarge /\ Inflates(raw)
        THEN /\ decoded' = decoded \o raw
             /\ pending' = SubSeq(pending, 3 + pending[2], Len(pending))
             /\ UNCHANGED unpacker
        ELSE /\ unpacker' = "refused"
             /\ UNCHANGED <<pending, decoded>>
  /\ UNCHANGED <<packVars, read, magicChecked>>

ReadCells ==
  /\ unpacker = "reading" /\ ~Consumable
  /\ \E n \in 1..(Len(file) - read) :
       /\ pending' = pending \o SubSeq(file, read + 1, read + n)
       /\ read' = read + n
  /\ UNCHANGED <<packVars, magicChecked, decoded, unpacker>>

\* (Faulty: what is left of a frame is not looked at; nor is a missing header.)
Whole_Unchecked == TRUE
Whole == magicChecked /\ pending = <<>>

EndOfFile ==
  /\ unpacker = "reading" /\ ~Consumable
  /\ read = Len(file)
  /\ unpacker' = IF Whole THEN "accepted" ELSE "refused"
  /\ UNCHANGED <<packVars, read, pending, magicChecked, decoded>>

-----------------------------------------------------------------------------
CodecNext ==
  \/ ReadPiece \/ EndInput \/ WriteCells \/ CloseFile \/ Kill
  \/ Open \/ CheckMagic \/ ConsumeFrame \/ ReadCells \/ EndOfFile

\* Both run to their end unless they are killed.
CodecSpec == CodecInit /\ [][CodecNext]_codecVars /\ WF_codecVars(CodecNext)

\* The format, from the journal alone: full chunks, then the rest.
ChunkCount(bytes) == (Len(bytes) + ChunkBytes - 1) \div ChunkBytes
ChunkEnd(bytes, i) == IF i * ChunkBytes < Len(bytes) THEN i * ChunkBytes ELSE Len(bytes)
Chunk(bytes, i) == SubSeq(bytes, (i - 1) * ChunkBytes + 1, ChunkEnd(bytes, i))
Encoding(bytes) ==
  Header \o FlattenSeq([i \in 1..ChunkCount(bytes) |-> Frame(Chunk(bytes, i))])

\* A file that unpack accepts is, to the cell, the encoding of what it put out,
\* and that is a beginning of the journal: a file cut short is refused, unless it
\* was cut between two frames, and then only the hash of the journal can tell.
AcceptedFileIsEncoding ==
  unpacker = "accepted" => /\ file = Encoding(decoded)
                           /\ IsPrefix(decoded, journal)

\* A packed journal comes back byte for byte ("canonical JSONL round-trips
\* byte-for-byte", compact_transcript.test.js:17): whatever pieces both sides
\* read and however short their writes, no frame is too large for unpack.
PackedJournalReturns ==
  (packer = "done") ~> (unpacker = "accepted" /\ decoded = journal)
=============================================================================
