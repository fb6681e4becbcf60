-------------------------------- MODULE Chunker --------------------------------
(***************************************************************************)
(* How a Markdown note is cut into the chunks the semantic memory indexes  *)
(* (internal/memory/chunker.go), and which of them survive under the ids   *)
(* sync.go gives them: a chunk is known by its first and its last line,    *)
(* and a row with the same id replaces the one before it.                  *)
(*                                                                         *)
(* A note is the sequence of the lengths of its lines, a piece of it a     *)
(* record: the line it comes from, its offset there and its length.        *)
(***************************************************************************)
EXTENDS Integers, Sequences, FiniteSetsExt, SequencesExt

CONSTANTS
  MaxLines, MaxLength,   \* bounds of the notes
  ChunkChars,            \* maxChars of ChunkMarkdown
  Overlaps               \* overlapChars, the values tried

ASSUME ChunkerConfig ==
  /\ {MaxLines, MaxLength} \subseteq Nat
  /\ ChunkChars \in Nat \ {0}
  /\ Overlaps \subseteq Nat

VARIABLES
  note,     \* the lengths of the lines
  overlap,
  chunks    \* what ChunkMarkdown returns; empty before the call

chunkerVars == <<note, overlap, chunks>>

ChunkerInit ==
  /\ note \in UNION {[1..n -> 0..MaxLength] : n \in 1..MaxLines}
  /\ overlap \in Overlaps
  /\ chunks = <<>>

-----------------------------------------------------------------------------
\* splitLine: pieces of at most ChunkChars; an empty line is one empty piece.
SplitLine(i) ==
  LET count == IF note[i] = 0 THEN 1 ELSE (note[i] + ChunkChars - 1) \div ChunkChars IN
  [k \in 1..count |->
     LET start == (k - 1) * ChunkChars IN
     [line |-> i, at |-> start,
      len |-> IF note[i] - start > ChunkChars THEN ChunkChars ELSE note[i] - start]]

Pieces == FlattenSeq([i \in 1..Len(note) |-> SplitLine(i)])

\* Every piece counts its newline.
Size(pieces) == FoldLeft(LAMBDA n, p : n + p.len + 1, 0, pieces)

\* carryOverlap: the shortest suffix that reaches the overlap, or all there is.
Carried(current) ==
  LET enough == {i \in 1..Len(current) : Size(SubSeq(current, i, Len(current))) >= overlap} IN
  IF overlap = 0 THEN <<>>
  ELSE IF enough = {} THEN current
  ELSE SubSeq(current, Max(enough), Len(current))

\* Broken: a full chunk is not put away before the next one begins.
AddPieceForgets(acc, p) ==
  IF Size(acc.current) + p.len + 1 > ChunkChars /\ acc.current # <<>>
  THEN [acc EXCEPT !.current = Append(Carried(@), p)]
  ELSE [acc EXCEPT !.current = Append(@, p)]

AddPiece(acc, p) ==
  IF Size(acc.current) + p.len + 1 > ChunkChars /\ acc.current # <<>>
  THEN [done |-> Append(acc.done, acc.current), current |-> Append(Carried(acc.current), p)]
  ELSE [acc EXCEPT !.current = Append(@, p)]

\* What there is after the first n pieces.
Packed[n \in 0..Len(Pieces)] ==
  IF n = 0 THEN [done |-> <<>>, current |-> <<>>] ELSE AddPiece(Packed[n - 1], Pieces[n])

ChunkMarkdown ==
  /\ chunks = <<>>
  /\ LET acc == Packed[Len(Pieces)] IN chunks' = Append(acc.done, acc.current)
  /\ UNCHANGED <<note, overlap>>

ChunkerSpec == ChunkerInit /\ [][ChunkMarkdown]_chunkerVars

-----------------------------------------------------------------------------
(* Properties *)

ChunkerTypeOK ==
  /\ note \in UNION {[1..n -> 0..MaxLength] : n \in 1..MaxLines}
  /\ overlap \in Overlaps
  /\ \A i \in DOMAIN chunks : chunks[i] # <<>> /\ ToSet(chunks[i]) \subseteq ToSet(Pieces)

ChunkId(i) == <<chunks[i][1].line, Last(chunks[i]).line>>

Survives(i) == \A j \in DOMAIN chunks : ChunkId(j) = ChunkId(i) => j <= i

\* A line that fits into a chunk is found by a search whatever the overlap: one of
\* the chunks it is part of is not replaced by a later one with the same first
\* and last line.  (Of a longer line only the last chunk within it is kept.)
ShortLinesSurvive == chunks # <<>> =>
  \A p \in ToSet(Pieces) : note[p.line] <= ChunkChars =>
    \E i \in DOMAIN chunks : p \in ToSet(chunks[i]) /\ Survives(i)
=============================================================================
