------------------------------- MODULE Embedders -------------------------------
(***************************************************************************)
(* The vectors of a note over the starts of the program: which embedding   *)
(* backend the registry makes the default (internal/kernel/providers.go,   *)
(* internal/embeddings/types.go), the dimension the vector table is made   *)
(* with (kernel/app.go, memory.go), what each backend makes of its         *)
(* vendor's answer (internal/embeddings/providers), and what syncFile      *)
(* stores of it.  The settings may be changed between two starts, the      *)
(* database file stays.                                                    *)
(*                                                                         *)
(* A text is its place in the note, a vector the text it was computed      *)
(* from; a vendor's answer is the texts its vectors say they are for, in   *)
(* the order they come in.  The interleavings of several syncFiles are in  *)
(* SemanticIndex: here it is one step.                                     *)
(***************************************************************************)
EXTENDS Integers, Sequences, FiniteSets, SequencesExt

CONSTANTS
  HubDimension,   \* of the model configured for Hugging Face
  NumTexts,       \* chunks of the note
  MaxVersion,     \* bound: versions of the note
  MaxStarts       \* bound: starts of the program

ASSUME EmbeddersConfig ==
  /\ {HubDimension, NumTexts, MaxVersion, MaxStarts} \subseteq Nat \ {0}

-----------------------------------------------------------------------------
(* The backends: how the answer of the vendor is read, the dimension the list *)
(* of models says of the first, and that of the default model's vectors       *)

\* The vectors are placed by the index they carry.
openai  == [name |-> "openai",  reads |-> "byIndex", lists |-> 1536, gives |-> 1536]
azure   == [name |-> "azure",   reads |-> "byIndex", lists |-> 1536, gives |-> 1536]
voyage  == [name |-> "voyage",  reads |-> "byIndex", lists |-> 1024, gives |-> 1024]
mistral == [name |-> "mistral", reads |-> "byIndex", lists |-> 1024, gives |-> 1024]

\* They are taken in the order they come in.  Cohere's embed-v4.0 is listed with 1024, but
\* the request names no dimension, and the vendor's default is 1536.
cohere  == [name |-> "cohere",  reads |-> "inOrder", lists |-> 1024, gives |-> 1536]
google  == [name |-> "google",  reads |-> "inOrder", lists |-> 768,  gives |-> 768]
vertex  == [name |-> "vertex",  reads |-> "inOrder", lists |-> 768,  gives |-> 768]

\* Whatever the model, the list says 384.
huggingface ==
  [name |-> "huggingface", reads |-> "inOrder", lists |-> 384, gives |-> HubDimension]

\* One request for each text.  An answer without a vector, such as one that says the
\* model is unknown, is passed over.
ollama  == [name |-> "ollama",  reads |-> "oneByOne", lists |-> 768,  gives |-> 768]

\* One request for each text, the first error ends it.
bedrock == [name |-> "bedrock", reads |-> "whole",    lists |-> 1024, gives |-> 1024]

Backends == {openai, azure, voyage, mistral, cohere, google, vertex, huggingface, ollama,
             bedrock}

NoBackend == [name |-> "none", reads |-> "none", lists |-> 1536, gives |-> 0]

\* The answers a vendor that does not mix up its texts may give: all of them or, one
\* text being refused, fewer.
VendorAnswers(b) ==
  CASE b.reads = "byIndex" -> UNION {SetToSeqs(texts) : texts \in SUBSET (1..NumTexts)}
    [] b.reads = "whole"   -> {[i \in 1..NumTexts |-> i]}
    [] OTHER -> {answer \in UNION {SetToSeqs(texts) : texts \in SUBSET (1..NumTexts)} :
                   \A i, j \in DOMAIN answer : i < j => answer[i] < answer[j]}

\* An index beyond the number of vectors is out of the slice's range.
OutOfRange(b, answer) == b.reads = "byIndex" /\ \E i \in DOMAIN answer : answer[i] > Len(answer)

\* Broken: in the order they come in, whatever their index.
PlacedAsTheyCome(b, answer) == answer

Placed(b, answer) ==
  IF b.reads = "byIndex"
  THEN [p \in DOMAIN answer |-> answer[CHOOSE i \in DOMAIN answer : answer[i] = p]]
  ELSE answer

-----------------------------------------------------------------------------
VARIABLES
  running,    \* the program
  starts,
  embedder,   \* Registry.Default
  bare,       \* it is Vertex and has no credentials
  table,      \* the dimension vec_documents was made with, 0 before
  version,    \* of the note
  rows        \* the chunks of the note that are indexed, from the first

embedVars == <<running, starts, embedder, bare, table, version, rows>>

EmbedInit ==
  /\ running = FALSE /\ starts = 0
  /\ embedder = NoBackend /\ bare = FALSE
  /\ table = 0
  /\ version = 1
  /\ rows = <<>>

\* Ollama needs no settings; Bedrock is left out if its configuration does not load,
\* Vertex is kept without credentials.
Registered(b, settings) ==
  CASE b.name = "ollama"  -> TRUE
    [] b.name = "bedrock" -> settings = "good"
    [] OTHER              -> settings # "none"

\* The default is the first of the priority list that is registered: with the list and
\* the settings in the user's hands, any that is registered, or none.
MayBeDefault(b, settings) == b = NoBackend \/ Registered(b, settings)

\* RegisterEmbedders, and the dimension of the first model of the default, or 1536;
\* the table is made only if there is none.
StartProgram == \E b \in Backends \union {NoBackend}, settings \in {"none", "good", "bad"} :
  /\ ~running /\ starts < MaxStarts
  /\ MayBeDefault(b, settings)
  /\ running' = TRUE
  /\ starts' = starts + 1
  /\ embedder' = b
  /\ bare' = (b = vertex /\ settings = "bad")
  /\ table' = IF table = 0 THEN b.lists ELSE table
  /\ UNCHANGED <<version, rows>>

ProgramEnds ==
  /\ running
  /\ running' = FALSE
  /\ UNCHANGED <<starts, embedder, bare, table, version, rows>>

EditNote ==
  /\ version < MaxVersion
  /\ version' = version + 1
  /\ UNCHANGED <<running, starts, embedder, bare, table, rows>>

-----------------------------------------------------------------------------
(* syncFile *)

\* Any row with the hash of the file will do, whoever computed its vectors.
Changed == \A i \in DOMAIN rows : rows[i].version # version

\* A vector of another length than the manager's dimension is left out; one of that
\* length is refused by a table made with another.
Fits == embedder.gives = embedder.lists

Refused == Fits /\ embedder.gives # table

Row(i, vectors) ==
  [version |-> version, by |-> embedder, vector |-> IF Fits THEN vectors[i] ELSE 0]

\* The old chunks are gone when the vendor is asked.
SyncWithoutAnswer ==
  /\ running /\ Changed
  /\ rows' = <<>>
  /\ running' = ~bare
  /\ UNCHANGED <<starts, embedder, bare, table, version>>

\* The program panics in the goroutine of the watcher, or the file is given up because
\* of the number of vectors, or chunk after chunk is stored, until one cannot be.
SyncWithAnswer == \E answer \in VendorAnswers(embedder) :
  /\ running /\ Changed /\ embedder # NoBackend /\ ~bare
  /\ LET vectors == Placed(embedder, answer) IN
       IF OutOfRange(embedder, answer) \/ Len(answer) # NumTexts \/ Refused
       THEN rows' = <<>>
       ELSE \E stored \in 0..NumTexts : rows' = [i \in 1..stored |-> Row(i, vectors)]
  /\ running' = ~OutOfRange(embedder, answer)
  /\ UNCHANGED <<starts, embedder, bare, table, version>>

EmbedNext == StartProgram \/ ProgramEnds \/ EditNote \/ SyncWithoutAnswer \/ SyncWithAnswer

-----------------------------------------------------------------------------
(* Properties *)

EmbedTypeOK ==
  /\ running \in BOOLEAN /\ bare \in BOOLEAN
  /\ starts \in 0..MaxStarts
  /\ embedder \in Backends \union {NoBackend}
  /\ table \in {0} \union {b.lists : b \in Backends \union {NoBackend}}
  /\ version \in 1..MaxVersion
  /\ Len(rows) <= NumTexts
  /\ \A i \in DOMAIN rows : rows[i].version \in 1..MaxVersion /\ rows[i].by \in Backends
                            /\ rows[i].vector \in 0..NumTexts

\* "Returns one vector per input text, in the same order": a vector that is stored was
\* computed from the text it is stored with, through vendors that answer out of order or
\* in part, and is as long as the table's; a chunk has none only if the list of models
\* is wrong about the backend that was asked.  Two backends whose vectors are equally long
\* share the table all the same: nothing is said of which of them a row is from.
VectorsAreOwn == \A i \in DOMAIN rows :
  /\ rows[i].vector # 0 => rows[i].vector = i /\ rows[i].by.gives = table
  /\ rows[i].vector = 0 => rows[i].by.gives # rows[i].by.lists
=============================================================================
