-------------------------------- MODULE AuditLog --------------------------------
(***************************************************************************)
(* The hash-chained audit log (internal/security/audit.go): every process  *)
(* that builds the kernel (the daemon, a chat, a command) opens the file,  *)
(* continues the chain from the entry with the highest number, and appends *)
(* one line per event; and the verifier that judges such a log             *)
(* (internal/security/verify.go).                                          *)
(*                                                                         *)
(* An entry is its hash, a number nobody uses twice; 0 is "genesis".  The  *)
(* lock of a process makes an append one step.                             *)
(***************************************************************************)
EXTENDS Integers, Sequences, FiniteSets, SequencesExt, FiniteSetsExt

CONSTANTS
  Processes,
  MaxEvents    \* bound: events of all processes

ASSUME AuditConfig == MaxEvents \in Nat

VARIABLES
  logFile,   \* its lines: an entry [hash, seq, prev], or Garbage
  tail,      \* how the file ends: "line", "torn" inside an entry, or "open": the
             \* last entry is complete but has no newline
  chain,     \* what each process that has opened the log carries on from
  events,
  shared     \* history: two processes had the log open at a time

auditVars == <<logFile, tail, chain, events, shared>>

Garbage == [hash |-> 0]

NotOpen == [open |-> FALSE]

AuditInit ==
  /\ logFile = <<>>
  /\ tail = "line"
  /\ chain = [p \in Processes |-> NotOpen]
  /\ events = 0
  /\ shared = FALSE

Opened == {p \in Processes : chain[p] # NotOpen}

Entries == {i \in 1..Len(logFile) : logFile[i] # Garbage}

-----------------------------------------------------------------------------
\* The first of the entries with the highest number; a line that is no entry, or
\* is torn, is skipped.
ScanLastEntry ==
  LET top == Max({0} \union {logFile[i].seq : i \in Entries})
      first == Min({i \in Entries : logFile[i].seq = top}) IN
  [seq |-> top, prev |-> IF top = 0 THEN 0 ELSE logFile[first].hash]

OpenLog(p) ==
  /\ p \notin Opened
  /\ chain' = [chain EXCEPT ![p] = ScanLastEntry]
  /\ shared' = (shared \/ Opened # {})
  /\ UNCHANGED <<logFile, tail, events>>

\* The process ends, or is killed between two appends.
CloseLog(p) ==
  /\ p \in Opened
  /\ chain' = [chain EXCEPT ![p] = NotOpen]
  /\ UNCHANGED <<logFile, tail, events, shared>>

\* What a line becomes at the end of the file: behind a line that was not ended
\* it is glued to it, and neither can be read.
Appended(l) ==
  CASE tail = "line" -> Append(logFile, l)
    [] tail = "torn" -> Append(logFile, Garbage)
    [] tail = "open" -> Append(Front(logFile), Garbage)

Entry(p) == [hash |-> events + 1, seq |-> chain[p].seq + 1, prev |-> chain[p].prev]

WriteEntry(p) ==
  /\ p \in Opened /\ events < MaxEvents
  /\ events' = events + 1
  /\ logFile' = Appended(Entry(p))
  /\ tail' = "line"
  /\ chain' = [chain EXCEPT ![p] = [seq |-> @.seq + 1, prev |-> Entry(p).hash]]
  /\ UNCHANGED shared

\* Broken: moves the chain on although the entry was not written.
WriteFailsMoves(p) ==
  /\ p \in Opened /\ events < MaxEvents
  /\ events' = events + 1
  /\ chain' = [chain EXCEPT ![p] = [seq |-> @.seq + 1, prev |-> Entry(p).hash]]
  /\ UNCHANGED <<logFile, tail, shared>>

\* Nothing is written: the number is used up, the hash is not.
WriteFails(p) ==
  /\ p \in Opened /\ events < MaxEvents
  /\ events' = events + 1
  /\ chain' = [chain EXCEPT ![p].seq = @ + 1]
  /\ UNCHANGED <<logFile, tail, shared>>

\* The disk is full in the middle of the line, or the process dies there.
WriteTorn(p) == \E died \in BOOLEAN, cut \in {"torn", "open"} :
  /\ p \in Opened /\ events < MaxEvents
  /\ events' = events + 1
  /\ \/ /\ tail = "line" /\ cut = "open"
        /\ logFile' = Append(logFile, Entry(p)) /\ tail' = "open"
     \/ /\ tail = "open"
        /\ logFile' = Front(logFile) /\ tail' = "torn"
     \/ /\ tail = "torn" \/ (tail = "line" /\ cut = "torn")
        /\ logFile' = logFile /\ tail' = "torn"
  /\ chain' = [chain EXCEPT ![p] = IF died THEN NotOpen ELSE [chain[p] EXCEPT !.seq = @ + 1]]
  /\ UNCHANGED shared

AuditNext == \E p \in Processes :
  OpenLog(p) \/ CloseLog(p) \/ WriteEntry(p) \/ WriteFails(p) \/ WriteTorn(p)

AuditSpec == AuditInit /\ [][AuditNext]_auditVars

-----------------------------------------------------------------------------
(* VerifyLog *)

Unverified == [violations |-> {}, expected |-> 0, prev |-> 0, valid |-> 0]

\* What the verifier makes of line i: it carries on from whatever number and hash it
\* meets, and a hash it cannot reproduce is one over another predecessor.
VerifyLine(v, i) ==
  LET e == logFile[i]
      gap  == IF e.seq = v.expected + 1 THEN {} ELSE {[line |-> i, reason |-> "sequence gap"]}
      fork == IF e.prev = v.prev THEN {} ELSE {[line |-> i, reason |-> "tampered"]} IN
  IF i > Len(logFile) \/ logFile[i] = Garbage
  THEN [v EXCEPT !.violations = @ \union {[line |-> i, reason |-> "parse error"]}]
  ELSE [violations |-> v.violations \union gap \union fork, expected |-> e.seq,
        prev |-> e.hash, valid |-> v.valid + (IF fork = {} THEN 1 ELSE 0)]

\* The verdict on the first n lines.
Verdict[n \in Nat] == IF n = 0 THEN Unverified ELSE VerifyLine(Verdict[n - 1], n)

\* A line torn off at the end is one more.
VerifyLog == Verdict[Len(logFile) + (IF tail = "torn" THEN 1 ELSE 0)]

-----------------------------------------------------------------------------
(* Properties *)

LogEntry == [hash : 1..MaxEvents, seq : 1..MaxEvents, prev : 0..MaxEvents]

ChainState == [seq : 0..MaxEvents, prev : 0..MaxEvents]

AuditTypeOK ==
  /\ logFile \in Seq({Garbage} \union LogEntry)
  /\ tail \in {"line", "torn", "open"}
  /\ chain \in [Processes -> {NotOpen} \union ChainState]
  /\ events \in 0..MaxEvents
  /\ shared \in BOOLEAN

\* With one process at a time the log is a chain through failed and torn writes
\* and restarts: each entry names the one on the line before it and has a
\* higher number; where a line cannot be read, the entry after it still names no
\* entry that is further back than the last readable one.
OneChain == ~shared => \A i \in Entries :
  LET e == logFile[i]
      earlier == {j \in Entries : j < i}
      last == Max(earlier) IN
  IF earlier = {} THEN i > 1 \/ e.prev = 0
  ELSE /\ e.seq > logFile[last].seq
       /\ e.prev >= logFile[last].hash
       /\ last = i - 1 => e.prev = logFile[last].hash

\* "Chain integrity verified" is said of nothing but a chain from the first line to the
\* last, whatever the processes did; and of a log that one process at a time wrote the
\* verifier says "tampered" only behind a line that cannot be read.
VerdictIsRight ==
  /\ VerifyLog.violations = {} => tail # "torn" /\
       \A i \in DOMAIN logFile :
         /\ logFile[i].seq = i
         /\ logFile[i].prev = IF i = 1 THEN 0 ELSE logFile[i - 1].hash
  /\ ~shared => \A v \in VerifyLog.violations :
       v.reason = "tampered" => v.line > 1 /\ logFile[v.line - 1] = Garbage
  /\ VerifyLog.valid = Cardinality(Entries)
       - Cardinality({v \in VerifyLog.violations : v.reason = "tampered"})

AuditChain == OneChain /\ VerdictIsRight
=============================================================================
