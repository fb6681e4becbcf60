----------------------------- MODULE ModelDownload -----------------------------
(***************************************************************************)
(* The file of the local model: "local-intel setup"                        *)
(* (cmd/assistclaw/local_intel_cmd.go) and the wizard copy it from a       *)
(* directory beside the program or download it                             *)
(* (internal/localintel/setup.go), each in a process of its own.           *)
(*                                                                         *)
(* A name leads to a file, as in the file system: whoever opened it goes   *)
(* on writing to it after it was moved, truncated or removed.  A file is   *)
(* a sequence of blocks; a stream is the model, or something else that was *)
(* sent for it.  The digest of a download is that of its stream.           *)
(***************************************************************************)
EXTENDS Integers

CONSTANTS
  Fetchers,   \* processes
  NumBlocks,  \* of the model
  MaxSetups   \* bound: attempts, and so files

ASSUME ModelDownloadConfig == NumBlocks \in Nat \ {0} /\ MaxSetups \in Nat

VARIABLES
  content,  \* per file its blocks
  named,    \* the file that a name leads to, 0 for none
  fetcher,  \* per process: where it is, its temporary name, its file, next block and stream
  setups,
  digest,   \* a digest was given to check downloads by
  contested \* history: files that one process opened or moved while another wrote to them

modelVars == <<content, named, fetcher, setups, digest, contested>>

Blocks == 1..NumBlocks

Hole == [b \in Blocks |-> "hole"]

NoFetcher == [pc |-> "idle", temp |-> "none", file |-> 0, next |-> 1, stream |-> "model"]

ModelDownloadInit ==
  /\ content = [f \in 1..MaxSetups |-> Hole]
  /\ named = [n \in {"model", "download", "copy"} |-> 0]
  /\ fetcher = [p \in Fetchers |-> NoFetcher]
  /\ setups = 0
  /\ digest \in BOOLEAN
  /\ contested = {}

FetcherEnds(p) == fetcher' = [fetcher EXCEPT ![p] = NoFetcher]

-----------------------------------------------------------------------------
\* A model that is there is taken as it is, unless it is replaced by the program's own
\* copy or by --force.
Setup(p) ==
  /\ fetcher[p].pc = "idle"
  /\ setups < MaxSetups /\ setups' = setups + 1
  /\ \E temp \in {"copy", "download"}, stream \in {"model", "other"}, force \in BOOLEAN :
       /\ temp = "copy" => stream = "model" /\ ~force
       /\ IF temp = "download" /\ ~force /\ named["model"] # 0
            THEN UNCHANGED fetcher
            ELSE fetcher' = [fetcher EXCEPT ![p] =
                   [pc |-> "create", temp |-> temp, file |-> setups + 1, next |-> 1,
                    stream |-> stream]]
  /\ UNCHANGED <<content, named, digest, contested>>

Writers(f) ==
  {q \in Fetchers : fetcher[q].pc \in {"write", "check", "rename"} /\ fetcher[q].file = f}

\* os.Create truncates the file that an earlier attempt left, or that another process is
\* still writing.
CreateTemp(p) ==
  /\ fetcher[p].pc = "create"
  /\ LET temp == fetcher[p].temp
         file == IF named[temp] # 0 THEN named[temp] ELSE fetcher[p].file
     IN /\ named' = [named EXCEPT ![temp] = file]
        /\ content' = [content EXCEPT ![file] = Hole]
        /\ fetcher' = [fetcher EXCEPT ![p].pc = "write", ![p].file = file]
        /\ contested' = IF Writers(file) # {} THEN contested \cup {file} ELSE contested
  /\ UNCHANGED <<setups, digest>>

\* At the process's own place in the file.
WriteBlock(p) ==
  /\ fetcher[p].pc = "write"
  /\ LET now == fetcher[p]
     IN /\ content' = [content EXCEPT ![now.file][now.next] = now.stream]
        /\ fetcher' = IF now.next = NumBlocks
                        THEN [fetcher EXCEPT ![p].pc = "check"]
                        ELSE [fetcher EXCEPT ![p].next = now.next + 1]
  /\ UNCHANGED <<named, setups, digest, contested>>

RemoveTemp(p) == named' = [named EXCEPT ![fetcher[p].temp] = 0]

\* The server refuses, or the transfer breaks off or takes more than two minutes.
TransferFails(p) ==
  /\ \/ fetcher[p].pc = "create" /\ UNCHANGED named
     \/ fetcher[p].pc = "write" /\ RemoveTemp(p)
  /\ FetcherEnds(p)
  /\ UNCHANGED <<content, setups, digest, contested>>

CheckDigest(p) ==
  /\ fetcher[p].pc = "check"
  /\ IF fetcher[p].temp = "download" /\ digest /\ fetcher[p].stream # "model"
       THEN RemoveTemp(p) /\ FetcherEnds(p)
       ELSE fetcher' = [fetcher EXCEPT ![p].pc = "rename"] /\ UNCHANGED named
  /\ UNCHANGED <<content, setups, digest, contested>>

\* What the temporary name leads to is moved.  Another process may have moved it already,
\* or put there a file that it is still writing.
MoveIntoPlace(p) ==
  /\ fetcher[p].pc = "rename"
  /\ LET moved == named[fetcher[p].temp]
     IN /\ named' = IF moved = 0 THEN named
                      ELSE [named EXCEPT !["model"] = moved, ![fetcher[p].temp] = 0]
        /\ contested' = IF moved \in {0, fetcher[p].file} THEN contested ELSE contested \cup {moved}
  /\ FetcherEnds(p)
  /\ UNCHANGED <<content, setups, digest>>

\* The temporary file stays.
FetcherDies(p) ==
  /\ fetcher[p].pc # "idle"
  /\ FetcherEnds(p)
  /\ UNCHANGED <<content, named, setups, digest, contested>>

ModelDownloadNext ==
  \E p \in Fetchers :
    \/ Setup(p) \/ CreateTemp(p) \/ WriteBlock(p) \/ TransferFails(p)
    \/ CheckDigest(p) \/ MoveIntoPlace(p) \/ FetcherDies(p)

-----------------------------------------------------------------------------
(* Properties *)

ModelDownloadTypeOK ==
  /\ content \in [1..MaxSetups -> [Blocks -> {"hole", "model", "other"}]]
  /\ named \in [{"model", "download", "copy"} -> 0..MaxSetups]
  /\ \A p \in Fetchers :
       /\ fetcher[p].pc \in {"idle", "create", "write", "check", "rename"}
       /\ fetcher[p].temp \in {"none", "copy", "download"}
       /\ fetcher[p].file \in 0..MaxSetups /\ fetcher[p].next \in Blocks
       /\ fetcher[p].stream \in {"model", "other"}
  /\ setups \in 0..MaxSetups /\ digest \in BOOLEAN
  /\ contested \subseteq 1..MaxSetups

\* The file in the model's place is complete through failures, restarts and replacements,
\* and with a digest it is the model, unless two processes met at the temporary file:
\* the digest of a stream then says nothing of what is moved.
ModelIsWhole ==
  (named["model"] # 0 /\ named["model"] \notin contested) =>
    \E stream \in IF digest THEN {"model"} ELSE {"model", "other"} :
      \A b \in Blocks : content[named["model"]][b] = stream
=============================================================================
