------------------------------ MODULE SkillStore ------------------------------
(***************************************************************************)
(* One skill in the directory of the user's skills: "skills add / install  *)
(* / configure" and the wizard put it there (internal/skills/              *)
(* marketplace.go, extract.go), "skills remove" takes it away, each        *)
(* program in a process of its own.                                        *)
(*                                                                         *)
(* The skill is a sequence of files in the order they are copied, SKILL.md *)
(* the first; a file is open, and torn, while it is written.  The archive  *)
(* of a repository counts as one file: it brings the whole repository,     *)
(* with the skill somewhere inside, where a URL of its own brings the      *)
(* skill.  The switch in the settings is ConfigFile's.                     *)
(***************************************************************************)
EXTENDS Integers

CONSTANTS
  Installers,  \* programs
  NumFiles,    \* of the skill
  MaxInstalls  \* bound: installs and removals

ASSUME SkillStoreConfig == NumFiles \in Nat \ {0} /\ MaxInstalls \in Nat

VARIABLES
  onDisk,     \* the skill's directory: is it there, its files, and a repository in it
  bundled,    \* a copy came with the program
  installer,  \* per program: where it is, where the files come from, and the next one
  installs,
  mishap      \* history: a named hazard has met what the directory holds

skillVars == <<onDisk, bundled, installer, installs, mishap>>

SkillFiles == 1..NumFiles

Nothing == [there |-> FALSE, file |-> [f \in SkillFiles |-> "absent"], repo |-> FALSE]

NoInstaller == [pc |-> "idle", from |-> "none", next |-> 1]

SkillStoreInit ==
  /\ onDisk = Nothing
  /\ bundled \in BOOLEAN
  /\ installer = [p \in Installers |-> NoInstaller]
  /\ installs = 0
  /\ mishap = FALSE

InstallerGoes(p, pc, from, next) ==
  installer' = [installer EXCEPT ![p] = [pc |-> pc, from |-> from, next |-> next]]

Ends(p) == installer' = [installer EXCEPT ![p] = NoInstaller]

-----------------------------------------------------------------------------
\* Install refuses a skill whose directory is there, whatever it holds, and looks for the
\* program's own copy first; InstallFromPath copies a directory of the user's.
Install(p) ==
  /\ installer[p].pc = "idle"
  /\ installs < MaxInstalls /\ installs' = installs + 1
  /\ IF onDisk.there
       THEN UNCHANGED installer
       ELSE \E from \in {"path", IF bundled THEN "bundle" ELSE "git"} :
              InstallerGoes(p, IF from = "git" THEN "fetch" ELSE "mkdir", from, 1)
  /\ UNCHANGED <<onDisk, bundled, mishap>>

\* The index may be out of reach, and list the skill with a repository or with a URL of its
\* own; a name may be a URL as well.  Without any the skill is not found.
FetchIndex(p) ==
  /\ installer[p].pc = "fetch"
  /\ \/ InstallerGoes(p, "mkdir", "git", 1)
     \/ \E from \in {"archive", "url"} : InstallerGoes(p, "download", from, 1)
     \/ Ends(p)
  /\ UNCHANGED <<onDisk, bundled, installs, mishap>>

\* An archive is in a temporary file before the directory is made.
Download(p) ==
  /\ installer[p].pc = "download"
  /\ \/ InstallerGoes(p, "mkdir", installer[p].from, 1)
     \/ Ends(p)
  /\ UNCHANGED <<onDisk, bundled, installs, mishap>>

MakeDir(p) ==
  /\ installer[p].pc = "mkdir"
  /\ onDisk' = [onDisk EXCEPT !.there = TRUE]
  /\ InstallerGoes(p, "open", installer[p].from, 1)
  /\ UNCHANGED <<bundled, installs, mishap>>

\* A file is created, with the directories above it, or truncated.
OpenCopy(p) ==
  /\ installer[p].pc = "open"
  /\ onDisk' = IF installer[p].from = "archive"
                 THEN [onDisk EXCEPT !.there = TRUE, !.repo = TRUE]
                 ELSE [onDisk EXCEPT !.there = TRUE, !.file[installer[p].next] = "torn"]
  /\ InstallerGoes(p, "write", installer[p].from, installer[p].next)
  /\ UNCHANGED <<bundled, installs, mishap>>

LastFile(p) == installer[p].from = "archive" \/ installer[p].next = NumFiles

\* A removal may have come in between; what is written then goes nowhere.
WriteCopy(p) ==
  /\ installer[p].pc = "write"
  /\ onDisk' = IF installer[p].from # "archive" /\ onDisk.file[installer[p].next] = "torn"
                 THEN [onDisk EXCEPT !.file[installer[p].next] = "whole"]
                 ELSE onDisk
  /\ IF LastFile(p)
       THEN Ends(p)
       ELSE InstallerGoes(p, "open", installer[p].from, installer[p].next + 1)
  /\ mishap' = (mishap \/ installer[p].from = "archive")
  /\ UNCHANGED <<bundled, installs>>

\* What was copied so far stays.  After a checkout the archive of the same repository is
\* tried, into the same directory; otherwise the user is told.
CopyFails(p) ==
  /\ installer[p].pc \in {"mkdir", "open", "write"}
  /\ IF installer[p].from = "git" THEN InstallerGoes(p, "download", "archive", 1) ELSE Ends(p)
  /\ mishap' = (mishap \/ onDisk.there)
  /\ UNCHANGED <<onDisk, bundled, installs>>

\* The user ends the program.
InstallerDies(p) ==
  /\ installer[p].pc # "idle"
  /\ Ends(p)
  /\ mishap' = (mishap \/ onDisk.there)
  /\ UNCHANGED <<onDisk, bundled, installs>>

\* Nothing keeps a removal from an install that is under way, which then goes on.
RemoveSkill ==
  /\ onDisk.there
  /\ installs < MaxInstalls /\ installs' = installs + 1
  /\ onDisk' = Nothing
  /\ mishap' = \E p \in Installers : installer[p].pc \in {"open", "write"}
  /\ UNCHANGED <<bundled, installer>>

SkillStoreNext ==
  \/ RemoveSkill
  \/ \E p \in Installers :
       \/ Install(p) \/ FetchIndex(p) \/ Download(p)
       \/ MakeDir(p) \/ OpenCopy(p) \/ WriteCopy(p) \/ CopyFails(p) \/ InstallerDies(p)

-----------------------------------------------------------------------------
(* Properties *)

SkillStoreTypeOK ==
  /\ onDisk.there \in BOOLEAN /\ onDisk.repo \in BOOLEAN
  /\ onDisk.file \in [SkillFiles -> {"absent", "torn", "whole"}]
  /\ \A p \in Installers :
       /\ installer[p].pc \in {"idle", "fetch", "download", "mkdir", "open", "write"}
       /\ installer[p].from \in {"none", "path", "bundle", "git", "archive", "url"}
       /\ installer[p].next \in SkillFiles
  /\ bundled \in BOOLEAN /\ installs \in 0..MaxInstalls /\ mishap \in BOOLEAN

\* A directory that counts as an installed skill is the whole skill when no program is at
\* work on it, also after two programs installed it at once, unless one of them failed or
\* was ended half-way, fell back to the archive of the repository, or ran into a removal:
\* then "already installed" is all the user hears until the skill is removed.
SkillsAreWhole ==
  (onDisk.there /\ ~mishap /\ \A p \in Installers : installer[p].pc = "idle") =>
    /\ \A f \in SkillFiles : onDisk.file[f] = "whole"
    /\ ~onDisk.repo
=============================================================================
