------------------------------- MODULE TempFile -------------------------------
(***************************************************************************)
(* How prt2_writer (src/src/prtfile/prt2_writer.cpp) puts a file in place:   *)
(* it writes a local temporary file; close() moves it beside the target,     *)
(* removes the target and renames it.  Each call of the file system is a     *)
(* step of its own, which may fail; another process may look at the disk,    *)
(* or this one may die, between any two.                                     *)
(*                                                                          *)
(* The module is extended by the stream that writes the file.                *)
(***************************************************************************)
EXTENDS Integers, Sequences, FiniteSets

VARIABLES
  useTemp,   \* m_useTempFile
  sameTemp,  \* m_tempLocalFile = m_tempRemoteFile: the target's drive is a local one
  disk,      \* what is at each place: the old file, the one being written, a part of it
  isOpen,    \* m_file # NULL
  bad,       \* m_file->fail(): since a "write" or since the last "flush"
  unwinding, \* std::uncaught_exceptions() # 0
  commit     \* where prt2_writer::close() is

diskVars == <<useTemp, sameTemp, disk, isOpen, bad, unwinding, commit>>

Places    == {"local", "remote", "target"}
Contents  == {"none", "old", "new", "cut"}
CommitAt  == {"no", "flush", "remote", "copy", "local", "target", "rename",
              "discard", "dropLocal", "dropRemote", "done", "threw"}

DiskTypeOK ==
  /\ useTemp \in BOOLEAN /\ sameTemp \in BOOLEAN
  /\ disk \in [Places -> Contents]
  /\ isOpen \in BOOLEAN /\ bad \in {"no", "write", "flush"}
  /\ unwinding \in BOOLEAN
  /\ commit \in CommitAt

\* Where the file is written: paths that are equal in the code are one place here.
Written == IF ~useTemp THEN "target" ELSE IF sameTemp THEN "remote" ELSE "local"

\* The target is a file that was there before; remove() of a missing one does nothing.
DiskInit ==
  /\ useTemp \in BOOLEAN /\ sameTemp \in BOOLEAN
  /\ disk = [p \in Places |-> IF p = "target" THEN "old" ELSE "none"]
  /\ isOpen = FALSE /\ bad = "no" /\ unwinding = FALSE /\ commit = "no"

\* open(): the file is created at its place.
Create == disk' = [disk EXCEPT ![Written] = "new"] /\ isOpen' = TRUE

GoOn(step) == commit' = step

-----------------------------------------------------------------------------
(* prt2_writer::close().                                                    *)

\* Mutant: an exception in flight does not keep the file from being finished.
StartCommitAlways ==
  /\ commit = "no"
  /\ IF useTemp /\ isOpen
     THEN GoOn("flush") /\ UNCHANGED isOpen
     ELSE GoOn("done") /\ isOpen' = FALSE
  /\ UNCHANGED <<useTemp, sameTemp, disk, bad, unwinding>>

\* A file that was closed before, and one written in place, are only closed.
StartCommit ==
  /\ commit = "no"
  /\ IF useTemp /\ isOpen
     THEN GoOn(IF unwinding THEN "discard" ELSE "flush") /\ UNCHANGED isOpen
     ELSE GoOn("done") /\ isOpen' = FALSE
  /\ UNCHANGED <<useTemp, sameTemp, disk, bad, unwinding>>

\* Mutant: the file is flushed but not closed.
FlushOnly ==
  /\ commit = "flush"
  /\ bad' \in {bad, IF bad = "no" THEN "flush" ELSE bad}
  /\ GoOn(IF sameTemp THEN "target" ELSE "remote")
  /\ UNCHANGED <<useTemp, sameTemp, disk, isOpen, unwinding>>

\* A flush that fails is logged; the file is closed and goes on its way.
Flush ==
  /\ commit = "flush"
  /\ isOpen' = FALSE
  /\ bad' \in {bad, IF bad = "no" THEN "flush" ELSE bad}
  /\ GoOn(IF sameTemp THEN "target" ELSE "remote")
  /\ UNCHANGED <<useTemp, sameTemp, disk, unwinding>>

\* rename( m_tempLocalFile, m_tempRemoteFile ): moved, or on another device, or failed.
MoveBeside ==
  /\ commit = "remote"
  /\ \/ /\ disk' = [disk EXCEPT !["local"] = "none", !["remote"] = disk["local"]]
        /\ GoOn("target")
     \/ GoOn("copy") /\ UNCHANGED disk
     \/ GoOn("threw") /\ UNCHANGED disk
  /\ UNCHANGED <<useTemp, sameTemp, isOpen, bad, unwinding>>

\* Mutant: a copy that fails is treated as one that was made.
CopyAnyway ==
  /\ commit = "copy"
  /\ \E c \in {disk["local"], "cut"} : disk' = [disk EXCEPT !["remote"] = c]
  /\ GoOn("local")
  /\ UNCHANGED <<useTemp, sameTemp, isOpen, bad, unwinding>>

\* copy_file(): a copy that fails may leave a part of the file.
CopyBeside ==
  /\ commit = "copy"
  /\ \/ disk' = [disk EXCEPT !["remote"] = disk["local"]] /\ GoOn("local")
     \/ \E c \in {disk["remote"], "cut"} : disk' = [disk EXCEPT !["remote"] = c] /\ GoOn("threw")
  /\ UNCHANGED <<useTemp, sameTemp, isOpen, bad, unwinding>>

\* The local file is removed after the copy; failing that is only logged.
RemoveLocal ==
  /\ commit = "local" /\ GoOn("target")
  /\ \E c \in {"none", disk["local"]} : disk' = [disk EXCEPT !["local"] = c]
  /\ UNCHANGED <<useTemp, sameTemp, isOpen, bad, unwinding>>

RemoveTarget ==
  /\ commit = "target"
  /\ \/ disk' = [disk EXCEPT !["target"] = "none"] /\ GoOn("rename")
     \/ GoOn("threw") /\ UNCHANGED disk
  /\ UNCHANGED <<useTemp, sameTemp, isOpen, bad, unwinding>>

RenameToTarget ==
  /\ commit = "rename"
  /\ \/ /\ disk' = [disk EXCEPT !["target"] = disk["remote"], !["remote"] = "none"]
        /\ GoOn("done")
     \/ GoOn("threw") /\ UNCHANGED disk
  /\ UNCHANGED <<useTemp, sameTemp, isOpen, bad, unwinding>>

\* Under an exception the file is closed and both temporary files are removed, if they exist;
\* exists() and remove() throw when they fail.
Discard ==
  /\ commit = "discard" /\ GoOn("dropLocal")
  /\ isOpen' = FALSE
  /\ UNCHANGED <<useTemp, sameTemp, disk, bad, unwinding>>

DropLocal ==
  /\ commit = "dropLocal"
  /\ \/ disk' = [disk EXCEPT ![Written] = "none"] /\ GoOn("dropRemote")
     \/ GoOn("threw") /\ UNCHANGED disk
  /\ UNCHANGED <<useTemp, sameTemp, isOpen, bad, unwinding>>

DropRemote ==
  /\ commit = "dropRemote"
  /\ \/ disk' = [disk EXCEPT !["remote"] = "none"] /\ GoOn("done")
     \/ GoOn("threw") /\ UNCHANGED disk
  /\ UNCHANGED <<useTemp, sameTemp, isOpen, bad, unwinding>>

CommitStep ==
  \/ Flush \/ MoveBeside \/ CopyBeside \/ RemoveLocal
  \/ RemoveTarget \/ RenameToTarget
  \/ Discard \/ DropLocal \/ DropRemote

-----------------------------------------------------------------------------
(* What a reader of the directory relies on, whenever it looks.             *)

\* The target is the old file or a file that was closed, never one half written or copied.
NeverHalfThere ==
  useTemp => disk["target"] # "cut" /\ (disk["target"] = "new" => ~isOpen)
=============================================================================
