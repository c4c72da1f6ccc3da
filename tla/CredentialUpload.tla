--------------------------- MODULE CredentialUpload ---------------------------
(***************************************************************************)
(* Uploading the credential directories of the host to a container         *)
(* (engine/connection/upload_credentials/).                                *)
(*                                                                         *)
(* The call looks which of .claude and .codex are enabled and present,     *)
(* walks them while it builds a tar archive in memory, and hands the       *)
(* archive to the daemon in one request.  Other programs of the host use   *)
(* the same directories: between any two file-system calls a file may grow *)
(* or shrink, a directory or file may go, and a directory may become a     *)
(* file.  Nothing is created, so what is present was present all along.    *)
(*                                                                         *)
(* The recursion over directories is a list of work still to do, innermost *)
(* directory first.  A file that is open keeps its contents when it is     *)
(* removed.                                                                *)
(***************************************************************************)
EXTENDS Naturals, Sequences, SequencesExt

CONSTANTS
    Names,            \* names of files and directories
    Entries,          \* paths below the credential directories, each a sequence of names
    Children,         \* the entries of each directory, sorted by name
    EntryKind,        \* file, dir, symlink or other (a socket, say), of each entry
    MaxFileBytes,     \* bound: how long a file gets
    MaxHostChanges    \* bound: how often the host changes something in a call

Claude == <<".claude">>
Codex == <<".codex">>
Sources == {Claude, Codex}
Nodes == Entries \cup Sources
Kinds == {"absent", "dir", "file", "symlink", "other"}

\* An entry lies below a source, and a directory's listing has entries one name
\* longer than its own path, each of them once.
ASSUME UploadAssumption ==
    /\ {".claude", ".codex"} \subseteq Names
    /\ \A e \in Entries : e \in Seq(Names) /\ Len(e) > 1
    /\ Children \in [Nodes -> Seq(Entries)]
    /\ \A n \in Nodes : \A i \in DOMAIN Children[n] :
          /\ IsPrefix(n, Children[n][i]) /\ Len(Children[n][i]) = Len(n) + 1
          /\ \A j \in DOMAIN Children[n] : Children[n][j] = Children[n][i] => j = i
    /\ EntryKind \in [Entries -> Kinds \ {"absent"}]
    /\ MaxFileBytes \in Nat \ {0} /\ MaxHostChanges \in Nat

VARIABLES
    \* the host
    hostKind,       \* what is at each path
    hostSize,       \* how long each file is
    hostChanges,    \* how often the host changed something
    \* the call
    uploadStep,     \* idle, claude, codex, archive, send or done
    enabled,        \* the sources copy_claude and copy_codex enable
    selected,       \* source_directory_names
    todo,           \* what is left to archive, as pairs of an operation and a path
    headerSize,     \* the size read from the file that is open
    archive,        \* the archive built so far
    uploadReport,   \* none, filesystem error, upload failed or uploaded
    expectedPaths,  \* expected_container_paths of a successful result
    \* the container
    received        \* what the daemon unpacked into the container

hostVars == <<hostKind, hostSize, hostChanges>>
resultVars == <<uploadReport, expectedPaths, received>>
callVars == <<uploadStep, enabled, selected, todo, headerSize, archive>>
uploadVars == <<hostVars, callVars, resultVars>>

\* The paths at and below a node, to any depth the tree has.
Below == [n \in Nodes |-> {m \in Nodes : IsPrefix(n, m)}]

\* The trees a call may find: each source there, missing, or not a directory.
Tree(sourceKind) ==
    [n \in Nodes |->
        IF n \in Sources THEN sourceKind[n]
        ELSE IF \E s \in Sources : n \in Below[s] /\ sourceKind[s] = "dir" THEN EntryKind[n]
        ELSE "absent"]

UploadInit ==
    /\ hostKind = [n \in Nodes |-> "absent"]
    /\ hostSize = [n \in Nodes |-> 1] /\ hostChanges = 0
    /\ uploadStep = "idle" /\ enabled = {}
    /\ selected = <<>> /\ todo = <<>> /\ headerSize = 0 /\ archive = <<>>
    /\ uploadReport = "none" /\ expectedPaths = <<>> /\ received = <<>>

----------------------------------------------------------------------------
(* Choosing the sources.                                                   *)

Finish(report) == uploadStep' = "done" /\ uploadReport' = report

StartUpload ==
    /\ uploadStep \in {"idle", "done"}
    /\ uploadStep' = "claude" /\ enabled' \in SUBSET Sources
    /\ \E kinds \in [Sources -> {"absent", "dir", "file"}] : hostKind' = Tree(kinds)
    /\ hostSize' = [n \in Nodes |-> 1] /\ hostChanges' = 0
    /\ selected' = <<>> /\ todo' = <<>> /\ archive' = <<>>
    /\ uploadReport' = "none" /\ expectedPaths' = <<>> /\ received' = <<>>
    /\ headerSize' = 0

\* What was archived before the failure is uploaded.
HostCallFailsUploading ==
    /\ uploadStep \in {"claude", "codex", "archive"}
    /\ Finish("filesystem error")
    /\ received' = archive
    /\ UNCHANGED <<hostVars, enabled, selected, todo, headerSize, archive, expectedPaths>>

\* Any file-system call may fail; nothing is uploaded then.
HostCallFails ==
    /\ uploadStep \in {"claude", "codex", "archive"}
    /\ Finish("filesystem error")
    /\ UNCHANGED <<hostVars, enabled, selected, todo, headerSize, archive>>
    /\ UNCHANGED <<expectedPaths, received>>

Include(source) == IF source \in enabled /\ hostKind[source] = "dir" THEN <<source>> ELSE <<>>

\* A source that exists must be a directory: one that is something else is a HostCallFails.
Includable(source) == source \in enabled => hostKind[source] \in {"dir", "absent"}

IncludeClaude ==
    /\ uploadStep = "claude" /\ Includable(Claude)
    /\ selected' = selected \o Include(Claude)
    /\ uploadStep' = "codex"
    /\ UNCHANGED <<hostVars, enabled, todo, headerSize, archive, resultVars>>

IncludeCodex ==
    /\ uploadStep = "codex" /\ Includable(Codex)
    /\ selected' = selected \o Include(Codex)
    /\ IF selected' = <<>>
       THEN Finish("uploaded") /\ UNCHANGED todo
       ELSE /\ uploadStep' = "archive"
            /\ todo' = [i \in DOMAIN selected' |-> <<"dir", selected'[i]>>]
            /\ UNCHANGED uploadReport
    /\ UNCHANGED <<hostVars, enabled, headerSize, archive, expectedPaths, received>>

----------------------------------------------------------------------------
(* Building the archive.                                                   *)

At(operation) == uploadStep = "archive" /\ todo # <<>> /\ Head(todo)[1] = operation
Path == Head(todo)[2]

TarEntry(type, n, size, body) == [type |-> type, path |-> n, size |-> size, body |-> body]

Add(entry) == archive' = Append(archive, entry)

Do(operations) == todo' = operations \o Tail(todo)

archiving == <<hostVars, uploadStep, enabled, selected, resultVars>>

\* A directory that has gone is passed over.
AppendDirectoryHeaderSkipping ==
    /\ At("dir")
    /\ IF hostKind[Path] = "absent"
       THEN Do(<<>>) /\ UNCHANGED archive
       ELSE Add(TarEntry("directory", Path, 0, 0)) /\ Do(<<<<"open", Path>>>>)
    /\ UNCHANGED <<headerSize, archiving>>

\* metadata, which does not ask for a directory, and the header.
AppendDirectoryHeader ==
    /\ At("dir") /\ hostKind[Path] # "absent"
    /\ Add(TarEntry("directory", Path, 0, 0))
    /\ Do(<<<<"open", Path>>>>)
    /\ UNCHANGED <<headerSize, archiving>>

OpenDir ==
    /\ At("open") /\ hostKind[Path] = "dir"
    /\ Do(<<<<"list", Path>>>>)
    /\ UNCHANGED <<headerSize, archive, archiving>>

\* What sorted_entries finds behind the open handle: nothing in a directory that has been
\* removed meanwhile.
Archivable(n) == hostKind[n] \in {"dir", "file", "symlink"}

\* The entries in the order in which the host lists them.
ListedEntries(n) == IF hostKind[n] = "dir" THEN Reverse(Children[n]) ELSE <<>>

SortedEntries(n) == IF hostKind[n] = "dir" THEN Children[n] ELSE <<>>

\* classify_entry_kind: an entry of another kind is passed over.
Operation(n) == IF Archivable(n) THEN hostKind[n] ELSE "pass"

AppendDirectoryContents ==
    /\ At("list")
    /\ LET entries == SortedEntries(Path) IN
          Do([i \in DOMAIN entries |-> <<Operation(entries[i]), entries[i]>>])
    /\ UNCHANGED <<headerSize, archive, archiving>>

PassOver ==
    /\ At("pass")
    /\ Do(<<>>)
    /\ UNCHANGED <<headerSize, archive, archiving>>

\* open, and the size the header will carry.
OpenFile ==
    /\ At("file") /\ hostKind[Path] # "absent"
    /\ headerSize' = hostSize[Path]
    /\ Do(<<<<"stream", Path>>>>)
    /\ UNCHANGED <<archive, archiving>>

\* append_data copies the file to its end, wherever that is by now.
StreamFile ==
    /\ At("stream")
    /\ Add(TarEntry("regular", Path, headerSize, hostSize[Path]))
    /\ Do(<<>>)
    /\ UNCHANGED <<headerSize, archiving>>

AppendSymlink ==
    /\ At("symlink") /\ hostKind[Path] = "symlink"
    /\ Add(TarEntry("symlink", Path, 0, 0))
    /\ Do(<<>>)
    /\ UNCHANGED <<headerSize, archiving>>

FinishArchive ==
    /\ uploadStep = "archive" /\ todo = <<>>
    /\ uploadStep' = "send"
    /\ UNCHANGED <<hostVars, enabled, selected, todo, headerSize, archive, resultVars>>

----------------------------------------------------------------------------
(* Handing it to the daemon.                                               *)

UploadToContainer ==
    /\ uploadStep = "send"
    /\ Finish("uploaded")
    /\ received' = archive /\ expectedPaths' = selected
    /\ UNCHANGED <<hostVars, enabled, selected, todo, headerSize, archive>>

\* The daemon answers with an error, before it unpacked anything or after a part or all.
UploadFails ==
    /\ uploadStep = "send"
    /\ Finish("upload failed")
    /\ \E n \in 0..Len(archive) : received' = SubSeq(archive, 1, n)
    /\ UNCHANGED <<hostVars, enabled, selected, todo, headerSize, archive, expectedPaths>>

----------------------------------------------------------------------------
(* The host.                                                               *)

UploadActive == uploadStep \notin {"idle", "done"}

HostChange ==
    /\ UploadActive /\ hostChanges < MaxHostChanges /\ hostChanges' = hostChanges + 1
    /\ UNCHANGED <<callVars, resultVars>>

HostResizes(n) ==
    /\ hostKind[n] = "file"
    /\ \E size \in 0..MaxFileBytes :
          size # hostSize[n] /\ hostSize' = [hostSize EXCEPT ![n] = size]
    /\ HostChange /\ UNCHANGED hostKind

HostRemoves(n, left) ==
    /\ hostKind[n] # "absent" /\ left # hostKind[n]
    /\ left = "file" => hostKind[n] = "dir"
    /\ hostKind' = [m \in Nodes |->
                       IF m = n THEN left
                       ELSE IF m \in Below[n] THEN "absent" ELSE hostKind[m]]
    /\ HostChange /\ UNCHANGED hostSize

UploadStep ==
    \/ IncludeClaude \/ IncludeCodex \/ HostCallFails
    \/ AppendDirectoryHeader \/ OpenDir \/ AppendDirectoryContents
    \/ PassOver \/ OpenFile \/ StreamFile \/ AppendSymlink \/ FinishArchive
    \/ UploadToContainer \/ UploadFails

UploadHost == \E n \in Nodes : HostResizes(n) \/ \E left \in {"absent", "file"} : HostRemoves(n, left)

----------------------------------------------------------------------------

ArchiveOperations == {"dir", "open", "list", "pass", "file", "stream", "symlink"}
TarEntries ==
    [type : {"directory", "regular", "symlink"}, path : Nodes,
     size : 0..MaxFileBytes, body : 0..MaxFileBytes]

UploadTypeOK ==
    /\ hostKind \in [Nodes -> Kinds] /\ hostSize \in [Nodes -> 0..MaxFileBytes]
    /\ hostChanges \in 0..MaxHostChanges
    /\ uploadStep \in {"idle", "claude", "codex", "archive", "send", "done"}
    /\ enabled \in SUBSET Sources /\ selected \in Seq(Sources)
    /\ todo \in Seq(ArchiveOperations \X Nodes) /\ headerSize \in 0..MaxFileBytes
    /\ archive \in Seq(TarEntries) /\ received \in Seq(TarEntries)
    /\ uploadReport \in {"none", "filesystem error", "upload failed", "uploaded"}
    /\ expectedPaths \in Seq(Sources)

Paths(entries) == {entries[i].path : i \in DOMAIN entries}
Directories(entries) ==
    {entries[i].path : i \in {j \in DOMAIN entries : entries[j].type = "directory"}}

\* A call that fails on the host has sent nothing: the container is touched only after the
\* whole archive was built, so FilesystemError means an unchanged container.
UploadAllOrNothing ==
    received # <<>> =>
        /\ uploadReport \in {"upload failed", "uploaded"}
        /\ todo = <<>> /\ IsPrefix(received, archive)

\* A successful result names exactly the directories the container got, .claude before
\* .codex; an enabled directory it does not name is not one the host has, and of every
\* directory that went into the archive the container got each entry the host still has.
UploadReportTrue ==
    uploadReport = "uploaded" =>
        /\ expectedPaths \in {<<>>, <<Claude>>, <<Codex>>, <<Claude, Codex>>}
        /\ ToSet(expectedPaths) = Paths(received) \cap Sources
        /\ ToSet(expectedPaths) \subseteq enabled
        /\ \A s \in enabled \ ToSet(expectedPaths) : hostKind[s] # "dir"
        /\ \A p \in Directories(received) : hostKind[p] = "dir" =>
              \A n \in ToSet(Children[p]) : Archivable(n) => n \in Paths(received)

\* Two entries of a directory, in the order of their names.
NameBefore(m, n) ==
    \E p \in Nodes : \E k, l \in DOMAIN Children[p] :
        k < l /\ Children[p][k] = m /\ Children[p][l] = n

\* An archive has every path once, a directory before its contents, and the entries of a
\* directory in the order of their names, in whatever order the host lists them.
ArchiveInOrder ==
    \A i, j \in DOMAIN archive : i < j =>
        LET m == archive[i].path  n == archive[j].path IN
        m # n /\ m \notin Below[n] \ {n} /\ ~NameBefore(n, m)

\* Every file in the archive has the size its header announces.
HeaderSizesMatch ==
    \A i \in DOMAIN archive : archive[i].size = archive[i].body


----------------------------------------------------------------------------
(* The inductive invariant of the walk's order.                            *)

\* A path may be archived when another has been.
MayFollow(n, m) == m \notin Below[n] /\ ~NameBefore(n, m)

\* What is to do comes after what is archived, and each item of work after those before it.
OrderInv ==
    /\ \A i, j \in DOMAIN archive : i < j => MayFollow(archive[j].path, archive[i].path)
    /\ \A i \in DOMAIN todo : \A m \in Paths(archive) :
          IF todo[i][1] \in {"open", "list"} THEN m \in Below[todo[i][2]] => m = todo[i][2]
          ELSE MayFollow(todo[i][2], m)
    /\ \A i, j \in DOMAIN todo : i < j =>
          /\ Below[todo[i][2]] \cap Below[todo[j][2]] = {}
          /\ ~NameBefore(todo[j][2], todo[i][2])

=============================================================================
