------------------------ MODULE CredentialUpload_proofs ------------------------
(***************************************************************************)
(* What an upload keeps true, for every tree of directories and every      *)
(* interference of the host.                                               *)
(***************************************************************************)
EXTENDS CredentialUpload, SequenceTheorems, TLAPS

----------------------------------------------------------------------------
(* The elements of a sequence.                                             *)

LEMMA ToSetConcat ==
  ASSUME NEW S, NEW s \in Seq(S), NEW t \in Seq(S)
  PROVE  ToSet(s \o t) = ToSet(s) \cup ToSet(t)
  <1>1. /\ s \o t \in Seq(S) /\ Len(s \o t) = Len(s) + Len(t)
        /\ \A i \in 1..Len(s) + Len(t) :
              (s \o t)[i] = IF i <= Len(s) THEN s[i] ELSE t[i - Len(s)]
    BY ConcatProperties
  <1>2. /\ DOMAIN s = 1..Len(s) /\ DOMAIN t = 1..Len(t) /\ Len(s) \in Nat /\ Len(t) \in Nat
        /\ DOMAIN (s \o t) = 1..Len(s) + Len(t)
    BY <1>1, LenProperties
  <1>3. ASSUME NEW x \in ToSet(s \o t) PROVE x \in ToSet(s) \cup ToSet(t)
    <2>1. PICK i \in 1..Len(s) + Len(t) : x = (s \o t)[i]
      BY <1>2, <1>3 DEF ToSet
    <2>2. CASE i <= Len(s)
      BY <1>1, <1>2, <2>1, <2>2 DEF ToSet
    <2>3. CASE ~(i <= Len(s))
      <3>1. i - Len(s) \in 1..Len(t) /\ x = t[i - Len(s)]
        BY <1>1, <1>2, <2>1, <2>3
      <3> QED  BY <1>2, <3>1 DEF ToSet
    <2> QED  BY <2>2, <2>3
  <1>4. ASSUME NEW x \in ToSet(s) PROVE x \in ToSet(s \o t)
    <2>1. PICK i \in 1..Len(s) : x = s[i]
      BY <1>2 DEF ToSet
    <2>2. i \in 1..Len(s) + Len(t) /\ x = (s \o t)[i]
      BY <1>1, <1>2, <2>1
    <2> QED  BY <1>2, <2>2 DEF ToSet
  <1>5. ASSUME NEW x \in ToSet(t) PROVE x \in ToSet(s \o t)
    <2>1. PICK i \in 1..Len(t) : x = t[i]
      BY <1>2 DEF ToSet
    <2>2. /\ i + Len(s) \in 1..Len(s) + Len(t) /\ ~(i + Len(s) <= Len(s))
          /\ (i + Len(s)) - Len(s) = i
      BY <1>2
    <2>3. x = (s \o t)[i + Len(s)]
      BY <1>1, <2>1, <2>2
    <2> QED  BY <1>2, <2>2, <2>3 DEF ToSet
  <1> QED  BY <1>3, <1>4, <1>5

LEMMA ToSetHeadTail ==
  ASSUME NEW S, NEW s \in Seq(S), s # <<>>
  PROVE  /\ Head(s) \in S /\ Tail(s) \in Seq(S)
         /\ ToSet(s) = {Head(s)} \cup ToSet(Tail(s))
  <1>1. /\ Head(s) \in S /\ Tail(s) \in Seq(S)
        /\ Len(s) \in Nat \ {0} /\ Len(Tail(s)) = Len(s) - 1
        /\ DOMAIN s = 1..Len(s) /\ DOMAIN Tail(s) = 1..Len(s) - 1
        /\ Head(s) = s[1] /\ \A i \in 1..Len(s) - 1 : Tail(s)[i] = s[i + 1]
    BY HeadTailProperties, EmptySeq, LenProperties
  <1>2. ASSUME NEW x \in ToSet(s) PROVE x \in {Head(s)} \cup ToSet(Tail(s))
    <2>1. PICK i \in 1..Len(s) : x = s[i]
      BY <1>1 DEF ToSet
    <2>2. CASE i = 1
      BY <1>1, <2>1, <2>2
    <2>3. CASE i # 1
      <3>1. i - 1 \in 1..Len(s) - 1 /\ x = Tail(s)[i - 1]
        BY <1>1, <2>1, <2>3
      <3> QED  BY <1>1, <3>1 DEF ToSet
    <2> QED  BY <2>2, <2>3
  <1>3. ASSUME NEW x \in {Head(s)} \cup ToSet(Tail(s)) PROVE x \in ToSet(s)
    <2>1. CASE x = Head(s)
      BY <1>1, <2>1 DEF ToSet
    <2>2. CASE x \in ToSet(Tail(s))
      <3>1. PICK i \in 1..Len(s) - 1 : x = Tail(s)[i]
        BY <1>1, <2>2 DEF ToSet
      <3>2. i + 1 \in 1..Len(s) /\ x = s[i + 1]
        BY <1>1, <3>1
      <3> QED  BY <1>1, <3>2 DEF ToSet
    <2> QED  BY <2>1, <2>2, <1>3
  <1> QED  BY <1>1, <1>2, <1>3

LEMMA ToSetSmall ==
  /\ ToSet(<<>>) = {}
  /\ \A x : ToSet(<<x>>) = {x}
  /\ \A x, y : ToSet(<<x, y>>) = {x, y}
  <1>1. ToSet(<<>>) = {}
    BY DEF ToSet
  <1>2. ASSUME NEW x PROVE ToSet(<<x>>) = {x}
    BY DEF ToSet
  <1>3. ASSUME NEW x, NEW y PROVE ToSet(<<x, y>>) = {x, y}
    <2>1. DOMAIN <<x, y>> = 1..2 /\ <<x, y>>[1] = x /\ <<x, y>>[2] = y
      OBVIOUS
    <2> QED  BY <2>1 DEF ToSet
  <1> QED  BY <1>1, <1>2, <1>3

LEMMA Tuples ==
  ASSUME NEW S, NEW x \in S, NEW y \in S
  PROVE  /\ <<>> \in Seq(S) /\ <<x>> \in Seq(S) /\ <<x, y>> \in Seq(S)
         /\ <<>> \o <<>> = <<>> /\ <<>> \o <<y>> = <<y>>
         /\ <<x>> \o <<>> = <<x>> /\ <<x>> \o <<y>> = <<x, y>>
  <1>1. <<>> \in Seq(S) /\ <<x>> \in Seq(S) /\ <<y>> \in Seq(S) /\ <<x, y>> \in Seq(S)
    OBVIOUS
  <1>2. Append(<<x>>, y) = <<x, y>>
    <2>1. /\ Append(<<x>>, y) \in Seq(S) /\ Len(Append(<<x>>, y)) = 2
          /\ Append(<<x>>, y)[1] = x /\ Append(<<x>>, y)[2] = y
      BY <1>1, AppendProperties
    <2>2. Len(<<x, y>>) = 2 /\ <<x, y>>[1] = x /\ <<x, y>>[2] = y
      OBVIOUS
    <2>3. \A i \in 1..2 : Append(<<x>>, y)[i] = <<x, y>>[i]
      BY <2>1, <2>2
    <2> QED  BY <1>1, <2>1, <2>2, <2>3, SeqEqual
  <1>3. <<>> \o <<>> = <<>> /\ <<>> \o <<y>> = <<y>> /\ <<x>> \o <<>> = <<x>>
    BY <1>1, ConcatEmptySeq
  <1>4. Append(<<x>>, y) = <<x>> \o <<y>>
    BY <1>1, AppendIsConcat
  <1> QED  BY <1>1, <1>2, <1>3, <1>4

\* A source is one name, an entry more than one.
LEMMA PathLengths ==
  /\ \A n \in Nodes : n \in Seq(Names) /\ Len(n) \in Nat
  /\ \A e \in Entries : Len(e) > 1
  /\ \A s \in Sources : Len(s) = 1
  /\ Claude # Codex
  <1>1. \A s \in Sources : s \in Seq(Names) /\ Len(s) = 1
    <2>1. \A name \in Names : <<name>> \in Seq(Names) /\ Len(<<name>>) = 1
      OBVIOUS
    <2> QED  BY <2>1, UploadAssumption DEF Sources, Claude, Codex
  <1>2. \A e \in Entries : e \in Seq(Names) /\ Len(e) > 1
    BY UploadAssumption
  <1>3. \A n \in Nodes : n \in Seq(Names)
    BY <1>1, <1>2 DEF Nodes
  <1>4. \A n \in Nodes : Len(n) \in Nat
    BY <1>3, LenProperties
  <1>5. Claude[1] # Codex[1]
    BY DEF Claude, Codex
  <1> QED  BY <1>1, <1>2, <1>3, <1>4, <1>5

----------------------------------------------------------------------------
(* What an operation of the walk does to the list of work and the archive. *)

Work == ArchiveOperations \X Nodes

LEMMA DoWork ==
  ASSUME todo \in Seq(Work), todo # <<>>, NEW operations \in Seq(Work), Do(operations)
  PROVE  /\ todo' \in Seq(Work)
         /\ Head(todo) \in Work
         /\ ToSet(todo') = ToSet(operations) \cup ToSet(Tail(todo))
         /\ ToSet(todo) = {Head(todo)} \cup ToSet(Tail(todo))
  <1>1. /\ Head(todo) \in Work /\ Tail(todo) \in Seq(Work)
        /\ ToSet(todo) = {Head(todo)} \cup ToSet(Tail(todo))
    BY ToSetHeadTail
  <1>2. todo' = operations \o Tail(todo)
    BY DEF Do
  <1>0. operations \in Seq(Work)
    OBVIOUS
  <1>3. ASSUME NEW t \in Seq(Work)
        PROVE  ToSet(operations \o t) = ToSet(operations) \cup ToSet(t)
    BY <1>0, ToSetConcat
  <1>5. ToSet(operations \o Tail(todo)) = ToSet(operations) \cup ToSet(Tail(todo))
    BY <1>1, <1>3
  <1>4. operations \o Tail(todo) \in Seq(Work)
    BY <1>1
  <1> QED  BY <1>1, <1>2, <1>5, <1>4

LEMMA AddEntry ==
  ASSUME archive \in Seq(TarEntries), NEW entry \in TarEntries, Add(entry)
  PROVE  /\ archive' \in Seq(TarEntries)
         /\ Paths(archive') = Paths(archive) \cup {entry.path}
         /\ Directories(archive') =
               Directories(archive) \cup
                  (IF entry.type = "directory" THEN {entry.path} ELSE {})
  <1>1. /\ archive' \in Seq(TarEntries) /\ Len(archive) \in Nat
        /\ DOMAIN archive = 1..Len(archive) /\ DOMAIN archive' = 1..Len(archive) + 1
        /\ \A i \in 1..Len(archive) : archive'[i] = archive[i]
        /\ archive'[Len(archive) + 1] = entry
    BY AppendProperties, LenProperties DEF Add
  <1>2. Paths(archive') = Paths(archive) \cup {entry.path}
    BY <1>1 DEF Paths
  <1>3. Directories(archive') =
           Directories(archive) \cup (IF entry.type = "directory" THEN {entry.path} ELSE {})
    BY <1>1 DEF Directories
  <1> QED  BY <1>1, <1>2, <1>3

----------------------------------------------------------------------------
(* The invariant.                                                          *)

\* Nothing is archived before the sources are chosen, and nothing is sent or reported
\* before the archive is whole.
Phases ==
    /\ uploadStep # "done" => uploadReport = "none" /\ expectedPaths = <<>> /\ received = <<>>
    /\ uploadStep \in {"idle", "claude", "codex"} => archive = <<>> /\ todo = <<>>
    /\ uploadStep = "claude" => selected = <<>>
    /\ uploadStep = "send" => todo = <<>>

Selections == {<<>>, <<Claude>>, <<Codex>>, <<Claude, Codex>>}

Building == uploadStep \in {"archive", "send"}

\* A source is selected only when enabled, and left out only when it was no directory.
Selected ==
    /\ uploadStep = "codex" =>
          /\ selected \in {<<>>, <<Claude>>} /\ ToSet(selected) \subseteq enabled
          /\ Claude \in enabled \ ToSet(selected) => hostKind[Claude] # "dir"
    /\ Building =>
          /\ selected \in Selections /\ ToSet(selected) \subseteq enabled
          /\ \A s \in enabled \ ToSet(selected) : hostKind[s] # "dir"

\* The selected sources, and no other source, are archived or are to be.
SourcesArchived ==
    Building =>
        /\ \A s \in ToSet(selected) : s \in Paths(archive) \/ <<"dir", s>> \in ToSet(todo)
        /\ \A s \in Sources :
              s \in Paths(archive) \/ (\E op \in ArchiveOperations : <<op, s>> \in ToSet(todo))
                  => s \in ToSet(selected)

AddsEntry == {"dir", "file", "stream", "symlink"}
Waiting(n) == \E op \in AddsEntry : <<op, n>> \in ToSet(todo)
Entered(p) == <<"open", p>> \in ToSet(todo) \/ <<"list", p>> \in ToSet(todo)

\* Of a directory in the archive every entry is there or is to come, once it was listed.
Covered ==
    Building =>
        \A p \in Directories(archive) : hostKind[p] = "dir" =>
            \/ Entered(p)
            \/ \A n \in ToSet(Children[p]) :
                  Archivable(n) => n \in Paths(archive) \/ Waiting(n)

UploadInv ==
    /\ UploadTypeOK /\ Phases /\ Selected /\ SourcesArchived /\ Covered
    /\ UploadReportTrue /\ UploadAllOrNothing

----------------------------------------------------------------------------
(* The walk.                                                               *)

\* What every step of the walk owes the invariant: it replaces the head of the list of
\* work by operations on the same path or on entries, adds at most that path to the
\* archive, and drops no entry that it found.
LEMMA WalkKeepsInv ==
  ASSUME UploadInv, uploadStep = "archive", todo # <<>>,
         NEW operations \in Seq(Work), Do(operations), UNCHANGED archiving,
         headerSize' \in 0..MaxFileBytes, archive' \in Seq(TarEntries),
         Paths(archive) \subseteq Paths(archive'),
         Paths(archive') \subseteq Paths(archive) \cup {Path},
         Directories(archive') \subseteq Directories(archive) \cup {Path},
         Path \in Directories(archive') \ Directories(archive) =>
             <<"open", Path>> \in ToSet(operations),
         \A op \in ArchiveOperations : \A s \in Sources :
             <<op, s>> \in ToSet(operations) => s = Path,
         Head(todo)[1] = "dir" => Path \in Paths(archive'),
         Head(todo)[1] \in AddsEntry =>
             \/ Path \in Paths(archive')
             \/ \E op \in AddsEntry : <<op, Path>> \in ToSet(operations),
         Head(todo)[1] = "open" => <<"list", Path>> \in ToSet(operations),
         Head(todo)[1] = "list" /\ hostKind[Path] = "dir" =>
             \A n \in ToSet(Children[Path]) : Archivable(n) =>
                 \E op \in AddsEntry : <<op, n>> \in ToSet(operations)
  PROVE  UploadInv'
  <1>1. /\ todo' \in Seq(Work) /\ Head(todo) \in Work
        /\ ToSet(todo') = ToSet(operations) \cup ToSet(Tail(todo))
        /\ ToSet(todo) = {Head(todo)} \cup ToSet(Tail(todo))
    BY DoWork DEF UploadInv, UploadTypeOK, Work
  <1>2. Head(todo) = <<Head(todo)[1], Path>> /\ Head(todo)[1] \in ArchiveOperations /\ Path \in Nodes
    BY <1>1 DEF Work, Path
  <1>3. ASSUME NEW op, NEW n, <<op, n>> \in ToSet(todo)
        PROVE  (op = Head(todo)[1] /\ n = Path) \/ <<op, n>> \in ToSet(todo')
    BY <1>1, <1>2, <1>3
  <1>4. UNCHANGED <<hostVars, uploadStep, enabled, selected, resultVars>>
    BY DEF archiving
  <1>5. UploadTypeOK'
    BY <1>1, <1>4 DEF UploadInv, UploadTypeOK, Work, hostVars, resultVars
  <1>6. Phases' /\ Selected'
    BY <1>4 DEF UploadInv, Phases, Selected, Building, hostVars, resultVars
  <1>7. SourcesArchived'
    <2>1. ASSUME NEW s \in ToSet(selected)
          PROVE  s \in Paths(archive') \/ <<"dir", s>> \in ToSet(todo')
      <3>1. s \in Paths(archive) \/ <<"dir", s>> \in ToSet(todo)
        BY DEF UploadInv, SourcesArchived, Building
      <3> QED  BY <1>3, <3>1
    <2>2. ASSUME NEW s \in Sources,
                 s \in Paths(archive')
                     \/ (\E op \in ArchiveOperations : <<op, s>> \in ToSet(todo'))
          PROVE  s \in ToSet(selected)
      <3>1. CASE s = Path
        <4>1. <<Head(todo)[1], s>> \in ToSet(todo)
          BY <1>1, <1>2, <3>1
        <4> QED  BY <1>2, <4>1 DEF UploadInv, SourcesArchived, Building
      <3>2. CASE s # Path
        <4>1. s \in Paths(archive) \/ \E op \in ArchiveOperations : <<op, s>> \in ToSet(todo)
          BY <1>1, <2>2, <3>2
        <4> QED  BY <4>1 DEF UploadInv, SourcesArchived, Building
      <3> QED  BY <3>1, <3>2
    <2> QED  BY <1>4, <2>1, <2>2 DEF SourcesArchived, Building
  <1>8. Covered'
    <2> SUFFICES ASSUME NEW p \in Directories(archive'), hostKind[p] = "dir"
                 PROVE  \/ Entered(p)'
                        \/ \A n \in ToSet(Children[p]) :
                              Archivable(n) => n \in Paths(archive') \/ Waiting(n)'
      BY <1>4 DEF Covered, Building, Archivable, hostVars
    <2>1. CASE p \notin Directories(archive)
      BY <1>1, <2>1 DEF Entered
    <2>2. CASE p \in Directories(archive) /\ Entered(p)
      <3>1. CASE <<"open", p>> \in ToSet(todo)
        BY <1>1, <1>3, <3>1 DEF Entered
      <3>2. CASE <<"list", p>> \in ToSet(todo)
        <4>1. CASE <<"list", p>> \in ToSet(todo')
          BY <4>1 DEF Entered
        <4>2. CASE Head(todo)[1] = "list" /\ p = Path
          BY <1>1, <4>2 DEF Waiting
        <4> QED  BY <1>3, <3>2, <4>1, <4>2
      <3> QED  BY <2>2, <3>1, <3>2 DEF Entered
    <2>3. CASE p \in Directories(archive) /\ ~Entered(p)
      <3> SUFFICES ASSUME NEW n \in ToSet(Children[p]), Archivable(n)
                   PROVE  n \in Paths(archive') \/ Waiting(n)'
        OBVIOUS
      <3>1. n \in Paths(archive) \/ Waiting(n)
        BY <2>3 DEF UploadInv, Covered, Building
      <3>2. CASE Waiting(n)
        <4>1. PICK op \in AddsEntry : <<op, n>> \in ToSet(todo)
          BY <3>2 DEF Waiting
        <4>2. CASE <<op, n>> \in ToSet(todo')
          BY <4>2 DEF Waiting
        <4>3. CASE op = Head(todo)[1] /\ n = Path
          BY <1>1, <4>3 DEF Waiting
        <4> QED  BY <1>3, <4>1, <4>2, <4>3
      <3> QED  BY <3>1, <3>2
    <2> QED  BY <2>1, <2>2, <2>3
  <1>9. UploadReportTrue' /\ UploadAllOrNothing'
    BY <1>4 DEF UploadInv, Phases, UploadReportTrue, UploadAllOrNothing, resultVars
  <1> QED  BY <1>5, <1>6, <1>7, <1>8, <1>9 DEF UploadInv

\* What is known at an operation of the walk.
LEMMA AtOperation ==
  ASSUME UploadInv, NEW op, At(op)
  PROVE  /\ uploadStep = "archive" /\ todo # <<>> /\ Head(todo)[1] = op
         /\ todo \in Seq(Work) /\ Path \in Nodes /\ archive \in Seq(TarEntries)
         /\ headerSize \in 0..MaxFileBytes /\ hostSize[Path] \in 0..MaxFileBytes
  <1>1. uploadStep = "archive" /\ todo # <<>> /\ Head(todo)[1] = op
    BY DEF At
  <1>2. todo \in Seq(Work) /\ archive \in Seq(TarEntries) /\ headerSize \in 0..MaxFileBytes
        /\ hostSize \in [Nodes -> 0..MaxFileBytes]
    BY DEF UploadInv, UploadTypeOK, Work
  <1>3. Head(todo) \in Work
    BY <1>1, <1>2, ToSetHeadTail
  <1>4. Path \in Nodes
    BY <1>3 DEF Work, Path
  <1> QED  BY <1>1, <1>2, <1>4

LEMMA NoOperations == <<>> \in Seq(Work) /\ ToSet(<<>>) = {}
  BY ToSetSmall

LEMMA OneOperation ==
  ASSUME NEW op \in ArchiveOperations, NEW n \in Nodes
  PROVE  <<<<op, n>>>> \in Seq(Work) /\ ToSet(<<<<op, n>>>>) = {<<op, n>>}
  <1>1. <<op, n>> \in Work
    BY DEF Work
  <1> QED  BY <1>1, ToSetSmall

LEMMA AppendDirectoryHeaderInv == UploadInv /\ AppendDirectoryHeader => UploadInv'
  <1> SUFFICES ASSUME UploadInv, AppendDirectoryHeader PROVE UploadInv'
    OBVIOUS
  <1>1. At("dir")
    BY DEF AppendDirectoryHeader
  <1>2. /\ uploadStep = "archive" /\ todo # <<>> /\ Head(todo)[1] = "dir"
        /\ Path \in Nodes /\ archive \in Seq(TarEntries) /\ headerSize \in 0..MaxFileBytes
    BY <1>1, AtOperation
  <1> DEFINE entry == TarEntry("directory", Path, 0, 0)
  <1>3. entry \in TarEntries /\ entry.path = Path /\ entry.type = "directory"
    BY <1>2, UploadAssumption DEF TarEntry, TarEntries
  <1>4. Add(entry)
    BY DEF AppendDirectoryHeader
  <1>5. /\ archive' \in Seq(TarEntries)
        /\ Paths(archive') = Paths(archive) \cup {Path}
        /\ Directories(archive') = Directories(archive) \cup {Path}
    <2> HIDE DEF entry
    <2> QED  BY <1>2, <1>3, <1>4, AddEntry
  <1> DEFINE operations == <<<<"open", Path>>>>
  <1>6. operations \in Seq(Work) /\ ToSet(operations) = {<<"open", Path>>}
    BY <1>2, OneOperation DEF ArchiveOperations
  <1>7. Do(operations) /\ UNCHANGED archiving /\ headerSize' \in 0..MaxFileBytes
    BY <1>2 DEF AppendDirectoryHeader
  <1> HIDE DEF operations
  <1> QED  BY <1>2, <1>5, <1>6, <1>7, WalkKeepsInv

LEMMA OpenDirInv == UploadInv /\ OpenDir => UploadInv'
  <1> SUFFICES ASSUME UploadInv, OpenDir PROVE UploadInv'
    OBVIOUS
  <1>1. At("open") /\ UNCHANGED archive
    BY DEF OpenDir
  <1>2. /\ uploadStep = "archive" /\ todo # <<>> /\ Head(todo)[1] = "open"
        /\ Path \in Nodes /\ archive \in Seq(TarEntries) /\ headerSize \in 0..MaxFileBytes
    BY <1>1, AtOperation
  <1> DEFINE operations == <<<<"list", Path>>>>
  <1>3. operations \in Seq(Work) /\ ToSet(operations) = {<<"list", Path>>}
    BY <1>2, OneOperation DEF ArchiveOperations
  <1>4. Do(operations) /\ UNCHANGED archiving /\ headerSize' \in 0..MaxFileBytes
    BY <1>2 DEF OpenDir
  <1> HIDE DEF operations
  <1> QED  BY <1>1, <1>2, <1>3, <1>4, WalkKeepsInv DEF AddsEntry

\* What a listing adds to the work: an operation for every entry, and none for a source.
LEMMA ListedOperations ==
  ASSUME UploadInv, Path \in Nodes,
         NEW operations,
         operations = [i \in DOMAIN SortedEntries(Path) |->
                          <<Operation(SortedEntries(Path)[i]), SortedEntries(Path)[i]>>]
  PROVE  /\ operations \in Seq(Work)
         /\ ToSet(operations) = {<<Operation(n), n>> : n \in ToSet(SortedEntries(Path))}
         /\ ToSet(SortedEntries(Path)) \subseteq Entries
  <1> DEFINE entries == SortedEntries(Path)
  <1>1. entries \in Seq(Entries)
    BY UploadAssumption DEF SortedEntries
  <1> HIDE DEF entries
  <1>2. /\ Len(entries) \in Nat /\ DOMAIN entries = 1..Len(entries)
        /\ \A i \in 1..Len(entries) : entries[i] \in Entries
    BY <1>1, LenProperties, ElementOfSeq
  <1>3. \A n \in Entries : <<Operation(n), n>> \in Work
    BY DEF Operation, Archivable, ArchiveOperations, Work, Nodes
  <1>4. operations = [i \in 1..Len(entries) |-> <<Operation(entries[i]), entries[i]>>]
    BY <1>2 DEF entries
  <1>5. operations \in [1..Len(entries) -> Work]
    BY <1>2, <1>3, <1>4
  <1>6. operations \in Seq(Work)
    BY <1>2, <1>5, SeqDef
  <1>7. ToSet(operations) = {<<Operation(n), n>> : n \in ToSet(entries)}
    BY <1>2, <1>4 DEF ToSet
  <1>8. ToSet(entries) \subseteq Entries
    BY <1>2 DEF ToSet
  <1> QED  BY <1>6, <1>7, <1>8 DEF entries

LEMMA AppendDirectoryContentsInv == UploadInv /\ AppendDirectoryContents => UploadInv'
  <1> SUFFICES ASSUME UploadInv, AppendDirectoryContents PROVE UploadInv'
    OBVIOUS
  <1>1. At("list") /\ UNCHANGED archive
    BY DEF AppendDirectoryContents
  <1>2. /\ uploadStep = "archive" /\ todo # <<>> /\ Head(todo)[1] = "list"
        /\ Path \in Nodes /\ archive \in Seq(TarEntries) /\ headerSize \in 0..MaxFileBytes
    BY <1>1, AtOperation
  <1> DEFINE operations == [i \in DOMAIN SortedEntries(Path) |->
                               <<Operation(SortedEntries(Path)[i]), SortedEntries(Path)[i]>>]
  <1>3. /\ operations \in Seq(Work)
        /\ ToSet(operations) = {<<Operation(n), n>> : n \in ToSet(SortedEntries(Path))}
        /\ ToSet(SortedEntries(Path)) \subseteq Entries
    <2>1. operations = [i \in DOMAIN SortedEntries(Path) |->
                           <<Operation(SortedEntries(Path)[i]), SortedEntries(Path)[i]>>]
      OBVIOUS
    <2> HIDE DEF operations
    <2> QED  BY <1>2, <2>1, ListedOperations
  <1>4. Do(operations) /\ UNCHANGED archiving /\ headerSize' \in 0..MaxFileBytes
    BY <1>2 DEF AppendDirectoryContents
  <1> HIDE DEF operations
  <1>5. \A op \in ArchiveOperations : \A s \in Sources : <<op, s>> \in ToSet(operations) => s = Path
    <2>1. ASSUME NEW s \in Sources, s \in Entries PROVE FALSE
      <3>1. Len(s) = 1 /\ Len(s) > 1
        BY <2>1, PathLengths
      <3> QED  BY <3>1
    <2> QED  BY <1>3, <2>1
  <1>6. hostKind[Path] = "dir" =>
           \A n \in ToSet(Children[Path]) : Archivable(n) =>
               \E op \in AddsEntry : <<op, n>> \in ToSet(operations)
    BY <1>3 DEF SortedEntries, Operation, Archivable, AddsEntry
  <1> QED  BY <1>1, <1>2, <1>3, <1>4, <1>5, <1>6, WalkKeepsInv DEF AddsEntry

LEMMA PassOverInv == UploadInv /\ PassOver => UploadInv'
  <1> SUFFICES ASSUME UploadInv, PassOver PROVE UploadInv'
    OBVIOUS
  <1>1. At("pass") /\ UNCHANGED archive /\ Do(<<>>) /\ UNCHANGED archiving /\ UNCHANGED headerSize
    BY DEF PassOver
  <1>2. /\ uploadStep = "archive" /\ todo # <<>> /\ Head(todo)[1] = "pass"
        /\ archive \in Seq(TarEntries) /\ headerSize \in 0..MaxFileBytes
    BY <1>1, AtOperation
  <1> QED  BY <1>1, <1>2, NoOperations, WalkKeepsInv DEF AddsEntry

LEMMA OpenFileInv == UploadInv /\ OpenFile => UploadInv'
  <1> SUFFICES ASSUME UploadInv, OpenFile PROVE UploadInv'
    OBVIOUS
  <1>1. At("file") /\ UNCHANGED archive
    BY DEF OpenFile
  <1>2. /\ uploadStep = "archive" /\ todo # <<>> /\ Head(todo)[1] = "file"
        /\ Path \in Nodes /\ archive \in Seq(TarEntries) /\ hostSize[Path] \in 0..MaxFileBytes
    BY <1>1, AtOperation
  <1> DEFINE operations == <<<<"stream", Path>>>>
  <1>3. operations \in Seq(Work) /\ ToSet(operations) = {<<"stream", Path>>}
    BY <1>2, OneOperation DEF ArchiveOperations
  <1>4. Do(operations) /\ UNCHANGED archiving /\ headerSize' \in 0..MaxFileBytes
    BY <1>2 DEF OpenFile
  <1> HIDE DEF operations
  <1> QED  BY <1>1, <1>2, <1>3, <1>4, WalkKeepsInv DEF AddsEntry

\* The two operations that add an entry which is no directory.
LEMMA AddsPathInv ==
  ASSUME UploadInv, NEW op \in {"stream", "symlink"}, At(op), Do(<<>>),
         UNCHANGED <<headerSize, archiving>>,
         NEW entry \in TarEntries, entry.path = Path, entry.type # "directory", Add(entry)
  PROVE  UploadInv'
  <1>1. /\ uploadStep = "archive" /\ todo # <<>> /\ Head(todo)[1] = op
        /\ archive \in Seq(TarEntries) /\ headerSize \in 0..MaxFileBytes
    BY AtOperation
  <1>2. /\ archive' \in Seq(TarEntries)
        /\ Paths(archive') = Paths(archive) \cup {Path}
        /\ Directories(archive') = Directories(archive)
    BY <1>1, AddEntry
  <1>3. UNCHANGED archiving /\ headerSize' \in 0..MaxFileBytes
    BY <1>1
  <1> QED  BY <1>1, <1>2, <1>3, NoOperations, WalkKeepsInv DEF AddsEntry

LEMMA StreamFileInv == UploadInv /\ StreamFile => UploadInv'
  <1> SUFFICES ASSUME UploadInv, StreamFile PROVE UploadInv'
    OBVIOUS
  <1> DEFINE entry == TarEntry("regular", Path, headerSize, hostSize[Path])
  <1>1. At("stream") /\ Do(<<>>) /\ UNCHANGED <<headerSize, archiving>> /\ Add(entry)
    BY DEF StreamFile
  <1>2. Path \in Nodes /\ headerSize \in 0..MaxFileBytes /\ hostSize[Path] \in 0..MaxFileBytes
    BY <1>1, AtOperation
  <1>3. entry \in TarEntries /\ entry.path = Path /\ entry.type # "directory"
    BY <1>2 DEF TarEntry, TarEntries
  <1> HIDE DEF entry
  <1> QED  BY <1>1, <1>3, AddsPathInv

LEMMA AppendSymlinkInv == UploadInv /\ AppendSymlink => UploadInv'
  <1> SUFFICES ASSUME UploadInv, AppendSymlink PROVE UploadInv'
    OBVIOUS
  <1> DEFINE entry == TarEntry("symlink", Path, 0, 0)
  <1>1. At("symlink") /\ Do(<<>>) /\ UNCHANGED <<headerSize, archiving>> /\ Add(entry)
    BY DEF AppendSymlink
  <1>2. Path \in Nodes
    BY <1>1, AtOperation
  <1>3. entry \in TarEntries /\ entry.path = Path /\ entry.type # "directory"
    BY <1>2, UploadAssumption DEF TarEntry, TarEntries
  <1> HIDE DEF entry
  <1> QED  BY <1>1, <1>3, AddsPathInv

----------------------------------------------------------------------------
(* The other steps of the call.                                            *)

LEMMA UploadInitInv == UploadInit => UploadInv
  <1> SUFFICES ASSUME UploadInit PROVE UploadInv
    OBVIOUS
  <1>1. UploadTypeOK
    BY UploadAssumption DEF UploadInit, UploadTypeOK, Kinds, Sources
  <1> QED
    BY <1>1
    DEF UploadInit, UploadInv, Phases, Selected, SourcesArchived, Covered, Building,
        UploadReportTrue, UploadAllOrNothing

LEMMA StartUploadInv == UploadInv /\ StartUpload => UploadInv'
  <1> SUFFICES ASSUME UploadInv, StartUpload PROVE UploadInv'
    OBVIOUS
  <1>1. PICK kinds \in [Sources -> {"absent", "dir", "file"}] : hostKind' = Tree(kinds)
    BY DEF StartUpload
  <1>2. ASSUME NEW n \in Nodes PROVE Tree(kinds)[n] \in Kinds
    <2>1. CASE n \in Sources
      BY <2>1 DEF Tree, Kinds
    <2>2. CASE n \notin Sources
      <3>1. EntryKind[n] \in Kinds
        BY <2>2, UploadAssumption DEF Nodes
      <3> QED  BY <2>2, <3>1 DEF Tree, Kinds
    <2> QED  BY <2>1, <2>2
  <1>3. hostKind' \in [Nodes -> Kinds]
    BY <1>1, <1>2 DEF Tree
  <1>4. UploadTypeOK'
    BY <1>3, UploadAssumption DEF StartUpload, UploadTypeOK
  <1> QED
    BY <1>4
    DEF StartUpload, UploadInv, Phases, Selected, SourcesArchived, Covered, Building,
        UploadReportTrue, UploadAllOrNothing

LEMMA HostCallFailsInv == UploadInv /\ HostCallFails => UploadInv'
  <1> SUFFICES ASSUME UploadInv, HostCallFails PROVE UploadInv'
    OBVIOUS
  <1>1. UploadTypeOK'
    BY DEF HostCallFails, Finish, hostVars, UploadInv, UploadTypeOK
  <1> QED
    BY <1>1
    DEF HostCallFails, Finish, UploadInv, Phases, Selected, SourcesArchived, Covered,
        Building, UploadReportTrue, UploadAllOrNothing

LEMMA IncludeClaudeInv == UploadInv /\ IncludeClaude => UploadInv'
  <1> SUFFICES ASSUME UploadInv, IncludeClaude PROVE UploadInv'
    OBVIOUS
  <1>1. selected = <<>> /\ selected' = Include(Claude)
    BY DEF IncludeClaude, UploadInv, Phases, Include
  <1>2. /\ selected' \in {<<>>, <<Claude>>} /\ ToSet(selected') \subseteq enabled
        /\ Claude \in enabled \ ToSet(selected') => hostKind[Claude] # "dir"
    BY <1>1, ToSetSmall DEF Include
  <1>3. selected' \in Seq(Sources)
    <2>1. Claude \in Sources
      BY DEF Sources
    <2> QED  BY <1>2, <2>1, Tuples
  <1>4. UploadTypeOK'
    BY <1>3 DEF IncludeClaude, hostVars, resultVars, UploadInv, UploadTypeOK
  <1>5. Phases' /\ Selected'
    BY <1>2 DEF IncludeClaude, hostVars, resultVars, UploadInv, Phases, Selected, Building
  <1> QED
    BY <1>4, <1>5
    DEF IncludeClaude, resultVars, UploadInv, Phases, SourcesArchived, Covered, Building,
        UploadReportTrue, UploadAllOrNothing

LEMMA EmptyArchive == Paths(<<>>) = {} /\ Directories(<<>>) = {}
  BY DEF Paths, Directories

LEMMA IncludeCodexInv == UploadInv /\ IncludeCodex => UploadInv'
  <1> SUFFICES ASSUME UploadInv, IncludeCodex PROVE UploadInv'
    OBVIOUS
  <1>1. /\ selected \in {<<>>, <<Claude>>} /\ ToSet(selected) \subseteq enabled
        /\ Claude \in enabled \ ToSet(selected) => hostKind[Claude] # "dir"
        /\ archive = <<>> /\ todo = <<>> /\ received = <<>> /\ expectedPaths = <<>>
        /\ uploadReport = "none" /\ enabled \subseteq Sources
    BY DEF IncludeCodex, UploadInv, UploadTypeOK, Phases, Selected
  <1>2. selected' = selected \o Include(Codex)
    BY DEF IncludeCodex
  <1>3. /\ selected' \in Selections /\ ToSet(selected') \subseteq enabled
        /\ \A s \in enabled \ ToSet(selected') : hostKind[s] # "dir"
    <2>1. /\ <<>> \o <<>> = <<>> /\ <<>> \o <<Codex>> = <<Codex>>
          /\ <<Claude>> \o <<>> = <<Claude>> /\ <<Claude>> \o <<Codex>> = <<Claude, Codex>>
      <3>1. Claude \in Sources /\ Codex \in Sources
        BY DEF Sources
      <3> QED  BY <3>1, Tuples
    <2>2. CASE Codex \in enabled /\ hostKind[Codex] = "dir"
      <3>1. selected' = selected \o <<Codex>>
        BY <1>2, <2>2 DEF Include
      <3>2. CASE selected = <<>>
        <4>1. selected' = <<Codex>> /\ ToSet(selected') = {Codex} /\ ToSet(selected) = {}
          BY <2>1, <3>1, <3>2, ToSetSmall
        <4> QED  BY <1>1, <2>2, <4>1 DEF Selections, Sources
      <3>3. CASE selected = <<Claude>>
        <4>1. selected' = <<Claude, Codex>> /\ ToSet(selected') = {Claude, Codex}
              /\ ToSet(selected) = {Claude}
          BY <2>1, <3>1, <3>3, ToSetSmall
        <4> QED  BY <1>1, <2>2, <4>1 DEF Selections, Sources
      <3> QED  BY <1>1, <3>2, <3>3
    <2>3. CASE ~(Codex \in enabled /\ hostKind[Codex] = "dir")
      <3>1. selected' = selected
        BY <1>1, <1>2, <2>1, <2>3 DEF Include
      <3> QED  BY <1>1, <2>3, <3>1 DEF Selections, Sources
    <2> QED  BY <2>2, <2>3
  <1>4. selected' \in Seq(Sources)
    <2>1. Claude \in Sources /\ Codex \in Sources
      BY DEF Sources
    <2>2. /\ <<>> \in Seq(Sources) /\ <<Claude>> \in Seq(Sources) /\ <<Codex>> \in Seq(Sources)
          /\ <<Claude, Codex>> \in Seq(Sources)
      BY <2>1, Tuples
    <2> QED  BY <1>3, <2>2 DEF Selections
  <1>5. UNCHANGED <<hostKind, hostSize, hostChanges, enabled, headerSize, archive,
                    expectedPaths, received>>
    BY DEF IncludeCodex, hostVars
  <1>6. CASE selected' = <<>>
    <2>1. uploadStep' = "done" /\ uploadReport' = "uploaded" /\ todo' = todo
      BY <1>6 DEF IncludeCodex, Finish
    <2>2. UploadTypeOK'
      BY <1>4, <1>5, <2>1 DEF UploadInv, UploadTypeOK
    <2>3. UploadReportTrue'
      <3>1. ToSet(<<>>) = {} /\ Paths(<<>>) = {} /\ Directories(<<>>) = {}
        BY ToSetSmall, EmptyArchive
      <3>2. \A s \in enabled : hostKind[s] # "dir"
        BY <1>3, <1>6, <3>1
      <3> QED  BY <1>1, <1>5, <3>1, <3>2 DEF UploadReportTrue
    <2> QED
      BY <1>1, <1>5, <2>1, <2>2, <2>3
      DEF UploadInv, Phases, Selected, SourcesArchived, Covered, Building, UploadAllOrNothing
  <1>7. CASE selected' # <<>>
    <2>1. /\ uploadStep' = "archive" /\ uploadReport' = uploadReport
          /\ todo' = [i \in DOMAIN selected' |-> <<"dir", selected'[i]>>]
      BY <1>7 DEF IncludeCodex
    <2>2. /\ Len(selected') \in Nat /\ DOMAIN selected' = 1..Len(selected')
          /\ \A i \in 1..Len(selected') : selected'[i] \in Sources
      BY <1>4, LenProperties, ElementOfSeq
    <2>3. \A s \in Sources : <<"dir", s>> \in Work
      BY DEF Work, ArchiveOperations, Nodes
    <2>4. todo' \in [1..Len(selected') -> Work]
      BY <2>1, <2>2, <2>3
    <2>5. todo' \in Seq(Work)
      BY <2>2, <2>4, SeqDef
    <2>6. ToSet(todo') = {<<"dir", s>> : s \in ToSet(selected')}
      BY <2>1, <2>2 DEF ToSet
    <2>7. UploadTypeOK'
      BY <1>4, <1>5, <2>1, <2>5 DEF UploadInv, UploadTypeOK, Work
    <2>8. Phases' /\ Selected'
      BY <1>1, <1>3, <1>5, <2>1 DEF Phases, Selected, Building
    <2>9. SourcesArchived'
      BY <1>1, <1>5, <2>6, EmptyArchive DEF SourcesArchived
    <2>10. Covered'
      BY <1>1, <1>5, EmptyArchive DEF Covered
    <2> QED
      BY <1>1, <1>5, <2>1, <2>7, <2>8, <2>9, <2>10
      DEF UploadInv, UploadReportTrue, UploadAllOrNothing
  <1> QED  BY <1>6, <1>7

LEMMA FinishArchiveInv == UploadInv /\ FinishArchive => UploadInv'
  <1> SUFFICES ASSUME UploadInv, FinishArchive PROVE UploadInv'
    OBVIOUS
  <1>1. UploadTypeOK'
    BY DEF FinishArchive, hostVars, resultVars, UploadInv, UploadTypeOK
  <1>2. Phases' /\ Selected'
    BY DEF FinishArchive, hostVars, resultVars, UploadInv, Phases, Selected, Building
  <1>3. SourcesArchived' /\ Covered'
    BY DEF FinishArchive, hostVars, UploadInv, SourcesArchived, Covered, Building, Entered,
           Waiting, Archivable
  <1> QED
    BY <1>1, <1>2, <1>3
    DEF FinishArchive, resultVars, UploadInv, Phases, UploadReportTrue, UploadAllOrNothing

LEMMA PrefixOfArchive ==
  ASSUME NEW s \in Seq(TarEntries), NEW n \in 0..Len(s)
  PROVE  SubSeq(s, 1, n) \in Seq(TarEntries) /\ IsPrefix(SubSeq(s, 1, n), s)
  <1>1. Len(s) \in Nat
    BY LenProperties
  <1>2. /\ SubSeq(s, 1, n) \in Seq(TarEntries) /\ Len(SubSeq(s, 1, n)) = n
        /\ SubSeq(s, 1, n) = [i \in 1..n |-> s[i]]
    BY <1>1, SubSeqProperties
  <1>3. SubSeq(SubSeq(s, 1, n), 1, n) = SubSeq(s, 1, n)
    BY <1>1, <1>2
  <1> QED  BY <1>1, <1>2, <1>3 DEF IsPrefix

LEMMA UploadToContainerInv == UploadInv /\ UploadToContainer => UploadInv'
  <1> SUFFICES ASSUME UploadInv, UploadToContainer PROVE UploadInv'
    OBVIOUS
  <1>1. /\ uploadStep = "send" /\ uploadStep' = "done" /\ uploadReport' = "uploaded"
        /\ received' = archive /\ expectedPaths' = selected /\ todo = <<>>
        /\ UNCHANGED <<hostKind, hostSize, hostChanges, enabled, selected, todo, headerSize,
                       archive>>
    BY DEF UploadToContainer, Finish, hostVars, UploadInv, Phases
  <1>2. archive \in Seq(TarEntries) /\ enabled \subseteq Sources /\ selected \in Seq(Sources)
    BY DEF UploadInv, UploadTypeOK
  <1>3. UploadTypeOK'
    BY <1>1 DEF UploadInv, UploadTypeOK
  <1>4. UploadReportTrue'
    <2>1. ToSet(todo) = {}
      BY <1>1, ToSetSmall
    <2>2. selected \in Selections /\ ToSet(selected) \subseteq enabled
          /\ \A s \in enabled \ ToSet(selected) : hostKind[s] # "dir"
      BY <1>1 DEF UploadInv, Selected, Building
    <2>3. ToSet(selected) = Paths(archive) \cap Sources
      BY <1>1, <1>2, <2>1, <2>2 DEF UploadInv, SourcesArchived, Building
    <2>4. \A p \in Directories(archive) : hostKind[p] = "dir" =>
             \A n \in ToSet(Children[p]) : Archivable(n) => n \in Paths(archive)
      BY <1>1, <2>1 DEF UploadInv, Covered, Building, Entered, Waiting
    <2> QED  BY <1>1, <2>2, <2>3, <2>4 DEF UploadReportTrue, Selections, Archivable
  <1>5. UploadAllOrNothing'
    <2>1. Len(archive) \in Nat /\ SubSeq(archive, 1, Len(archive)) = archive
      BY <1>2, LenProperties
    <2>2. IsPrefix(archive, archive)
      BY <2>1 DEF IsPrefix
    <2> QED  BY <1>1, <2>2 DEF UploadAllOrNothing
  <1> QED
    BY <1>1, <1>3, <1>4, <1>5 DEF UploadInv, Phases, Selected, SourcesArchived, Covered, Building

LEMMA UploadFailsInv == UploadInv /\ UploadFails => UploadInv'
  <1> SUFFICES ASSUME UploadInv, UploadFails PROVE UploadInv'
    OBVIOUS
  <1>1. /\ uploadStep' = "done" /\ uploadReport' = "upload failed" /\ todo = <<>>
        /\ UNCHANGED <<hostKind, hostSize, hostChanges, enabled, selected, todo, headerSize,
                       archive, expectedPaths>>
    BY DEF UploadFails, Finish, hostVars, UploadInv, Phases
  <1>2. PICK n \in 0..Len(archive) : received' = SubSeq(archive, 1, n)
    BY DEF UploadFails
  <1>3. archive \in Seq(TarEntries)
    BY DEF UploadInv, UploadTypeOK
  <1>4. received' \in Seq(TarEntries) /\ IsPrefix(received', archive)
    BY <1>2, <1>3, PrefixOfArchive
  <1>5. UploadTypeOK'
    BY <1>1, <1>4 DEF UploadInv, UploadTypeOK
  <1> QED
    BY <1>1, <1>4, <1>5
    DEF UploadInv, Phases, Selected, SourcesArchived, Covered, Building, UploadReportTrue,
        UploadAllOrNothing

----------------------------------------------------------------------------
(* The host.                                                               *)

\* Whatever a program of the host does, no directory and nothing to archive appears.
LEMMA HostKeepsInv ==
  ASSUME UploadInv, HostChange, hostKind' \in [Nodes -> Kinds],
         hostSize' \in [Nodes -> 0..MaxFileBytes],
         \A n \in Nodes : hostKind'[n] = "dir" => hostKind[n] = "dir",
         \A n \in Nodes : Archivable(n)' => Archivable(n)
  PROVE  UploadInv'
  <1>1. /\ UNCHANGED <<uploadStep, enabled, selected, todo, headerSize, archive,
                       uploadReport, expectedPaths, received>>
        /\ uploadStep # "done"
    <2>1. UNCHANGED callVars /\ UNCHANGED resultVars /\ UploadActive
      BY DEF HostChange
    <2>2. uploadStep # "done"
      BY <2>1 DEF UploadActive
    <2> QED  BY <2>1, <2>2 DEF callVars, resultVars
  <1>0. hostChanges' \in 0..MaxHostChanges
    <2>1. hostChanges \in 0..MaxHostChanges /\ MaxHostChanges \in Nat
      BY UploadAssumption DEF UploadInv, UploadTypeOK
    <2>2. hostChanges < MaxHostChanges /\ hostChanges' = hostChanges + 1
      BY DEF HostChange
    <2> QED  BY <2>1, <2>2
  <1>2. UploadTypeOK'
    BY <1>0, <1>1 DEF UploadInv, UploadTypeOK
  <1>3. enabled \subseteq Sources /\ Sources \subseteq Nodes
    BY DEF UploadInv, UploadTypeOK, Nodes
  <1>4. Phases'
    BY <1>1 DEF UploadInv, Phases
  <1>5. Selected'
    BY <1>1, <1>3 DEF UploadInv, Selected, Building
  <1>6. SourcesArchived'
    BY <1>1 DEF UploadInv, SourcesArchived, Building
  <1>7. Covered'
    <2>1. Directories(archive) \subseteq Nodes
      <3>1. archive \in Seq(TarEntries)
        BY DEF UploadInv, UploadTypeOK
      <3>2. DOMAIN archive = 1..Len(archive)
        BY <3>1, LenProperties
      <3>3. \A i \in DOMAIN archive : archive[i] \in TarEntries
        BY <3>1, <3>2, ElementOfSeq
      <3>4. \A i \in DOMAIN archive : archive[i].path \in Nodes
        BY <3>3 DEF TarEntries
      <3> QED  BY <3>4 DEF Directories
    <2>2. \A p \in Nodes : ToSet(Children[p]) \subseteq Nodes
      BY UploadAssumption, ElementOfSeq DEF ToSet, Nodes
    <2> QED  BY <1>1, <2>1, <2>2 DEF UploadInv, Covered, Building, Entered, Waiting
  <1> QED
    BY <1>1, <1>2, <1>4, <1>5, <1>6, <1>7
    DEF UploadInv, Phases, UploadReportTrue, UploadAllOrNothing

LEMMA UploadHostInv == UploadInv /\ UploadHost => UploadInv'
  <1> SUFFICES ASSUME UploadInv, UploadHost PROVE UploadInv'
    OBVIOUS
  <1>1. hostKind \in [Nodes -> Kinds] /\ hostSize \in [Nodes -> 0..MaxFileBytes]
    BY DEF UploadInv, UploadTypeOK
  <1>2. CASE \E n \in Nodes : HostResizes(n)
    BY <1>1, <1>2, HostKeepsInv DEF HostResizes, Archivable
  <1>3. ASSUME NEW n \in Nodes, NEW left \in {"absent", "file"}, HostRemoves(n, left)
        PROVE  UploadInv'
    <2>1. /\ HostChange /\ hostSize' = hostSize
          /\ hostKind' \in [Nodes -> Kinds]
          /\ \A m \in Nodes :
                \/ hostKind'[m] = hostKind[m] \/ hostKind'[m] = "absent"
                \/ hostKind[m] = "dir" /\ hostKind'[m] = "file"
      <3>1. /\ HostChange /\ hostSize' = hostSize
            /\ left = "file" => hostKind[n] = "dir"
            /\ hostKind' = [m \in Nodes |->
                               IF m = n THEN left
                               ELSE IF m \in Below[n] THEN "absent" ELSE hostKind[m]]
        BY <1>3 DEF HostRemoves
      <3>2. ASSUME NEW m \in Nodes
            PROVE  \/ hostKind'[m] = hostKind[m] \/ hostKind'[m] = "absent"
                   \/ hostKind[m] = "dir" /\ hostKind'[m] = "file"
        BY <3>1
      <3>3. "absent" \in Kinds /\ "file" \in Kinds
        BY DEF Kinds
      <3>4. \A m \in Nodes : hostKind'[m] \in Kinds
        BY <1>1, <3>2, <3>3
      <3>5. hostKind' \in [Nodes -> Kinds]
        BY <3>1, <3>4
      <3> QED  BY <3>1, <3>2, <3>5
    <2>2. \A m \in Nodes : hostKind'[m] = "dir" => hostKind[m] = "dir"
      BY <2>1
    <2>3. \A m \in Nodes : Archivable(m)' => Archivable(m)
      BY <2>1 DEF Archivable
    <2> QED  BY <1>1, <2>1, <2>2, <2>3, HostKeepsInv
  <1> QED  BY <1>2, <1>3 DEF UploadHost

----------------------------------------------------------------------------

LEMMA UploadStepInv == UploadInv /\ (StartUpload \/ UploadHost \/ UploadStep) => UploadInv'
  BY StartUploadInv, UploadHostInv, IncludeClaudeInv, IncludeCodexInv, HostCallFailsInv,
     AppendDirectoryHeaderInv, OpenDirInv, AppendDirectoryContentsInv, PassOverInv,
     OpenFileInv, StreamFileInv, AppendSymlinkInv, FinishArchiveInv, UploadToContainerInv,
     UploadFailsInv
  DEF UploadStep

LEMMA UploadUnchangedInv == UploadInv /\ UNCHANGED uploadVars => UploadInv'
  <1> SUFFICES ASSUME UploadInv, UNCHANGED uploadVars PROVE UploadInv'
    OBVIOUS
  <1>1. UNCHANGED <<hostKind, hostSize, hostChanges, uploadStep, enabled, selected, todo,
                    headerSize, archive, uploadReport, expectedPaths, received>>
    BY DEF uploadVars, hostVars, callVars, resultVars
  <1>2. UploadTypeOK' /\ Phases' /\ Selected' /\ SourcesArchived'
    BY <1>1 DEF UploadInv, UploadTypeOK, Phases, Selected, SourcesArchived, Building
  <1>3. Covered' /\ UploadReportTrue' /\ UploadAllOrNothing'
    BY <1>1 DEF UploadInv, Covered, Building, Entered, Waiting, Archivable,
                UploadReportTrue, UploadAllOrNothing
  <1> QED  BY <1>2, <1>3 DEF UploadInv

----------------------------------------------------------------------------
(* The tree of paths.                                                      *)

LEMMA SamePath ==
  ASSUME NEW m \in Nodes, NEW n \in Nodes, Len(m) = Len(n), \A i \in 1..Len(m) : m[i] = n[i]
  PROVE  m = n
  BY PathLengths, SeqEqual

\* A path lies below another when it continues it.
LEMMA BelowMeans ==
  ASSUME NEW m \in Nodes, NEW n \in Nodes
  PROVE  m \in Below[n] <=> Len(n) <= Len(m) /\ \A i \in 1..Len(n) : m[i] = n[i]
  <1>1. m \in Seq(Names) /\ n \in Seq(Names) /\ Len(m) \in Nat /\ Len(n) \in Nat
    BY PathLengths
  <1>2. m \in Below[n] <=> IsPrefix(n, m)
    BY DEF Below
  <1>3. IsPrefix(n, m) <=> Len(n) <= Len(m) /\ SubSeq(n, 1, Len(n)) = SubSeq(m, 1, Len(n))
    BY DEF IsPrefix
  <1>4. ASSUME Len(n) <= Len(m)
        PROVE  SubSeq(n, 1, Len(n)) = SubSeq(m, 1, Len(n)) <=> \A i \in 1..Len(n) : m[i] = n[i]
    <2>1. /\ SubSeq(n, 1, Len(n)) = [i \in 1..Len(n) |-> n[i]]
          /\ SubSeq(m, 1, Len(n)) = [i \in 1..Len(n) |-> m[i]]
      BY <1>1, <1>4, SubSeqProperties
    <2> QED  BY <2>1
  <1> QED  BY <1>2, <1>3, <1>4

\* So the paths are ordered by it.
LEMMA BelowIsTree ==
  /\ \A n \in Nodes : n \in Below[n] /\ Below[n] \subseteq Nodes
  /\ \A n \in Nodes : \A m \in Below[n] : Below[m] \subseteq Below[n]
  <1>1. ASSUME NEW n \in Nodes PROVE n \in Below[n] /\ Below[n] \subseteq Nodes
    BY BelowMeans, PathLengths DEF Below
  <1>2. ASSUME NEW n \in Nodes, NEW m \in Below[n], NEW k \in Below[m] PROVE k \in Below[n]
    <2>1. m \in Nodes /\ k \in Nodes
      BY <1>1
    <2>2. /\ Len(n) <= Len(m) /\ \A i \in 1..Len(n) : m[i] = n[i]
          /\ Len(m) <= Len(k) /\ \A i \in 1..Len(m) : k[i] = m[i]
      BY <2>1, BelowMeans
    <2>3. Len(n) \in Nat /\ Len(m) \in Nat /\ Len(k) \in Nat
      BY <2>1, PathLengths
    <2>4. Len(n) <= Len(k) /\ \A i \in 1..Len(n) : k[i] = n[i]
      BY <2>2, <2>3
    <2> QED  BY <2>1, <2>4, BelowMeans
  <1> QED  BY <1>1, <1>2

\* An entry of a directory lies below it, one name further.
LEMMA ChildIs ==
  ASSUME NEW p \in Nodes, NEW k \in DOMAIN Children[p]
  PROVE  /\ Children[p][k] \in Entries /\ Children[p][k] \in Nodes
         /\ k \in Nat
         /\ Len(Children[p][k]) = Len(p) + 1 /\ \A i \in 1..Len(p) : Children[p][k][i] = p[i]
         /\ Children[p][k] \in Below[p] /\ p \notin Below[Children[p][k]]
         /\ \A j \in DOMAIN Children[p] : Children[p][j] = Children[p][k] => j = k
  <1> DEFINE c == Children[p][k]
  <1>1. Children[p] \in Seq(Entries)
    BY UploadAssumption
  <1>2. k \in 1..Len(Children[p]) /\ c \in Entries
    BY <1>1, LenProperties, ElementOfSeq
  <1>3. /\ IsPrefix(p, c) /\ Len(c) = Len(p) + 1
        /\ \A j \in DOMAIN Children[p] : Children[p][j] = c => j = k
    BY UploadAssumption
  <1>4. c \in Nodes
    BY <1>2 DEF Nodes
  <1> HIDE DEF c
  <1>5. c \in Below[p]
    BY <1>3, <1>4 DEF Below
  <1>6. \A i \in 1..Len(p) : c[i] = p[i]
    BY <1>4, <1>5, BelowMeans
  <1>7. p \notin Below[c]
    BY <1>3, <1>4, BelowMeans, PathLengths
  <1>8. k \in Nat
    BY <1>2
  <1> QED  BY <1>2, <1>3, <1>4, <1>5, <1>6, <1>7, <1>8 DEF c

\* An entry is listed in one directory, once.
LEMMA OneListing ==
  ASSUME NEW p \in Nodes, NEW k \in DOMAIN Children[p], NEW q \in Nodes, NEW l \in DOMAIN Children[q],
         Children[p][k] = Children[q][l]
  PROVE  p = q /\ k = l
  <1>1. /\ Len(Children[p][k]) = Len(p) + 1 /\ \A i \in 1..Len(p) : Children[p][k][i] = p[i]
        /\ Len(Children[q][l]) = Len(q) + 1 /\ \A i \in 1..Len(q) : Children[q][l][i] = q[i]
    BY ChildIs
  <1>2. Len(p) = Len(q)
    BY <1>1, PathLengths
  <1>3. p = q
    BY <1>1, <1>2, SamePath
  <1> QED  BY <1>3, ChildIs

\* The trees below two entries of a directory have nothing in common.
LEMMA SiblingsApart ==
  ASSUME NEW p \in Nodes, NEW k \in DOMAIN Children[p], NEW l \in DOMAIN Children[p], k # l
  PROVE  Below[Children[p][k]] \cap Below[Children[p][l]] = {}
  <1> DEFINE c == Children[p][k]
             d == Children[p][l]
  <1>1. c \in Nodes /\ d \in Nodes /\ Len(c) = Len(p) + 1 /\ Len(d) = Len(p) + 1 /\ c # d
    BY ChildIs
  <1> HIDE DEF c, d
  <1>2. ASSUME NEW m \in Below[c], m \in Below[d] PROVE FALSE
    <2>1. m \in Nodes
      BY <1>1, BelowIsTree
    <2>2. \A i \in 1..Len(c) : m[i] = c[i]
      BY <1>1, <2>1, BelowMeans
    <2>3. \A i \in 1..Len(d) : m[i] = d[i]
      BY <1>1, <1>2, <2>1, BelowMeans
    <2> QED  BY <1>1, <2>2, <2>3, SamePath
  <1> QED  BY <1>2 DEF c, d

\* Nor have those below the two sources, which are listed nowhere.
LEMMA SourcesApart ==
  /\ Below[Claude] \cap Below[Codex] = {}
  /\ \A s \in Sources : \A n \in Nodes : ~NameBefore(n, s) /\ ~NameBefore(s, n)
  <1>1. Claude \in Nodes /\ Codex \in Nodes /\ Len(Claude) = 1 /\ Len(Codex) = 1 /\ Claude # Codex
    BY PathLengths DEF Nodes, Sources
  <1>2. ASSUME NEW m \in Below[Claude], m \in Below[Codex] PROVE FALSE
    <2>1. m \in Nodes
      BY <1>1, BelowIsTree
    <2>2. m[1] = Claude[1] /\ m[1] = Codex[1]
      BY <1>1, <1>2, <2>1, BelowMeans
    <2>3. ASSUME NEW i \in 1..Len(Claude) PROVE Claude[i] = Codex[i]
      <3>1. i = 1
        BY <1>1
      <3> QED  BY <2>2, <3>1
    <2> QED  BY <1>1, <2>3, SamePath
  <1>3. ASSUME NEW s \in Sources, s \in Entries PROVE FALSE
    <2>1. Len(s) = 1 /\ Len(s) > 1
      BY <1>3, PathLengths
    <2> QED  BY <2>1
  <1>4. \A m, n : NameBefore(m, n) => m \in Entries /\ n \in Entries
    BY ChildIs DEF NameBefore
  <1> QED  BY <1>2, <1>3, <1>4

\* What may follow an entry of a directory: the directory, and those listed before it.
LEMMA ListedInOrder ==
  ASSUME NEW p \in Nodes, NEW k \in DOMAIN Children[p], NEW m
  PROVE  /\ NameBefore(Children[p][k], m) => m \in Below[p] /\ m # p
         /\ NameBefore(m, Children[p][k]) => m \in Below[p] /\ m # p
         /\ \A l \in DOMAIN Children[p] : l <= k => ~NameBefore(Children[p][k], Children[p][l])
  <1>1. ASSUME NEW i \in DOMAIN Children[p] PROVE Children[p][i] \in Below[p] /\ Children[p][i] # p
    BY ChildIs, BelowIsTree
  <1>2. ASSUME NameBefore(Children[p][k], m)
        PROVE  \E l \in DOMAIN Children[p] : k < l /\ m = Children[p][l]
    <2>1. PICK q \in Nodes : \E i, j \in DOMAIN Children[q] :
             i < j /\ Children[q][i] = Children[p][k] /\ Children[q][j] = m
      BY <1>2 DEF NameBefore
    <2>2. PICK i \in DOMAIN Children[q], j \in DOMAIN Children[q] :
             i < j /\ Children[q][i] = Children[p][k] /\ Children[q][j] = m
      BY <2>1
    <2>3. p = q /\ k = i
      BY <2>2, OneListing
    <2> QED  BY <2>2, <2>3
  <1>3. ASSUME NameBefore(m, Children[p][k])
        PROVE  \E l \in DOMAIN Children[p] : m = Children[p][l]
    <2>1. PICK q \in Nodes : \E i, j \in DOMAIN Children[q] :
             i < j /\ Children[q][i] = m /\ Children[q][j] = Children[p][k]
      BY <1>3 DEF NameBefore
    <2>2. PICK i \in DOMAIN Children[q], j \in DOMAIN Children[q] :
             Children[q][i] = m /\ Children[q][j] = Children[p][k]
      BY <2>1
    <2>3. p = q
      BY <2>2, OneListing
    <2> QED  BY <2>2, <2>3
  <1>4. ASSUME NEW l \in DOMAIN Children[p], l <= k, NameBefore(Children[p][k], Children[p][l])
        PROVE  FALSE
    <2>1. PICK q \in Nodes : \E i, j \in DOMAIN Children[q] :
             i < j /\ Children[q][i] = Children[p][k] /\ Children[q][j] = Children[p][l]
      BY <1>4 DEF NameBefore
    <2>2. PICK i \in DOMAIN Children[q], j \in DOMAIN Children[q] :
             i < j /\ Children[q][i] = Children[p][k] /\ Children[q][j] = Children[p][l]
      BY <2>1
    <2>3. k = i /\ l = j /\ k \in Nat /\ l \in Nat
      BY <2>2, OneListing, ChildIs
    <2> QED  BY <1>4, <2>2, <2>3
  <1> QED  BY <1>1, <1>2, <1>3, <1>4

----------------------------------------------------------------------------
(* The order of the archive.                                               *)

\* What is to do when the head of the work is replaced by some operations.
LEMMA WorkIs ==
  ASSUME todo \in Seq(Work), todo # <<>>, NEW operations \in Seq(Work), Do(operations)
  PROVE  /\ 1 \in DOMAIN todo /\ todo[1][1] = Head(todo)[1] /\ todo[1][2] = Path
         /\ Path \in Nodes /\ \A i \in DOMAIN todo : i \in Nat /\ todo[i][2] \in Nodes
         /\ DOMAIN operations = 1..Len(operations)
         /\ \A i \in DOMAIN todo' :
               \/ i \in DOMAIN operations /\ todo'[i] = operations[i]
               \/ /\ i \in Nat /\ i > Len(operations)
                  /\ (i - Len(operations)) + 1 \in DOMAIN todo
                  /\ todo'[i] = todo[(i - Len(operations)) + 1]
  <1> DEFINE rest == Tail(todo)
             size == Len(operations)
  <1>1. /\ Len(todo) \in Nat /\ Len(todo) >= 1 /\ DOMAIN todo = 1..Len(todo) /\ Head(todo) = todo[1]
        /\ rest \in Seq(Work) /\ Len(rest) = Len(todo) - 1
        /\ \A i \in 1..(Len(todo) - 1) : rest[i] = todo[i + 1]
    BY HeadTailProperties, EmptySeq, LenProperties
  <1>2. \A i \in DOMAIN todo : todo[i] \in Work
    BY <1>1, ElementOfSeq
  <1>3. \A w \in Work : w[2] \in Nodes
    BY DEF Work
  <1>4. todo' = operations \o rest
    BY DEF Do
  <1>5. size \in Nat /\ DOMAIN operations = 1..size
    BY LenProperties
  <1>6. \A a, b \in Seq(Work) : /\ Len(a \o b) = Len(a) + Len(b) /\ DOMAIN (a \o b) = 1..(Len(a) + Len(b))
                                /\ \A i \in 1..(Len(a) + Len(b)) :
                                      (a \o b)[i] = IF i <= Len(a) THEN a[i] ELSE b[i - Len(a)]
    BY ConcatProperties, LenProperties
  <1> HIDE DEF rest
  <1>7. /\ DOMAIN todo' = 1..(size + Len(rest))
        /\ \A i \in 1..(size + Len(rest)) :
              todo'[i] = IF i <= size THEN operations[i] ELSE rest[i - size]
    BY <1>1, <1>4, <1>6
  <1>8. ASSUME NEW i \in DOMAIN todo'
        PROVE  \/ i \in DOMAIN operations /\ todo'[i] = operations[i]
               \/ i \in Nat /\ i > size /\ (i - size) + 1 \in DOMAIN todo /\ todo'[i] = todo[(i - size) + 1]
    <2> HIDE DEF size
    <2>1. i \in 1..(size + (Len(todo) - 1))
      BY <1>1, <1>7
    <2>2. CASE i <= size
      BY <1>1, <1>5, <1>7, <2>1, <2>2
    <2>3. CASE ~(i <= size)
      <3>1. i - size \in 1..(Len(todo) - 1)
        BY <1>1, <1>5, <2>1, <2>3
      <3>2. PICK k \in 1..(Len(todo) - 1) : k = i - size
        BY <3>1
      <3>3. todo'[i] = rest[k] /\ rest[k] = todo[k + 1] /\ k + 1 \in 1..Len(todo)
        BY <1>1, <1>7, <2>1, <2>3, <3>2
      <3> QED  BY <1>1, <1>5, <2>1, <2>3, <3>2, <3>3
    <2> QED  BY <2>2, <2>3
  <1>9. 1 \in DOMAIN todo /\ \A i \in DOMAIN todo : i \in Nat
    BY <1>1
  <1> QED  BY <1>1, <1>2, <1>3, <1>5, <1>8, <1>9 DEF Path

\* One item of work follows the paths that have been archived.
InOrder(work, paths) ==
  IF work[1] \in {"open", "list"} THEN \A m \in paths : m \in Below[work[2]] => m = work[2]
  ELSE \A m \in paths : MayFollow(work[2], m)

\* A step of the walk keeps the order when what it puts at the head of the work lies at or
\* below the path it was at, is in order itself, and follows what has been archived.
LEMMA WalkKeepsOrder ==
  ASSUME OrderInv, todo \in Seq(Work), archive \in Seq(TarEntries), todo # <<>>,
         NEW operations \in Seq(Work), Do(operations),
         \A i \in DOMAIN operations : operations[i][2] \in Below[Path],
         \A i \in DOMAIN operations : \A n \in Nodes \ Below[Path] :
             operations[i][2] = Path \/ ~NameBefore(n, operations[i][2]),
         \A i, j \in DOMAIN operations : i < j =>
             /\ Below[operations[i][2]] \cap Below[operations[j][2]] = {}
             /\ ~NameBefore(operations[j][2], operations[i][2]),
         \A i \in DOMAIN operations : InOrder(operations[i], Paths(archive')),
         \/ archive' = archive
         \/ /\ Head(todo)[1] \notin {"open", "list"}
            /\ \E entry \in TarEntries : entry.path = Path /\ Add(entry)
  PROVE  OrderInv'
  <1> DEFINE size == Len(operations)
  <1>1. /\ 1 \in DOMAIN todo /\ todo[1][1] = Head(todo)[1] /\ todo[1][2] = Path
        /\ Path \in Nodes /\ \A i \in DOMAIN todo : i \in Nat /\ todo[i][2] \in Nodes
        /\ DOMAIN operations = 1..size
        /\ \A i \in DOMAIN todo' :
              \/ i \in DOMAIN operations /\ todo'[i] = operations[i]
              \/ /\ i \in Nat /\ i > size
                 /\ (i - size) + 1 \in DOMAIN todo /\ todo'[i] = todo[(i - size) + 1]
    BY WorkIs
  <1>2. size \in Nat
    BY LenProperties
  <1> HIDE DEF size
  <1>3. ASSUME NEW i \in DOMAIN todo'
        PROVE  \/ i \in DOMAIN operations /\ i <= size /\ todo'[i] = operations[i]
               \/ \E k \in DOMAIN todo : k > 1 /\ k = (i - size) + 1 /\ i > size /\ todo'[i] = todo[k]
    BY <1>1, <1>2
  <1>4. ASSUME NEW k \in DOMAIN todo, k > 1
        PROVE  /\ Below[Path] \cap Below[todo[k][2]] = {} /\ ~NameBefore(todo[k][2], Path)
               /\ Path \notin Below[todo[k][2]] /\ todo[k][2] \in Nodes \ Below[Path]
    <2>1. Below[todo[1][2]] \cap Below[todo[k][2]] = {} /\ ~NameBefore(todo[k][2], todo[1][2])
      BY <1>1, <1>4 DEF OrderInv
    <2>2. Path \in Below[Path] /\ todo[k][2] \in Below[todo[k][2]] /\ todo[k][2] \in Nodes
      BY <1>1, BelowIsTree
    <2> QED  BY <1>1, <2>1, <2>2
  <1>5. ASSUME NEW i \in DOMAIN todo', NEW j \in DOMAIN todo', i < j
        PROVE  /\ Below[todo'[i][2]] \cap Below[todo'[j][2]] = {}
               /\ ~NameBefore(todo'[j][2], todo'[i][2])
    <2>1. CASE i \in DOMAIN operations /\ i <= size /\ todo'[i] = operations[i]
      <3>1. CASE j \in DOMAIN operations /\ j <= size /\ todo'[j] = operations[j]
        BY <1>5, <2>1, <3>1
      <3>2. ASSUME NEW k \in DOMAIN todo, k > 1, todo'[j] = todo[k]
            PROVE  /\ Below[operations[i][2]] \cap Below[todo[k][2]] = {}
                   /\ ~NameBefore(todo[k][2], operations[i][2])
        <4>1. Below[operations[i][2]] \subseteq Below[Path]
          BY <1>1, <2>1, BelowIsTree
        <4>2. /\ Below[Path] \cap Below[todo[k][2]] = {} /\ ~NameBefore(todo[k][2], Path)
              /\ todo[k][2] \in Nodes \ Below[Path]
          BY <1>4, <3>2
        <4>3. operations[i][2] = Path \/ ~NameBefore(todo[k][2], operations[i][2])
          BY <2>1, <4>2
        <4> QED  BY <4>1, <4>2, <4>3
      <3> QED  BY <1>3, <2>1, <3>1, <3>2
    <2>2. ASSUME NEW k \in DOMAIN todo, k > 1, k = (i - size) + 1, i > size, todo'[i] = todo[k]
          PROVE  /\ Below[todo'[i][2]] \cap Below[todo'[j][2]] = {}
                 /\ ~NameBefore(todo'[j][2], todo'[i][2])
      <3>1. i \in Nat /\ j \in Nat /\ ~(j <= size)
        BY <1>1, <1>2, <1>3, <1>5, <2>2
      <3>2. PICK l \in DOMAIN todo : l = (j - size) + 1 /\ todo'[j] = todo[l]
        BY <1>3, <3>1
      <3>3. k < l
        BY <1>1, <1>2, <1>5, <2>2, <3>1, <3>2
      <3> QED  BY <2>2, <3>2, <3>3 DEF OrderInv
    <2> QED  BY <1>3, <2>1, <2>2
  <1>6. /\ Paths(archive') \subseteq Paths(archive) \cup {Path}
        /\ Paths(archive') = Paths(archive) \/ todo[1][1] \notin {"open", "list"}
    BY <1>1, AddEntry
  <1>7. ASSUME NEW i \in DOMAIN todo' PROVE InOrder(todo'[i], Paths(archive'))
    <2>1. ASSUME NEW k \in DOMAIN todo, k > 1 PROVE InOrder(todo[k], Paths(archive'))
      <3>1. InOrder(todo[k], Paths(archive))
        BY DEF OrderInv, InOrder
      <3>2. Path \notin Below[todo[k][2]] /\ ~NameBefore(todo[k][2], Path)
        BY <1>4, <2>1
      <3> QED  BY <1>6, <3>1, <3>2 DEF InOrder, MayFollow
    <2> QED  BY <1>3, <2>1
  <1>8. ASSUME NEW i \in DOMAIN archive', NEW j \in DOMAIN archive', i < j
        PROVE  MayFollow(archive'[j].path, archive'[i].path)
    <2>1. CASE archive' = archive
      BY <1>8, <2>1 DEF OrderInv
    <2>2. ASSUME NEW entry \in TarEntries, entry.path = Path, Add(entry), todo[1][1] \notin {"open", "list"}
          PROVE  MayFollow(archive'[j].path, archive'[i].path)
      <3>1. /\ Len(archive) \in Nat /\ DOMAIN archive = 1..Len(archive)
            /\ DOMAIN archive' = 1..(Len(archive) + 1)
            /\ \A k \in 1..Len(archive) : archive'[k] = archive[k]
            /\ archive'[Len(archive) + 1] = entry
        BY <2>2, AppendProperties, LenProperties DEF Add
      <3>2. i \in DOMAIN archive /\ archive'[i] = archive[i]
        BY <1>8, <3>1
      <3>3. CASE j \in DOMAIN archive
        BY <1>8, <3>1, <3>2, <3>3 DEF OrderInv
      <3>4. CASE j \notin DOMAIN archive
        <4>1. archive'[j].path = Path
          BY <2>2, <3>1, <3>4
        <4>2. archive[i].path \in Paths(archive)
          BY <3>2 DEF Paths
        <4> QED  BY <1>1, <2>2, <3>2, <4>1, <4>2 DEF OrderInv
      <3> QED  BY <3>3, <3>4
    <2> QED  BY <1>1, <2>1, <2>2
  <1> QED  BY <1>5, <1>7, <1>8 DEF OrderInv, InOrder

LEMMA SameOrder ==
  ASSUME OrderInv, todo' = todo, archive' = archive
  PROVE  OrderInv'
  BY DEF OrderInv, MayFollow, NameBefore, Paths

\* What the order says of the path the walk is at.
LEMMA PathInOrder ==
  ASSUME UploadInv, OrderInv, NEW op, At(op)
  PROVE  /\ todo \in Seq(Work) /\ archive \in Seq(TarEntries) /\ todo # <<>> /\ Path \in Nodes
         /\ Head(todo)[1] = op /\ InOrder(<<op, Path>>, Paths(archive))
  <1>1. /\ todo \in Seq(Work) /\ archive \in Seq(TarEntries) /\ todo # <<>> /\ Path \in Nodes
        /\ Head(todo)[1] = op
    BY AtOperation
  <1>2. 1 \in DOMAIN todo /\ todo[1][1] = op /\ todo[1][2] = Path
    <2>1. Head(todo) = todo[1]
      BY <1>1, HeadTailProperties
    <2>2. 1 \in DOMAIN todo
      BY <1>1, EmptySeq, LenProperties
    <2> QED  BY <1>1, <2>1, <2>2 DEF Path
  <1> QED  BY <1>1, <1>2 DEF OrderInv, InOrder

\* The head of the work is replaced by nothing, or by one more operation on the same path.
LEMMA SamePathOrder ==
  ASSUME UploadInv, OrderInv, NEW op, At(op),
         NEW operations \in {<<>>} \cup {<<<<new, Path>>>> : new \in ArchiveOperations}, Do(operations),
         \A new : operations = <<<<new, Path>>>> => InOrder(<<new, Path>>, Paths(archive')),
         \/ archive' = archive
         \/ /\ op \notin {"open", "list"}
            /\ \E entry \in TarEntries : entry.path = Path /\ Add(entry)
  PROVE  OrderInv'
  <1>1. /\ todo \in Seq(Work) /\ archive \in Seq(TarEntries) /\ todo # <<>> /\ Path \in Nodes
        /\ Head(todo)[1] = op
    BY PathInOrder
  <1>2. Path \in Below[Path]
    BY <1>1, BelowIsTree
  <1>3. CASE operations = <<>>
    <2>1. operations \in Seq(Work) /\ DOMAIN operations = {}
      BY <1>3, NoOperations
    <2> QED  BY <1>1, <2>1, WalkKeepsOrder
  <1>4. ASSUME NEW new \in ArchiveOperations, operations = <<<<new, Path>>>> PROVE OrderInv'
    <2>1. operations \in Seq(Work)
      BY <1>1, <1>4, OneOperation
    <2>2. DOMAIN operations = {1} /\ operations[1] = <<new, Path>>
      BY <1>4
    <2>3. InOrder(<<new, Path>>, Paths(archive'))
      BY <1>4
    <2>4. \A i, j \in DOMAIN operations : ~(i < j)
      BY <2>2
    <2>5. \A i \in DOMAIN operations : operations[i][2] = Path /\ InOrder(operations[i], Paths(archive'))
      BY <2>2, <2>3
    <2> HIDE DEF InOrder
    <2> QED  BY <1>1, <1>2, <2>1, <2>4, <2>5, WalkKeepsOrder
  <1> QED  BY <1>3, <1>4

LEMMA AppendDirectoryHeaderOrder == UploadInv /\ OrderInv /\ AppendDirectoryHeader => OrderInv'
  <1> SUFFICES ASSUME UploadInv, OrderInv, AppendDirectoryHeader PROVE OrderInv'
    OBVIOUS
  <1> DEFINE entry == TarEntry("directory", Path, 0, 0)
  <1>1. At("dir") /\ Add(entry) /\ Do(<<<<"open", Path>>>>)
    BY DEF AppendDirectoryHeader
  <1>2. Path \in Nodes /\ archive \in Seq(TarEntries) /\ InOrder(<<"dir", Path>>, Paths(archive))
    BY <1>1, PathInOrder
  <1>3. entry \in TarEntries /\ entry.path = Path
    BY <1>2, UploadAssumption DEF TarEntry, TarEntries
  <1> HIDE DEF entry
  <1>4. Paths(archive') = Paths(archive) \cup {Path}
    BY <1>1, <1>2, <1>3, AddEntry
  <1>5. InOrder(<<"open", Path>>, Paths(archive'))
    BY <1>2, <1>4 DEF InOrder, MayFollow
  <1>6. \A new : <<<<"open", Path>>>> = <<<<new, Path>>>> => new = "open"
    OBVIOUS
  <1>7. <<<<"open", Path>>>> \in {<<>>} \cup {<<<<new, Path>>>> : new \in ArchiveOperations}
    BY DEF ArchiveOperations
  <1> QED  BY <1>1, <1>3, <1>5, <1>6, <1>7, SamePathOrder

\* The three operations that hand over to another one, or to none, without adding an entry.
LEMMA HandOverOrder ==
  ASSUME UploadInv, OrderInv, OpenDir \/ PassOver \/ OpenFile
  PROVE  OrderInv'
  <1>1. CASE OpenDir
    <2>1. At("open") /\ archive' = archive /\ Do(<<<<"list", Path>>>>)
      BY <1>1 DEF OpenDir
    <2>2. InOrder(<<"open", Path>>, Paths(archive))
      BY <2>1, PathInOrder
    <2>3. InOrder(<<"list", Path>>, Paths(archive'))
      BY <2>1, <2>2 DEF InOrder
    <2>4. \A new : <<<<"list", Path>>>> = <<<<new, Path>>>> => new = "list"
      OBVIOUS
    <2>5. <<<<"list", Path>>>> \in {<<>>} \cup {<<<<new, Path>>>> : new \in ArchiveOperations}
      BY DEF ArchiveOperations
    <2> QED  BY <2>1, <2>3, <2>4, <2>5, SamePathOrder
  <1>2. CASE PassOver
    <2>1. At("pass") /\ archive' = archive /\ Do(<<>>)
      BY <1>2 DEF PassOver
    <2>2. \A new : <<>> # <<<<new, Path>>>>
      OBVIOUS
    <2> QED  BY <2>1, <2>2, SamePathOrder
  <1>3. CASE OpenFile
    <2>1. At("file") /\ archive' = archive /\ Do(<<<<"stream", Path>>>>)
      BY <1>3 DEF OpenFile
    <2>2. InOrder(<<"file", Path>>, Paths(archive))
      BY <2>1, PathInOrder
    <2>3. InOrder(<<"stream", Path>>, Paths(archive'))
      BY <2>1, <2>2 DEF InOrder
    <2>4. \A new : <<<<"stream", Path>>>> = <<<<new, Path>>>> => new = "stream"
      OBVIOUS
    <2>5. <<<<"stream", Path>>>> \in {<<>>} \cup {<<<<new, Path>>>> : new \in ArchiveOperations}
      BY DEF ArchiveOperations
    <2> QED  BY <2>1, <2>3, <2>4, <2>5, SamePathOrder
  <1> QED  BY <1>1, <1>2, <1>3

LEMMA AddsPathOrder ==
  ASSUME UploadInv, OrderInv, StreamFile \/ AppendSymlink
  PROVE  OrderInv'
  <1>1. PICK op \in {"stream", "symlink"} : At(op)
    BY DEF StreamFile, AppendSymlink
  <1>2. Path \in Nodes /\ headerSize \in 0..MaxFileBytes /\ hostSize[Path] \in 0..MaxFileBytes
    BY <1>1, AtOperation
  <1>3. Do(<<>>)
    BY DEF StreamFile, AppendSymlink
  <1>4. \E entry \in TarEntries : entry.path = Path /\ Add(entry)
    <2>1. CASE StreamFile
      <3> DEFINE entry == TarEntry("regular", Path, headerSize, hostSize[Path])
      <3>1. entry \in TarEntries /\ entry.path = Path
        BY <1>2 DEF TarEntry, TarEntries
      <3>2. Add(entry)
        BY <2>1 DEF StreamFile
      <3> HIDE DEF entry
      <3> QED  BY <3>1, <3>2
    <2>2. CASE AppendSymlink
      <3> DEFINE entry == TarEntry("symlink", Path, 0, 0)
      <3>1. entry \in TarEntries /\ entry.path = Path
        BY <1>2, UploadAssumption DEF TarEntry, TarEntries
      <3>2. Add(entry)
        BY <2>2 DEF AppendSymlink
      <3> HIDE DEF entry
      <3> QED  BY <3>1, <3>2
    <2> QED  BY <2>1, <2>2
  <1>5. \A new : <<>> # <<<<new, Path>>>>
    OBVIOUS
  <1> QED  BY <1>1, <1>3, <1>4, <1>5, SamePathOrder

\* A listing replaces a directory by its entries, in the order of their names.
LEMMA AppendDirectoryContentsOrder == UploadInv /\ OrderInv /\ AppendDirectoryContents => OrderInv'
  <1> SUFFICES ASSUME UploadInv, OrderInv, AppendDirectoryContents PROVE OrderInv'
    OBVIOUS
  <1> DEFINE entries == SortedEntries(Path)
             operations == [i \in DOMAIN entries |-> <<Operation(entries[i]), entries[i]>>]
  <1>1. At("list") /\ archive' = archive /\ Do(operations)
    BY DEF AppendDirectoryContents
  <1>2. /\ todo \in Seq(Work) /\ archive \in Seq(TarEntries) /\ todo # <<>> /\ Path \in Nodes
        /\ Head(todo)[1] = "list" /\ InOrder(<<"list", Path>>, Paths(archive))
    BY <1>1, PathInOrder
  <1>3. operations \in Seq(Work)
    <2>1. operations = [i \in DOMAIN SortedEntries(Path) |->
                           <<Operation(SortedEntries(Path)[i]), SortedEntries(Path)[i]>>]
      OBVIOUS
    <2> HIDE DEF operations
    <2> QED  BY <1>2, <2>1, ListedOperations
  <1>4. \A i \in DOMAIN operations :
           /\ i \in DOMAIN Children[Path] /\ operations[i][2] = Children[Path][i]
           /\ operations[i][1] \notin {"open", "list"}
    <2>1. \A i \in DOMAIN entries : i \in DOMAIN Children[Path] /\ entries[i] = Children[Path][i]
      BY DEF SortedEntries
    <2>2. \A n : Operation(n) \notin {"open", "list"}
      BY DEF Operation, Archivable
    <2> HIDE DEF entries
    <2> QED  BY <2>1, <2>2
  <1> HIDE DEF operations
  <1>5. ASSUME NEW i \in DOMAIN operations
        PROVE  /\ operations[i][2] \in Below[Path]
               /\ InOrder(operations[i], Paths(archive'))
               /\ \A n \in Nodes \ Below[Path] : ~NameBefore(n, operations[i][2])
    <2>1. PICK c : c = Children[Path][i] /\ operations[i][2] = c /\ i \in DOMAIN Children[Path]
                   /\ operations[i][1] \notin {"open", "list"}
      BY <1>4
    <2>2. c \in Nodes /\ c \in Below[Path] /\ Path \notin Below[c]
      BY <1>2, <2>1, ChildIs
    <2>3. Below[c] \subseteq Below[Path]
      BY <1>2, <2>2, BelowIsTree
    <2>4. \A m : NameBefore(c, m) => m \in Below[Path] /\ m # Path
      BY <1>2, <2>1, ListedInOrder
    <2>5. \A m : NameBefore(m, c) => m \in Below[Path]
      BY <1>2, <2>1, ListedInOrder
    <2>6. \A m \in Paths(archive) : m \in Below[Path] => m = Path
      BY <1>2 DEF InOrder
    <2>7. \A m \in Paths(archive) : MayFollow(c, m)
      BY <2>2, <2>3, <2>4, <2>6 DEF MayFollow
    <2> QED  BY <1>1, <2>1, <2>2, <2>5, <2>7 DEF InOrder
  <1>6. ASSUME NEW i \in DOMAIN operations, NEW j \in DOMAIN operations, i < j
        PROVE  /\ Below[operations[i][2]] \cap Below[operations[j][2]] = {}
               /\ ~NameBefore(operations[j][2], operations[i][2])
    <2>1. /\ i \in DOMAIN Children[Path] /\ operations[i][2] = Children[Path][i]
          /\ j \in DOMAIN Children[Path] /\ operations[j][2] = Children[Path][j]
      BY <1>4
    <2>2. i \in Nat /\ j \in Nat
      BY <1>2, <2>1, ChildIs
    <2>3. i # j /\ i <= j
      BY <1>6, <2>2
    <2>4. Below[Children[Path][i]] \cap Below[Children[Path][j]] = {}
      BY <1>2, <2>1, <2>3, SiblingsApart
    <2>5. ~NameBefore(Children[Path][j], Children[Path][i])
      BY <1>2, <2>1, <2>3, ListedInOrder
    <2> QED  BY <2>1, <2>4, <2>5
  <1> QED  BY <1>1, <1>2, <1>3, <1>5, <1>6, WalkKeepsOrder

\* The sources are archived one after the other.
LEMMA IncludeCodexOrder == UploadInv /\ IncludeCodex => OrderInv'
  <1> SUFFICES ASSUME UploadInv, IncludeCodex PROVE OrderInv'
    OBVIOUS
  <1>1. /\ uploadStep = "codex" /\ archive' = archive /\ selected' = selected \o Include(Codex)
        /\ todo' = todo \/ todo' = [i \in DOMAIN selected' |-> <<"dir", selected'[i]>>]
    BY DEF IncludeCodex
  <1>2. archive = <<>> /\ todo = <<>> /\ selected \in {<<>>, <<Claude>>}
    BY <1>1 DEF UploadInv, Phases, Selected
  <1>3. Paths(archive') = {} /\ DOMAIN archive' = {}
    BY <1>1, <1>2 DEF Paths
  <1>4. selected' \in {<<>>, <<Claude>>, <<Codex>>, <<Claude, Codex>>}
    <2>1. Claude \in Sources /\ Codex \in Sources
      BY DEF Sources
    <2>2. Include(Codex) \in {<<>>, <<Codex>>}
      BY DEF Include
    <2>3. /\ <<>> \o <<>> = <<>> /\ <<>> \o <<Codex>> = <<Codex>>
          /\ <<Claude>> \o <<>> = <<Claude>> /\ <<Claude>> \o <<Codex>> = <<Claude, Codex>>
      BY <2>1, Tuples
    <2>4. CASE selected = <<>>
      BY <1>1, <2>2, <2>3, <2>4
    <2>5. CASE selected = <<Claude>>
      BY <1>1, <2>2, <2>3, <2>5
    <2> QED  BY <1>2, <2>4, <2>5
  <1>5. ASSUME NEW i \in DOMAIN todo', NEW j \in DOMAIN todo', i < j
        PROVE  /\ Below[todo'[i][2]] \cap Below[todo'[j][2]] = {}
               /\ ~NameBefore(todo'[j][2], todo'[i][2])
    <2>1. todo' # todo
      BY <1>2, <1>5
    <2>2. DOMAIN todo' = DOMAIN selected' /\ \A k \in DOMAIN selected' : todo'[k][2] = selected'[k]
      BY <1>1, <2>1
    <2>3. todo'[i][2] = Claude /\ todo'[j][2] = Codex
      BY <1>4, <1>5, <2>2
    <2>4. Claude \in Sources /\ Codex \in Nodes
      BY DEF Sources, Nodes
    <2> QED  BY <2>3, <2>4, SourcesApart
  <1> QED  BY <1>3, <1>5 DEF OrderInv

LEMMA UploadInitOrder == UploadInit => OrderInv
  BY DEF UploadInit, OrderInv

LEMMA UploadStepOrder ==
  UploadInv /\ OrderInv /\ (StartUpload \/ UploadHost \/ UploadStep) => OrderInv'
  <1> SUFFICES ASSUME UploadInv, OrderInv, StartUpload \/ UploadHost \/ UploadStep PROVE OrderInv'
    OBVIOUS
  <1>1. CASE StartUpload
    BY <1>1 DEF StartUpload, OrderInv
  <1>2. CASE UploadHost
    <2>1. UNCHANGED callVars
      BY <1>2 DEF UploadHost, HostResizes, HostRemoves, HostChange
    <2> QED  BY <2>1, SameOrder DEF callVars
  <1>3. CASE IncludeClaude \/ HostCallFails \/ FinishArchive \/ UploadToContainer \/ UploadFails
    <2>1. todo' = todo /\ archive' = archive
      BY <1>3 DEF IncludeClaude, HostCallFails, FinishArchive, UploadToContainer, UploadFails
    <2> QED  BY <2>1, SameOrder
  <1> QED
    BY <1>1, <1>2, <1>3, IncludeCodexOrder, AppendDirectoryHeaderOrder, HandOverOrder,
       AddsPathOrder, AppendDirectoryContentsOrder
    DEF UploadStep

LEMMA UploadUnchangedOrder == OrderInv /\ UNCHANGED uploadVars => OrderInv'
  BY SameOrder DEF uploadVars, callVars

LEMMA ArchiveFollowsOrder == UploadInv /\ OrderInv => ArchiveInOrder
  <1> SUFFICES ASSUME UploadInv, OrderInv, NEW i \in DOMAIN archive, NEW j \in DOMAIN archive, i < j
               PROVE  /\ archive[i].path # archive[j].path
                      /\ archive[i].path \notin Below[archive[j].path] \ {archive[j].path}
                      /\ ~NameBefore(archive[j].path, archive[i].path)
    BY DEF ArchiveInOrder
  <1>1. archive[j].path \in Nodes
    <2>1. archive \in Seq(TarEntries)
      BY DEF UploadInv, UploadTypeOK
    <2>2. archive[j] \in TarEntries
      BY <2>1, ElementOfSeq, LenProperties
    <2> QED  BY <2>2 DEF TarEntries
  <1>2. MayFollow(archive[j].path, archive[i].path)
    BY DEF OrderInv
  <1> QED  BY <1>1, <1>2, BelowIsTree DEF MayFollow

=============================================================================
