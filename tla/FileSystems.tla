---------------------------- MODULE FileSystems ----------------------------
(***************************************************************************)
(* The FileSystem trait of kernel/src/fs and the four file systems behind  *)
(* it that do something: /proc, /sys, /dev and the initramfs, a cpio newc  *)
(* archive that InitramFs::new parses.  A reader looks files up and reads  *)
(* them in chunks, at the offset it has reached, while time goes by.       *)
(*                                                                         *)
(* A path is the sequence of its characters, because readdir compares      *)
(* prefixes of paths; a file of /proc, /sys or /dev is named by one        *)
(* character.  Contents are sequences of numbers.                          *)
(***************************************************************************)
EXTENDS Integers, Sequences

CONSTANTS
  Letters,      \* what paths are made of, besides slashes
  FileLists,    \* what an archive is made of: sequences of [path, type, perm, content]
  Lost,         \* how many bytes at its end an archive may lack
  Counts,       \* sizes of the reader's buffer
  MaxSeconds,   \* bound: uptime in seconds
  MaxRead,      \* bound: the reader stops once it has this many bytes
  HEADER_SIZE   \* 110

Slash == "/"
Root == << Slash >>

Trailer == << "TRAILER!!!" >>

\* The types of files an archive can hold, with the four bits a mode has for them.
TypeBits == [fifo |-> 1, char |-> 2, directory |-> 4, block |-> 6, regular |-> 8,
             symlink |-> 10, socket |-> 12]
Types == DOMAIN TypeBits

\* A file, and the characters of its path.
Chars == Letters \cup {Slash} \cup {Trailer[1]}

FileSet == [path : Seq(Chars), type : Types, perm : {n \in Nat : n < 4096}, content : Seq(Int)]

\* The names a cpio writer gives: relative to the root of the archive, without empty
\* components.
WellNamed(path) ==
  /\ path # << >> /\ path # Trailer
  /\ path[1] # Slash /\ path[Len(path)] # Slash
  /\ \A i \in 1 .. Len(path) - 1 : path[i] = Slash => path[i + 1] # Slash

ASSUME FileSystemsAssumption ==
  /\ \A list \in FileLists :
       /\ list \in Seq(FileSet)
       /\ \A i \in 1 .. Len(list) : WellNamed(list[i].path)
       /\ \A i, j \in 1 .. Len(list) : list[i].path = list[j].path => i = j
  /\ Lost \subseteq Nat
  /\ Counts \subseteq Nat \ {0}
  /\ MaxSeconds \in Nat
  /\ MaxRead \in Nat
  /\ HEADER_SIZE \in Nat \ {0}

\* Sequences.
Range(s) == {s[i] : i \in 1 .. Len(s)}
Contains(s, e) == \E i \in 1 .. Len(s) : s[i] = e
IsPrefix(s, t) == Len(s) <= Len(t) /\ \A i \in 1 .. Len(s) : s[i] = t[i]
IsStrictPrefix(s, t) == Len(s) < Len(t) /\ IsPrefix(s, t)

\* Iterator::find: the least of a set of positions, 0 if there is none.
First(positions) ==
  IF positions = {} THEN 0 ELSE CHOOSE i \in positions : \A j \in positions : i <= j

Inode(num, kind) == [num |-> num, kind |-> kind]
NotFound == Inode(0, "NotFound")

-----------------------------------------------------------------------------
(* A cpio archive: where its headers are, its data bytes, its length.       *)

Align4(x) == ((x + 3) \div 4) * 4

\* The mode of a file: its type above its twelve permission bits.
ModeOf(file) == TypeBits[file.type] * 4096 + file.perm

\* A writer appends one file: header, name with its NUL, padding, data, padding.
AppendFile(archive, file) ==
  LET start == ((archive.len + HEADER_SIZE + Len(file.path) + 1 + 3) \div 4) * 4
      end == start + Len(file.content)
  IN  [headers |-> [o \in DOMAIN archive.headers \cup {archive.len} |->
                      IF o = archive.len
                      THEN [path |-> file.path, mode |-> ModeOf(file),
                            namesize |-> Len(file.path) + 1,
                            filesize |-> Len(file.content), hex |-> TRUE, utf8 |-> TRUE]
                      ELSE archive.headers[o]],
       bytes |-> [o \in DOMAIN archive.bytes \cup start .. end - 1 |->
                    IF o >= start THEN file.content[o - start + 1] ELSE archive.bytes[o]],
       len |-> ((end + 3) \div 4) * 4]

\* The archive after each of the files of a list, and after the trailer.
NoArchive == [headers |-> << >>, bytes |-> << >>, len |-> 0]

WithTrailer(list) ==
  Append(list, [path |-> Trailer, type |-> "regular", perm |-> 0, content |-> << >>])

Written(all) ==
  LET upTo[n \in 0 .. Len(all)] ==
        IF n = 0 THEN NoArchive ELSE AppendFile(upTo[n - 1], all[n])
  IN  upTo

ArchiveOf(list) == Written(WithTrailer(list))[Len(list) + 1]

\* The archive as written, without its end, or with one header damaged: its magic
\* number, one of its hexadecimal fields, the length of its name, or the name.
Ramdisks(whole) ==
  LET offsets == DOMAIN whole.headers
  IN  {[whole EXCEPT !.len = IF n < @ THEN @ - n ELSE 0] : n \in Lost}
        \cup {[whole EXCEPT !.headers = [h \in DOMAIN @ \ {o} |-> @[h]]] : o \in offsets}
        \cup {[whole EXCEPT !.headers[o].hex = FALSE] : o \in offsets}
        \cup {[whole EXCEPT !.headers[o].namesize = 0] : o \in offsets}
        \cup {[whole EXCEPT !.headers[o].utf8 = FALSE] : o \in offsets}

VARIABLES
  files,     \* what the archive was made of
  archive,   \* the ramdisk: perhaps without its end
  offset,    \* InitramFs::new: position in the archive
  entries,   \* ... and the entries it has found
  mount,     \* "parsing", "mounted", or "none": InitramFs::new returned None
  seconds,   \* scheduler::ticks() / 100
  file,      \* what the reader has open: [fs, path, num]
  got,       \* what it has read so far
  eof,       \* its last read returned no byte
  torn,      \* the uptime changed since its first read
  panicked

xvars == <<files, archive, offset, entries, mount, seconds, file, got, eof, torn, panicked>>

NoFile == [fs |-> "none", path |-> Root, num |-> 0]

Init ==
  /\ files \in FileLists
  /\ archive \in Ramdisks(ArchiveOf(files))
  /\ offset = 0
  /\ entries = << >>
  /\ mount = "parsing"
  /\ seconds = 9
  /\ file = NoFile
  /\ got = << >>
  /\ eof = FALSE
  /\ torn = FALSE
  /\ panicked = FALSE

\* One iteration of the loop of InitramFs::new that finds an entry; the loop's end:
\* no room for a header, no header there, a name that does not fit, the trailer; the
\* early returns, when parse_hex8 or from_utf8 fails; and the panic, when the slice
\* without the NUL of an empty name ends before it starts.
ParseEntry ==
  /\ mount = "parsing" /\ ~panicked
  /\ LET header == archive.headers[offset]
         name_end == offset + HEADER_SIZE + header.namesize
         data_start == Align4(name_end)
         atHeader == offset + HEADER_SIZE <= archive.len /\ offset \in DOMAIN archive.headers
         fits == name_end <= archive.len
         named == atHeader /\ header.hex /\ fits /\ header.namesize > 0
     IN  \/ /\ named /\ header.utf8 /\ header.path # Trailer
            /\ entries' = Append(entries, [path |-> header.path,
                                           inode_num |-> Len(entries) + 2,
                                           mode |-> header.mode,
                                           size |-> header.filesize,
                                           data_offset |-> data_start])
            /\ offset' = Align4(data_start + header.filesize)
            /\ UNCHANGED <<mount, panicked>>
         \/ /\ \/ ~atHeader
               \/ atHeader /\ header.hex /\ ~fits
               \/ named /\ header.utf8 /\ header.path = Trailer
            /\ mount' = "mounted"
            /\ UNCHANGED <<offset, entries, panicked>>
         \/ /\ (atHeader /\ ~header.hex) \/ (named /\ ~header.utf8)
            /\ mount' = "none"
            /\ UNCHANGED <<offset, entries, panicked>>
         \/ /\ atHeader /\ header.hex /\ fits /\ header.namesize = 0
            /\ panicked' = TRUE
            /\ UNCHANGED <<offset, entries, mount>>
  /\ UNCHANGED <<files, archive, seconds, file, got, eof, torn>>

-----------------------------------------------------------------------------
(* lookup.                                                                  *)

ProcLookup(path) ==
  CASE path \in {Root, << >>} -> Inode(1, "Directory")
    [] path = << Slash, "version" >> -> Inode(2, "RegularFile")
    [] path = << Slash, "uptime" >> -> Inode(3, "RegularFile")
    [] path = << Slash, "meminfo" >> -> Inode(4, "RegularFile")
    [] OTHER -> NotFound

SysLookup(path) ==
  CASE path \in {Root, << >>} -> Inode(1, "Directory")
    [] path = << Slash, "kernel" >> -> Inode(2, "Directory")
    [] path = << Slash, "kernel", Slash, "hostname" >> -> Inode(3, "RegularFile")
    [] OTHER -> NotFound

DevLookup(path) ==
  CASE path \in {Root, << >>} -> Inode(1, "Directory")
    [] path = << Slash, "null" >> -> Inode(2, "CharDevice")
    [] path = << Slash, "zero" >> -> Inode(3, "CharDevice")
    [] path = << Slash, "full" >> -> Inode(4, "CharDevice")
    [] path = << Slash, "ttyS0" >> -> Inode(5, "CharDevice")
    [] OTHER -> NotFound

\* trim_start_matches('/').
TrimStart(path) ==
  LET n == CHOOSE n \in 0 .. Len(path) :
             /\ \A i \in 1 .. n : path[i] = Slash
             /\ n < Len(path) => path[n + 1] # Slash
  IN  SubSeq(path, n + 1, Len(path))

\* The first entry with one of the two spellings.
FindPath(path) ==
  First({i \in 1 .. Len(entries) : entries[i].path \in {path, TrimStart(path)}})

FindInode(num) == First({i \in 1 .. Len(entries) : entries[i].inode_num = num})

\* mode & 0o170000, shifted to the right.
FileType(mode) == (mode \div 4096) % 16

\* Everything but directories and links is a regular file.
LookupKind(mode) ==
  CASE FileType(mode) = 4 -> "Directory"
    [] FileType(mode) = 10 -> "Symlink"
    [] OTHER -> "RegularFile"

InitramLookup(path) ==
  CASE path \in {Root, << >>} -> Inode(1, "Directory")
    [] path \notin {Root, << >>} /\ FindPath(path) > 0 ->
         Inode(entries[FindPath(path)].inode_num, LookupKind(entries[FindPath(path)].mode))
    [] OTHER -> NotFound

Lookup(fs, path) ==
  CASE fs = "proc" -> ProcLookup(path)
    [] fs = "sysfs" -> SysLookup(path)
    [] fs = "devfs" -> DevLookup(path)
    [] fs = "initramfs" -> InitramLookup(path)

-----------------------------------------------------------------------------
(* read: the bytes put into the buffer, or an error, or a panic.            *)

Ok(bytes) == [res |-> "ok", bytes |-> bytes]
Err == [res |-> "err", bytes |-> << >>]
Panics == [res |-> "panic", bytes |-> << >>]

\* As many bytes of content from offset on as the buffer takes.
From(content, at, count) ==
  Ok(SubSeq(content, at + 1, IF at + count < Len(content) THEN at + count ELSE Len(content)))

Version == << 11, 12, 13 >>
Meminfo == << 14, 15 >>
Hostname == << 16, 17, 18 >>

Decimal(n) == IF n < 10 THEN << n >> ELSE << n \div 10, n % 10 >>
Uptime == Decimal(seconds) \o << 19 >> \o Decimal(seconds) \o << 19 >>

ProcContent(num) ==
  CASE num = 2 -> Version
    [] num = 3 -> Uptime
    [] num = 4 -> Meminfo

ProcRead(num, at, count) ==
  IF num \in 2 .. 4 THEN From(ProcContent(num), at, count) ELSE Err

SysRead(num, at, count) ==
  CASE at > 0 -> Ok(<< >>)
    [] at = 0 /\ num = 3 -> From(Hostname, 0, count)
    [] OTHER -> Err

DevRead(num, count) ==
  CASE num \in {2, 5} -> Ok(<< >>)
    [] num \in {3, 4} -> Ok([i \in 1 .. count |-> 0])
    [] OTHER -> Err

\* A byte of the archive; what lies between the files' data is told apart from it.
ByteAt(a) == IF a \in DOMAIN archive.bytes THEN archive.bytes[a] ELSE 20

\* Mutant: the end of the file is taken from where the read starts.
FileEnd_Shifted(entry, at) == entry.data_offset + at + entry.size

FileEnd(entry, at) == entry.data_offset + entry.size

\* The slice data[start..end] panics when the archive ends before the file does.
InitramRead(num, at, count) ==
  LET entry == entries[FindInode(num)]
      start == entry.data_offset + at
      end == FileEnd(entry, at)
  IN  CASE FindInode(num) = 0 -> Err
        [] FindInode(num) > 0 /\ start >= end -> Ok(<< >>)
        [] FindInode(num) > 0 /\ start < end /\ end > archive.len -> Panics
        [] OTHER -> From([i \in 1 .. end - start |-> ByteAt(start + i - 1)], 0, count)

ReadAt(fs, num, at, count) ==
  CASE fs = "proc" -> ProcRead(num, at, count)
    [] fs = "sysfs" -> SysRead(num, at, count)
    [] fs = "devfs" -> DevRead(num, count)
    [] fs = "initramfs" -> InitramRead(num, at, count)

-----------------------------------------------------------------------------
(* readdir: a set of [name, num, kind], empty where it is an error.         *)

DirEntry(name, num, kind) == [name |-> name, num |-> num, kind |-> kind]

ProcReaddir(num) ==
  IF num # 1 THEN {}
  ELSE {DirEntry(<< "version" >>, 2, "RegularFile"),
        DirEntry(<< "uptime" >>, 3, "RegularFile"),
        DirEntry(<< "meminfo" >>, 4, "RegularFile")}

SysReaddir(num) ==
  CASE num = 1 -> {DirEntry(<< "kernel" >>, 2, "Directory")}
    [] num = 2 -> {DirEntry(<< "hostname" >>, 3, "RegularFile")}
    [] OTHER -> {}

DevReaddir(num) ==
  IF num # 1 THEN {}
  ELSE {DirEntry(<< "null" >>, 2, "CharDevice"), DirEntry(<< "zero" >>, 3, "CharDevice"),
        DirEntry(<< "full" >>, 4, "CharDevice"), DirEntry(<< "ttyS0" >>, 5, "CharDevice")}

\* What is left of an entry's path below the prefix.
Rest(path, prefix) == TrimStart(SubSeq(path, Len(prefix) + 1, Len(path)))

\* Mutant: the entries below a directory at any depth.
IsListed_Deep(path, prefix) ==
  /\ IsPrefix(prefix, path)
  /\ Rest(path, prefix) # << >>

IsListed(path, prefix) ==
  /\ IsPrefix(prefix, path)
  /\ ~Contains(Rest(path, prefix), Slash)
  /\ Rest(path, prefix) # << >>

\* ... and here links are, too.
ListedKind(mode) == IF FileType(mode) = 4 THEN "Directory" ELSE "RegularFile"

InitramReaddir(num) ==
  LET prefix == IF num = 1 THEN << >> ELSE entries[FindInode(num)].path
  IN  IF num # 1 /\ FindInode(num) = 0 THEN {}
      ELSE {DirEntry(Rest(e.path, prefix), e.inode_num, ListedKind(e.mode)) :
              e \in {e \in Range(entries) : IsListed(e.path, prefix)}}

Readdir(fs, num) ==
  CASE fs = "proc" -> ProcReaddir(num)
    [] fs = "sysfs" -> SysReaddir(num)
    [] fs = "devfs" -> DevReaddir(num)
    [] fs = "initramfs" -> InitramReaddir(num)

-----------------------------------------------------------------------------
(* The reader.                                                              *)

FileSystemNames == {"proc", "sysfs", "devfs"} \cup (IF mount = "mounted" THEN {"initramfs"} ELSE {})

\* The paths the reader tries: with and without the leading slash.
Paths(fs) ==
  IF fs = "initramfs"
  THEN UNION {{f.path, Root \o f.path} : f \in Range(files)}
  ELSE {Root \o e.name : e \in Readdir(fs, 1)} \cup {<< Slash, "kernel", Slash, "hostname" >>}

Open ==
  /\ mount # "parsing"
  /\ file = NoFile
  /\ \E fs \in FileSystemNames : \E path \in Paths(fs) :
       LET inode == Lookup(fs, path)
       IN  /\ inode.kind \notin {"NotFound", "Directory"}
           /\ file' = [fs |-> fs, path |-> path, num |-> inode.num]
  /\ UNCHANGED <<files, archive, offset, entries, mount, seconds, got, eof, torn, panicked>>

Read ==
  /\ file # NoFile
  /\ ~eof /\ ~panicked
  /\ Len(got) < MaxRead
  /\ \E count \in Counts :
       LET answer == ReadAt(file.fs, file.num, Len(got), count)
       IN  /\ got' = got \o answer.bytes
           /\ eof' = (answer.res = "ok" /\ answer.bytes = << >>)
           /\ panicked' = (answer.res = "panic")
  /\ UNCHANGED <<files, archive, offset, entries, mount, seconds, file, torn>>

\* A second goes by: the next read of /proc/uptime formats another text.
Second ==
  /\ file # NoFile
  /\ ~panicked
  /\ seconds < MaxSeconds
  /\ seconds' = seconds + 1
  /\ torn' = (torn \/ got # << >>)
  /\ UNCHANGED <<files, archive, offset, entries, mount, file, got, eof, panicked>>

Next == ParseEntry \/ Open \/ Read \/ Second

Spec == Init /\ [][Next]_xvars

-----------------------------------------------------------------------------
(* Properties.                                                              *)

\* What the open file holds: what was put into the archive, or the text of a file
\* of /proc or /sys.
Content ==
  CASE file.fs = "initramfs" ->
         (CHOOSE f \in Range(files) : f.path = TrimStart(file.path)).content
    [] file.fs = "proc" -> ProcContent(file.num)
    [] file.fs = "sysfs" -> Hostname

CutShort == archive.len < ArchiveOf(files).len
NoName == \E o \in DOMAIN archive.headers : archive.headers[o].namesize = 0

\* A reader that reads a file in chunks, each at the offset it has reached, gets the
\* file: what it has is always the beginning of the content, and when a read returns
\* no byte it is all of it, whatever the names, sizes and padding of the files before
\* it in the archive.  /dev/zero and /dev/full give zeros and the other devices
\* nothing.  Two exceptions are the code's: a text of /proc/uptime that changed
\* between two chunks, and SysFs::read, which ends every file after the first chunk.
\* The kernel panics only in reading from an archive that lacks its end, or in
\* parsing a header that gives its name no bytes, not even the NUL.
ReadsJoin ==
  /\ file.fs \in {"initramfs", "proc", "sysfs"} /\ ~torn =>
       /\ IsPrefix(got, Content)
       /\ eof /\ file.fs # "sysfs" => got = Content
  /\ file.fs = "devfs" => /\ Range(got) \subseteq {0}
                          /\ got # << >> => file.path \in {<< Slash, "zero" >>, << Slash, "full" >>}
  /\ panicked => CutShort \/ NoName

\* What lookup and readdir should say of a file, as far as they tell files apart.
KindOf(f) ==
  CASE f.type = "directory" -> "Directory"
    [] f.type = "symlink" -> "Symlink"
    [] OTHER -> "RegularFile"
ListedAs(f) == IF f.type = "directory" THEN "Directory" ELSE "RegularFile"

\* The entries below a directory of the archive, by their paths.
Children(dir) ==
  LET below == IF dir = << >> THEN << >> ELSE Append(dir, Slash)
      Name(i) == SubSeq(files[i].path, Len(below) + 1, Len(files[i].path))
  IN  {DirEntry(Name(i), i + 1, ListedAs(files[i])) :
         i \in {i \in 1 .. Len(entries) : /\ IsStrictPrefix(below, files[i].path)
                                          /\ ~Contains(Name(i), Slash)}}

\* The inodes of the entries whose paths continue that of a directory other than by
\* a slash.
Continuing(dir) ==
  {i + 1 : i \in {i \in 1 .. Len(entries) : /\ IsStrictPrefix(dir, files[i].path)
                                            /\ files[i].path[Len(dir) + 1] # Slash}}

\* lookup and readdir agree with each other and with what was put into the archive.
\* An undamaged archive is found whole, a damaged one up to the damage.  Every file is
\* looked up under its path, as a directory or a link if it is one; devices, FIFOs and
\* sockets are reported as regular files.  A directory lists every entry directly below
\* it, with its inode, links as regular files; and nothing else, except that readdir
\* compares path prefixes without the slash, and lists what continues its name.
DirsAgree ==
  /\ mount = "mounted" =>
       /\ archive = ArchiveOf(files) => Len(entries) = Len(files)
       /\ \A i \in 1 .. Len(entries) :
            Lookup("initramfs", Root \o files[i].path) = Inode(i + 1, KindOf(files[i]))
       /\ Readdir("initramfs", 1) = Children(<< >>)
       /\ \A i \in 1 .. Len(entries) :
            files[i].type = "directory" =>
              LET listing == Readdir("initramfs", i + 1)
                  children == Children(files[i].path)
              IN  /\ children \subseteq listing
                  /\ \A e \in listing \ children : e.num \in Continuing(files[i].path)
  /\ \A fs \in {"proc", "sysfs", "devfs"} : \A e \in Readdir(fs, 1) :
       /\ Lookup(fs, Root \o e.name) = Inode(e.num, e.kind)
       /\ \A f \in Readdir(fs, e.num) :
            Lookup(fs, Root \o e.name \o Root \o f.name) = Inode(f.num, f.kind)

=============================================================================
