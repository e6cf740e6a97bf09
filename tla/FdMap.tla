------------------------------- MODULE FdMap -------------------------------
(***************************************************************************)
(* What the file-descriptor calls promise: a finite map from descriptors   *)
(* to open files.  Every call names what it is about, and the state keeps  *)
(* the last call with its answer, so that the promise is about the         *)
(* descriptor that was passed: open answers the lowest free one from 3 up, *)
(* close frees the one it is given, read moves the offset of that one.     *)
(***************************************************************************)
EXTENDS Integers

CONSTANTS
  Files,   \* the possible open files: [node, offset]
  Fds,     \* the descriptors callers pass
  Counts   \* the counts callers pass

VARIABLES
  files,   \* descriptor -> open file
  call,    \* the last call: its name and arguments
  ret      \* what it returned

Nodes == {f.node : f \in Files}

OpenFds == DOMAIN files

BadFd == -9

LowestFree(fd) == fd \notin OpenFds /\ fd >= 3 /\ \A g \in 3 .. fd - 1 : g \in OpenFds

MapInit == files = [fd \in {} |-> 0] /\ call = << "none" >> /\ ret = 0

\* A new file at its start, or an error.
Open(node) ==
  /\ call' = <<"open", node>>
  /\ \/ /\ node \in Nodes
        /\ ret' \in Nat
        /\ LowestFree(ret')
        /\ files' = [fd \in OpenFds \cup {ret'} |->
                       IF fd = ret' THEN [node |-> node, offset |-> 0] ELSE files[fd]]
     \/ ret' < 0 /\ UNCHANGED files

\* The standard descriptors need no closing.
Close(fd) ==
  /\ call' = <<"close", fd>>
  /\ \/ /\ fd \in OpenFds
        /\ ret' = 0
        /\ files' = [g \in OpenFds \ {fd} |-> files[g]]
     \/ /\ fd \notin OpenFds
        /\ ret' = IF fd < 3 THEN 0 ELSE BadFd
        /\ UNCHANGED files

\* Nothing asked for, an error, or bytes of an open file.
Read(fd, count) ==
  /\ call' = <<"read", fd, count>>
  /\ \/ /\ ret' < 0 \/ (count = 0 /\ ret' = 0)
        /\ UNCHANGED files
     \/ /\ fd \in OpenFds
        /\ ret' \in 0 .. count
        /\ \E to \in files[fd].offset .. files[fd].offset + ret' :
             files' = [files EXCEPT ![fd].offset = to]

\* An open file or the console takes all or nothing; no offset moves.
Write(fd, count) ==
  /\ call' = <<"write", fd, count>>
  /\ ret' < 0 \/ ret' = count
  /\ (count > 0 /\ fd \notin OpenFds \cup {1, 2}) => ret' < 0
  /\ UNCHANGED files

MapNext ==
  \/ \E node \in Nodes \cup {"None"} : Open(node)
  \/ \E fd \in Fds : Close(fd)
  \/ \E fd \in Fds, count \in Counts : Read(fd, count) \/ Write(fd, count)

MapSpec == MapInit /\ [][MapNext]_<<files, call, ret>>

=============================================================================
