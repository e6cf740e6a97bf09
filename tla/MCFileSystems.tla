--------------------------- MODULE MCFileSystems ---------------------------
(* Archives small enough for TLC.                                           *)
EXTENDS FileSystems

Of(type, perm, path, content) == [path |-> path, type |-> type, perm |-> perm, content |-> content]
Dir(path) == Of("directory", 493, path, << >>)
File(path, content) == Of("regular", 420, path, content)
Link(path, content) == Of("symlink", 4095, path, content)

b == << "b" >>
c == << "c" >>
bc == << "b", "/", "c" >>
bcd == << "b", "/", "c", "/", "d" >>

\* Names and contents of every length modulo 4, an empty file, a nested directory;
\* a symbolic link; a file whose name continues that of a directory; the other types.
MCFileLists ==
  {<< Dir(b), File(bc, << 1, 2, 3 >>), File(c, << 4, 5, 6, 7 >>) >>,
   << File(<< "c", "c" >>, << >>), File(c, << 1 >>), Dir(b), Dir(bc), File(bcd, << 2, 3 >>) >>,
   << Dir(b), Link(bc, << 1, 2 >>), File(<< "b", "c" >>, << 3, 4, 5, 6, 7 >>) >>,
   << Of("block", 432, c, << >>), Of("fifo", 0, << "d" >>, << >>), Dir(b),
      Of("socket", 4095, bc, << >>), Of("char", 438, << "b", "d" >>, << >>) >>,
   << >>}

=============================================================================
