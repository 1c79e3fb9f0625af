----------------------------- MODULE MCInputDriver -----------------------------
(***************************************************************************)
(* Instances of InputDriver for TLC: one file of up to three lines, two of *)
(* up to two, and the standard input, with every kind of line, with and    *)
(* without a newline at the end, and files that cannot be opened.          *)
(***************************************************************************)
EXTENDS InputDriver

CONSTANT Readers

FilesUpTo(n, kinds) ==
  {[opens |-> TRUE, closed |-> c, lines |-> l] : c \in BOOLEAN, l \in BoundedSeq(kinds, n)}

Missing == [opens |-> FALSE, closed |-> TRUE, lines |-> <<>>]
Nothing == [opens |-> TRUE, closed |-> TRUE, lines |-> <<>>]

Run(reader, files, stdin) == [reader |-> reader, files |-> files, stdin |-> stdin]

TwoLines == FilesUpTo(2, LineKinds) \cup {Missing}

MCInputs ==
  {Run(r, <<>>, f) : r \in Readers, f \in FilesUpTo(2, LineKinds)}
    \cup {Run(r, <<f>>, Nothing) : r \in Readers, f \in FilesUpTo(3, LineKinds)}
    \cup {Run(r, <<f, g>>, Nothing) : r \in Readers, f \in TwoLines, g \in TwoLines}
===============================================================================
