---------------------------- MODULE MCExtraction ----------------------------
EXTENDS Extraction

\* Three items in a folder, the second one empty; a directory; one more folder.
Solid == <<[folder |-> 1, first |-> 0, size |-> 2], [folder |-> 1, first |-> 2, size |-> 0],
           [folder |-> 1, first |-> 2, size |-> 1], [folder |-> 0, first |-> 0, size |-> 0],
           [folder |-> 2, first |-> 0, size |-> 1]>>
Lists == {<<>>, <<2>>, <<3>>, <<5, 1>>, <<4, 4>>, <<3, 1, 3>>, <<6>>, <<-1, 1>>}
=============================================================================
