--------------------------- MODULE MCSessionStore ---------------------------
EXTENDS SessionStore, TLC

\* Two keys of DC 1, one of DC 2.
Keys == {[dc |-> 1, gen |-> 1], [dc |-> 1, gen |-> 2], [dc |-> 2, gen |-> 1]}

\* One key of each DC.
FewKeys == {[dc |-> 1, gen |-> 1], [dc |-> 2, gen |-> 1]}

OneFile(ver, key) ==
  Bytes(ver, [home |-> key.dc, entries |-> <<[dc |-> key.dc, key |-> key]>>])

\* An unreadable file, a legacy file, or one this client wrote.
FirstFiles == {NoBytes, Bytes("bad", EmptyFile),
               OneFile("v1", [dc |-> 1, gen |-> 1]), OneFile("v2", [dc |-> 2, gen |-> 1])}

Symmetric == Permutations(Inode)
=============================================================================
