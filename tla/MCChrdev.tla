------------------------------- MODULE MCChrdev -------------------------------
(* Model-checking instance of Chrdev: the lseek offsets, which include a  *)
(* negative one, and the device trees chrdev-req may be probed with,      *)
(* neither of which can be written in a configuration file.               *)
EXTENDS Chrdev, TLC

CONSTANTS l1, l2, fwl

\* A step back and a step forward: with SEEK_SET, SEEK_CUR and SEEK_END
\* they reach every position and both sides of llseek's bounds test.
MCSeekOffsets == {-1, 1}

Node(r, l, ro) == [reg |-> r, label |-> l, ro |-> ro]

\* Two well-formed children (the second read-only); two children with the
\* same reg; a reg past MAX_DEVICES; a child without "reg" before a
\* well-formed one; no child at all.
MCTrees ==
    { << Node(0, l1, FALSE), Node(1, l2, TRUE) >>,
      << Node(0, l1, FALSE), Node(0, l2, FALSE) >>,
      << Node(MAX_DEVICES, l1, FALSE) >>,
      << Node(NoProp, l1, FALSE), Node(1, l2, FALSE) >>,
      << >> }

\* The users are interchangeable: nothing in the model tells them apart.
MCUserSymmetry == Permutations(Users)
====
