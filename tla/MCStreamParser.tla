------------------------------ MODULE MCStreamParser ------------------------------
EXTENDS StreamParser, SequencesExt

(* A frame with a payload, one whose payload looks like a start byte, an   *)
(* empty one, an unknown command, a false start with an impossible length, *)
(* and plain garbage.                                                      *)
Segments == { <<4, 1, 1, 0>>, <<4, 1, 2, 4>>, <<4, 0, 1>>,
              <<4, 0, 3>>, <<4, 2>>, <<0, 1>> }

(* Every stream of two segments, sent four times over so that the buffer   *)
(* wraps at every alignment.                                               *)
MCWires == { LET once == s[1] \o s[2] IN once \o once \o once \o once :
               s \in [1 .. 2 -> Segments] }
=============================================================================
