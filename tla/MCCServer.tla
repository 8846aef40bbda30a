----------------------------- MODULE MCCServer ------------------------------
EXTENDS CServer

CONSTANTS s1, s2

(***************************************************************************)
(* One peer sends three messages, as many as exceed the send queue, one of *)
(* them empty, or one message of MAX_LENGTH = 4 bytes.  The other sends a  *)
(* message and then the header of one that is too long, or the header of a *)
(* message of negative length.  Reads are short enough for every cut to    *)
(* happen: in a header, in a body, between messages, and for the end of    *)
(* one message, a whole one and a part of the next to come in one read.    *)
(***************************************************************************)
MCScripts ==
  (s1 :> {Wire(<< <<11>>, << >>, <<31, 32>> >>), Wire(<< <<1, 2, 3, 4>> >>)}) @@
  (s2 :> {<<0, 1, 21, 0, 5>>, <<255, 255, 22>>, <<128, 0>>})
=============================================================================
