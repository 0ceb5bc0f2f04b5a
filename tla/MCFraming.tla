------------------------------ MODULE MCFraming ------------------------------
(* Instances of Framing: bytes below 8, and one byte of header in a body.  *)
EXTENDS Framing

StartBytes == << 3, 4 >>

\* Bodies with start bytes in them, and without.
SomeBodies == {<< 0 >>, << 6 >>, << 3, 4 >>, << 0, 1, 0 >>}

=============================================================================
