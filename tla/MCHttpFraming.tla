--------------------------- MODULE MCHttpFraming ----------------------------
(* Instances of HttpFraming for TLC.  The heads and bodies lie on both     *)
(* sides of HeadMax = 3, BodyMax = 8 and ReqMax - Chunk = 6.               *)
EXTENDS HttpFraming

Plain == [head |-> 2, syntax |-> TRUE, minor |-> 1, hosts |-> 1,
          lengths |-> <<>>, chunked |-> FALSE, expect |-> "none", body |-> 0]

Post(n) == [Plain EXCEPT !.lengths = <<n>>, !.body = n]

Good == {Plain, Post(2), Post(4), Post(5), [Post(2) EXCEPT !.expect = "continue"],
         [Plain EXCEPT !.minor = 0, !.hosts = 0, !.head = 1]}

Refused == {[Plain EXCEPT !.head = 4], [Plain EXCEPT !.syntax = FALSE],
            [Plain EXCEPT !.hosts = 0], Post(7), Post(9),
            [Plain EXCEPT !.chunked = TRUE, !.body = 2],
            [Post(1) EXCEPT !.lengths = <<1, 2>>],
            [Post(2) EXCEPT !.expect = "other"],
            [Post(2) EXCEPT !.expect = "continue", !.minor = 0]}

AllMessages == Good \cup Refused

FewMessages == {Post(2), [Post(2) EXCEPT !.expect = "continue"], Post(7)}
=============================================================================
