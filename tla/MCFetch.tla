------------------------------ MODULE MCFetch -------------------------------
(* Instance of Fetch for TLC.                                              *)
EXTENDS Fetch

H(kind, v) == [k |-> kind, v |-> v]
R(status, headers, chunks, ends) ==
    [status |-> status, headers |-> headers, chunked |-> chunks, ends |-> ends]

(* Well-formed replies of each framing, replies at and past each limit,    *)
(* and malformed ones.                                                     *)
MCReplies == {
    R(TRUE, <<>>, FALSE, <<2>>),
    R(TRUE, <<H("length", 2)>>, FALSE, <<2>>),
    R(TRUE, <<H("other", 0), H("length", 2)>>, FALSE, <<3>>),
    R(TRUE, <<H("length", 3)>>, FALSE, <<2>>),
    R(TRUE, <<H("length", 1), H("length", 2)>>, FALSE, <<2>>),
    R(TRUE, <<H("badLength", 0)>>, FALSE, <<1>>),
    R(TRUE, <<H("badEncoding", 0)>>, FALSE, <<1>>),
    R(TRUE, <<H("chunked", 0)>>, TRUE, <<1, 3>>),
    R(TRUE, <<H("chunked", 0)>>, TRUE, <<3>>),
    R(TRUE, <<H("chunked", 0)>>, TRUE, <<2, 4>>),
    R(TRUE, <<H("chunked", 0)>>, TRUE, <<1, 2, 3>>),
    R(TRUE, <<H("chunked", 0), H("length", 1)>>, TRUE, <<1>>),
    R(TRUE, <<H("other", 0), H("other", 0), H("other", 0)>>, FALSE, <<1>>),
    R(TRUE, <<H("length", 4)>>, FALSE, <<4>>),
    R(TRUE, <<>>, FALSE, <<11>>),
    R(FALSE, <<H("length", 1)>>, FALSE, <<1>>) }

Q(url, host, secure, type, body) ==
    [url |-> url, host |-> host, secure |-> secure, type |-> type,
     head |-> 1, body |-> body]

MCRequests == {
    Q(TRUE, "a", FALSE, "none", 0), Q(TRUE, "a", TRUE, "safe", 2),
    Q(FALSE, "a", FALSE, "none", 0), Q(TRUE, "b", FALSE, "safe", 1),
    Q(TRUE, "a", FALSE, "unsafe", 1), Q(TRUE, "a", FALSE, "safe", 4) }

MCHosts == { <<>>, <<"linkLocal", "open", "open">>, <<"open">> }
MCAllows == { {}, {"a"} }
=============================================================================
