------------------------- MODULE MC_HttpConnection -------------------------
(* Client scripts for HttpConnection. *)
EXTENDS HttpConnection

(* Two keep-alive requests, a GET and a POST of a one-byte form, then an *)
(* HTTP/1.0 GET whose keep-alive is ignored.                              *)
MCKeepAlive ==
    << <<"RL", "Hka", "END">>,
       <<"RLpost", "Hka", "Hcl", "Hform", "END", "B">>,
       <<"RL10", "Hka", "END">> >>

(* Two keep-alive GETs, to be sent back to back. *)
MCPipelined == << <<"RL", "Hka", "END">>, <<"RL", "Hka", "END">> >>

(* A GET that closes, then another request on the same stream. *)
MCCloseThenMore == << <<"RL", "Hclose", "END">>, <<"RL", "Hka", "END">> >>

(* A request with a non-numeric Content-Length. *)
MCBadLength == << <<"RLpost", "Hclx", "END">> >>

(* A keep-alive GET for a missing file, then a GET. *)
MCMissingKeepAlive == << <<"RL404", "Hka", "END">>, <<"RL", "END">> >>
====
