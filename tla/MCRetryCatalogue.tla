-------------------------- MODULE MCRetryCatalogue --------------------------
(***************************************************************************)
(* RequestRetry where the one call may be any request of the asynchronous  *)
(* client, whose catalogue includes the other client's: the classification *)
(* of _util.py against what the routes do.                                 *)
(***************************************************************************)
EXTENDS RequestRetry, AsyncEndpoints

OneStatusOfEachKind == {200, 400, 404, 429, 500, 503}
=============================================================================
