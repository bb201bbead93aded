--------------------------- MODULE MCRequestRetry ---------------------------
(***************************************************************************)
(* RequestRetry on small sets of operations: one of each kind that the     *)
(* loop treats differently, by method, route and effect on the server.     *)
(***************************************************************************)
EXTENDS RequestRetry

Operation(m, r, e) == [method |-> m, route |-> r, effect |-> e]

\* upsert, forget, recall, configure_namespace, delete_namespace
Upsert == Operation("POST", "/v1/namespaces/{id}/vectors", "set")
Forget == Operation("POST", "/v1/memory/forget", "remove")
Recall == Operation("POST", "/v1/memory/recall", "none")
ConfigureNamespace == Operation("PUT", "/v1/namespaces/{id}", "set")
DeleteNamespace == Operation("DELETE", "/v1/namespaces/{id}", "remove")

Writes == {Upsert, Forget, ConfigureNamespace, DeleteNamespace}
OnlyRead == {Recall}

FewStatuses == {200, 404, 429, 500}

=============================================================================
