----------------------------- MODULE RetryPolicy -----------------------------
(***************************************************************************)
(* The decisions of the retry loop of DakeraClient._request and            *)
(* AsyncDakeraClient._request: which requests count as idempotent, which   *)
(* exception an attempt comes to, and whether that exception lets the loop *)
(* try again when attempts are left.  No state: RequestRetry runs the loop *)
(* on these operators, Endpoints checks them against the catalogue of the  *)
(* client's operations.                                                    *)
(*                                                                         *)
(* A request is a record with at least the fields method and route; route  *)
(* is the path with each variable segment written {id}.                    *)
(***************************************************************************)
EXTENDS Integers

CONSTANTS
  ClientKind,           \* "sync" (requests) or "async" (httpx)
  RetryNonIdempotent    \* RetryConfig.retry_non_idempotent

ASSUME ClientKindAssumption == ClientKind \in {"sync", "async"}
ASSUME RetryNonIdempotentAssumption == RetryNonIdempotent \in BOOLEAN

-----------------------------------------------------------------------------
(* Classification of requests (_util.py).                                  *)

\* _IDEMPOTENT_METHODS
IdempotentMethods == {"GET", "HEAD", "PUT", "DELETE", "OPTIONS"}

\* Mutant: a pattern of the batch routes that forgets which of them writes.
ReadOnlyPostTooWide ==
  {"/v1/memory/recall", "/v1/memory/search", "/v1/memories/recall/batch",
   "/v1/memories/store/batch", "/v1/memories/extract"}

\* _READ_ONLY_POST: the paths its regular expression accepts.
ReadOnlyPost ==
  {"/v1/memory/recall", "/v1/memory/search",
   "/v1/memories/recall/batch", "/v1/memories/extract",
   "/v1/namespaces/{id}/query", "/v1/namespaces/{id}/batch-query",
   "/v1/namespaces/{id}/query-text", "/v1/namespaces/{id}/batch-query-text",
   "/v1/namespaces/{id}/fulltext/search", "/v1/namespaces/{id}/hybrid",
   "/v1/namespaces/{id}/unified-query", "/v1/namespaces/{id}/aggregate",
   "/v1/namespaces/{id}/vectors/count", "/v1/namespaces/{id}/multi-vector",
   "/v1/namespaces/{id}/explain",
   "/v1/knowledge/graph", "/v1/knowledge/graph/full",
   "/v1/knowledge/network/cross-agent",
   "/v1/route", "/v1/extract",
   "/v1/admin/quotas/{id}/check", "/admin/quotas/{id}/check"}

\* Mutant: POST among the methods whose repetition is harmless.
RetrySafeAnyPost(o) == o.method \in IdempotentMethods \cup {"POST"}

\* _retry_safe(method, path)
RetrySafe(o) ==
  \/ o.method \in IdempotentMethods
  \/ o.method = "POST" /\ o.route \in ReadOnlyPost

\* The local `idempotent` of _request; no caller passes the argument itself.
Idempotent(o) == RetrySafe(o) \/ RetryNonIdempotent

-----------------------------------------------------------------------------
(* From a response or a transport failure to an exception.                 *)

Success(status) == status \in 200..299

\* error_from_response: the class of the exception for an error status.
ErrorFromResponse(status) ==
  CASE status = 400 -> "ValidationError"
    [] status = 401 -> "AuthenticationError"
    [] status = 403 -> "AuthorizationError"
    [] status = 404 -> "NotFoundError"
    [] status = 409 -> "ConflictError"
    [] status = 413 -> "PayloadTooLargeError"
    [] status = 429 -> "RateLimitError"
    [] status = 501 -> "FeatureNotAvailableError"
    [] status = 503 -> "ServiceUnavailableError"
    [] status \in (500..599) \ {501, 503} -> "ServerError"
    [] OTHER -> "DakeraError"

ResponseErrors ==
  {"ValidationError", "AuthenticationError", "AuthorizationError",
   "NotFoundError", "ConflictError", "PayloadTooLargeError",
   "RateLimitError", "FeatureNotAvailableError", "ServiceUnavailableError",
   "ServerError", "DakeraError"}

\* What an except clause of the loop decides: the exception it would raise,
\* and whether it lets the loop go on when this is not the last attempt.
Verdict(raises, again) == [raises |-> raises, again |-> again]

\* Mutant: every ServerError is retried, as before the classification.
ResponseVerdictBlind(status, idempotent) ==
  LET error == ErrorFromResponse(status)
  IN  Verdict(error, error \in {"RateLimitError", "ServiceUnavailableError",
                                "ServerError"})

\* Mutant: a refusal is retried for an idempotent request only.
ResponseVerdictTimid(status, idempotent) ==
  LET error == ErrorFromResponse(status)
  IN  Verdict(error, /\ idempotent
                     /\ error \in {"RateLimitError", "ServiceUnavailableError",
                                   "ServerError"})

\* The clauses for (RateLimitError, ServiceUnavailableError), ServerError and
\* DakeraError, which are the same in both clients.
ResponseVerdict(status, idempotent) ==
  LET error == ErrorFromResponse(status)
  IN  Verdict(error, \/ error \in {"RateLimitError", "ServiceUnavailableError"}
                     \/ error = "ServerError" /\ idempotent)

\* Transport failures: before the request left, and after.  A read timeout
\* or a drop may come before or after the server acted; bodyLost is a
\* connection lost while the body of the response was being read.
ConnectFailures ==
  IF ClientKind = "sync" THEN {"refused", "connectTimeout"}
                         ELSE {"refused", "connectTimeout", "poolTimeout"}
SentFailures == {"readTimeout", "dropped", "bodyLost"}

\* Mutant: a read timeout is taken for a connect timeout.
SyncVerdictEager(failure, idempotent) ==
  IF failure = "readTimeout" THEN Verdict("TimeoutError", TRUE)
                             ELSE Verdict("ConnectionError", failure # "bodyLost")

\* Mutant: a read timeout is answered like a refusal by the server.
SyncVerdictRefusal(failure, idempotent) ==
  IF failure = "readTimeout"
    THEN Verdict("ServiceUnavailableError", idempotent)
    ELSE Verdict("ConnectionError", failure \in {"refused", "connectTimeout"})

\* requests: ConnectTimeout is a ConnectionError and _connect_failed knows it
\* and a refused connection; ChunkedEncodingError (bodyLost) is neither
\* ConnectionError nor Timeout, so no clause of the loop catches it.
SyncVerdict(failure, idempotent) ==
  CASE failure \in {"refused", "connectTimeout"} -> Verdict("ConnectionError", TRUE)
    [] failure = "dropped" -> Verdict("ConnectionError", idempotent)
    [] failure = "readTimeout" -> Verdict("TimeoutError", idempotent)
    [] failure = "bodyLost" -> Verdict("ChunkedEncodingError", FALSE)

\* Mutant: no clause for httpx.TransportError.
AsyncVerdictBare(failure, idempotent) ==
  CASE failure = "refused" -> Verdict("ConnectionError", TRUE)
    [] failure \in {"connectTimeout", "poolTimeout"} -> Verdict("TimeoutError", TRUE)
    [] failure = "readTimeout" -> Verdict("TimeoutError", idempotent)
    [] OTHER -> Verdict("ConnectionError", FALSE)

\* httpx: ConnectError, then TimeoutException split by `sent`, then any other
\* TransportError, which a body cut short is.
AsyncVerdict(failure, idempotent) ==
  CASE failure = "refused" -> Verdict("ConnectionError", TRUE)
    [] failure \in {"connectTimeout", "poolTimeout"} -> Verdict("TimeoutError", TRUE)
    [] failure = "readTimeout" -> Verdict("TimeoutError", idempotent)
    [] failure \in {"dropped", "bodyLost"} -> Verdict("ConnectionError", idempotent)

TransportVerdict(failure, idempotent) ==
  IF ClientKind = "sync" THEN SyncVerdict(failure, idempotent)
                         ELSE AsyncVerdict(failure, idempotent)

TransportErrors == {"ConnectionError", "TimeoutError", "ChunkedEncodingError"}
=============================================================================
