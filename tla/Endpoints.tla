------------------------------ MODULE Endpoints ------------------------------
(***************************************************************************)
(* The requests that the operations of DakeraClient make through _request, *)
(* section by section of client.py: method, route, and what the request    *)
(* does on the server as the operation's docstring has it.                 *)
(*                                                                         *)
(*   none    it only reads                                                 *)
(*   set     a second execution leaves what the first one left             *)
(*   add     every execution adds or moves something again: a memory, a    *)
(*           job, a key, a session, a backup, a feedback signal            *)
(*   remove  it deletes, and finds nothing left the second time            *)
(*                                                                         *)
(* The operations that bypass _request (readiness probes, the event        *)
(* streams, ode_extract_entities, download_backup, upload_backup) are not  *)
(* here: they are never retried.                                           *)
(***************************************************************************)

Requests(method, effect, routes) ==
  [method : {method}, route : routes, effect : {effect}]

Gets(routes) == Requests("GET", "none", routes)
Queries(routes) == Requests("POST", "none", routes)
Adds(routes) == Requests("POST", "add", routes)
PostSets(routes) == Requests("POST", "set", routes)
PostRemoves(routes) == Requests("POST", "remove", routes)
Puts(routes) == Requests("PUT", "set", routes)
Patches(routes) == Requests("PATCH", "set", routes)
Deletes(routes) == Requests("DELETE", "remove", routes)

-----------------------------------------------------------------------------
(* Vectors, text and full text.                                            *)

VectorOps ==
  PostSets({"/v1/namespaces/{id}/vectors"}) \cup Queries({"/v1/namespaces/{id}/query"})
    \cup PostRemoves({"/v1/namespaces/{id}/vectors/delete",
                      "/v1/namespaces/{id}/vectors/bulk-delete"})

VectorBulkOps ==
  PostSets({"/v1/namespaces/{id}/vectors/bulk-update"})
    \cup Queries({"/v1/namespaces/{id}/vectors/count", "/v1/namespaces/{id}/batch-query"})

TextOps ==
  PostSets({"/v1/namespaces/{id}/upsert-text"})
    \cup Queries({"/v1/namespaces/{id}/query-text", "/v1/namespaces/{id}/batch-query-text"})

FullTextOps ==
  PostSets({"/v1/namespaces/{id}/fulltext/index"})
    \cup Queries({"/v1/namespaces/{id}/fulltext/search", "/v1/namespaces/{id}/hybrid"})

SearchOps ==
  Queries({"/v1/namespaces/{id}/multi-vector", "/v1/namespaces/{id}/unified-query",
           "/v1/namespaces/{id}/aggregate"})

ExportOps ==
  Queries({"/v1/namespaces/{id}/export", "/v1/namespaces/{id}/explain"})
    \cup PostSets({"/v1/namespaces/{id}/upsert-columns", "/v1/namespaces/{id}/cache/warm"})

-----------------------------------------------------------------------------
(* Namespaces, attachments, documents and records.                         *)

CapabilityOps == Gets({"/v1/capabilities"})

NamespaceOps ==
  Gets({"/v1/namespaces", "/v1/namespaces/{id}",
        "/health", "/health/ready", "/health/live"})
    \cup Adds({"/v1/namespaces"})
    \cup Puts({"/v1/namespaces/{id}"}) \cup Deletes({"/v1/namespaces/{id}"})

AttachmentOps ==
  PostSets({"/v1/namespaces/{id}/attachments"})
    \cup Gets({"/v1/namespaces/{id}/attachments", "/v1/namespaces/{id}/attachments/{id}"})
    \cup Deletes({"/v1/namespaces/{id}/attachments/{id}"})

AttachmentJobOps ==
  Adds({"/v1/namespaces/{id}/attachments/{id}/transcribe",
        "/v1/namespaces/{id}/attachments/{id}/index"})
    \cup Gets({"/v1/namespaces/{id}/attachments/{id}/transcribe/{id}",
               "/v1/namespaces/{id}/attachments/{id}/index/{id}"})

DocumentImportOps ==
  Adds({"/v1/memory/documents", "/v1/namespaces/{id}/attachments/{id}/document"})

DocumentOps ==
  Gets({"/v1/memory/documents", "/v1/memory/documents/{id}", "/v1/memory/documents/jobs/{id}"})
    \cup Deletes({"/v1/memory/documents/{id}"})

RecordOps ==
  PostSets({"/v1/namespaces/{id}/records", "/ops/compact"})
    \cup Gets({"/v1/namespaces/{id}/records/{id}"})
    \cup Puts({"/v1/namespaces/{id}/config"})

-----------------------------------------------------------------------------
(* Memories, feedback, graph, entities, sessions, agents and knowledge.    *)

StoreOps == Adds({"/v1/memory/store"})

RecallOps == Queries({"/v1/memory/recall"})

MemoryOps ==
  Gets({"/v1/memory/get/{id}"}) \cup Puts({"/v1/memory/update/{id}"})
    \cup PostRemoves({"/v1/memory/forget"}) \cup Queries({"/v1/memories/recall/batch"})
    \cup Deletes({"/v1/memories/forget/batch"}) \cup Adds({"/v1/memories/store/batch"})

ConsolidationOps ==
  Queries({"/v1/memory/search"}) \cup PostSets({"/v1/memory/importance"})
    \cup Adds({"/v1/agents/{id}/compress", "/v1/memory/consolidate",
               "/v1/agents/{id}/consolidate"})
    \cup Gets({"/v1/agents/{id}/consolidation/log"})

FeedbackOps ==
  Patches({"/v1/agents/{id}/consolidation/config", "/v1/memories/{id}/importance"})
    \cup Adds({"/v1/memory/feedback", "/v1/memories/{id}/feedback"})
    \cup Gets({"/v1/memories/{id}/feedback", "/v1/agents/{id}/feedback/summary",
               "/v1/feedback/health"})

GraphOps ==
  Gets({"/v1/memories/{id}/graph", "/v1/memories/{id}/path", "/v1/agents/{id}/graph/export"})
    \cup Adds({"/v1/memories/{id}/links"})

EntityOps ==
  Gets({"/v1/namespaces/{id}/config", "/v1/namespaces/{id}/extractor",
        "/v1/memory/entities/{id}"})
    \cup Patches({"/v1/namespaces/{id}/config"}) \cup Queries({"/v1/memories/extract"})

SessionOps ==
  Adds({"/v1/sessions/start"})
    \cup PostSets({"/v1/sessions/{id}/end", "/v1/sessions/{id}/touch"})
    \cup Gets({"/v1/sessions/{id}", "/v1/sessions", "/v1/sessions/{id}/memories"})

AgentOps ==
  PostSets({"/v1/agents"})
    \cup Gets({"/v1/agents", "/v1/agents/{id}/memories", "/v1/agents/{id}/stats",
               "/v1/agents/{id}/sessions", "/v1/agents/{id}/wake-up"})

KnowledgeOps ==
  Queries({"/v1/knowledge/graph", "/v1/knowledge/graph/full"})
    \cup Adds({"/v1/knowledge/summarize", "/v1/knowledge/deduplicate"})
    \cup PostSets({"/v1/memory/deduplicated/{id}/restore"})
    \cup Gets({"/v1/memory/deduplicated"})

KnowledgeQueryOps ==
  Gets({"/v1/knowledge/query", "/v1/knowledge/path", "/v1/knowledge/export",
        "/v1/analytics/overview", "/v1/analytics/latency",
        "/v1/analytics/throughput", "/v1/analytics/storage"})

-----------------------------------------------------------------------------
(* Keys, transfer, audit, extraction and policy.                           *)

KeyOps ==
  Adds({"/admin/keys", "/admin/keys/{id}/rotate"}) \cup PostSets({"/admin/keys/{id}/deactivate"})
    \cup Gets({"/admin/keys", "/admin/keys/{id}", "/admin/keys/{id}/usage", "/v1/auth/whoami"})
    \cup Deletes({"/admin/keys/{id}"}) \cup Patches({"/admin/keys/{id}"})

NetworkOps ==
  Queries({"/v1/knowledge/network/cross-agent"})
    \cup Adds({"/v1/namespaces/{id}/keys"}) \cup Patches({"/v1/namespaces/{id}/keys/{id}"})
    \cup Gets({"/v1/namespaces/{id}/keys", "/v1/namespaces/{id}/keys/{id}/usage"})
    \cup Deletes({"/v1/namespaces/{id}/keys/{id}"})

TransferOps == Adds({"/v1/import"}) \cup Gets({"/v1/export"})

AuditOps == Gets({"/v1/audit", "/v1/audit/export"})

PolicyOps ==
  Queries({"/v1/extract"}) \cup Patches({"/v1/namespaces/{id}/extractor"})
    \cup Gets({"/v1/namespaces/{id}/memory_policy"})
    \cup Puts({"/v1/namespaces/{id}/memory_policy"})
    \cup PostSets({"/v1/admin/fulltext/reindex"})

-----------------------------------------------------------------------------
(* Administration and operations.                                          *)

AdminOps ==
  Gets({"/v1/ops/stats", "/v1/ops/metrics", "/debug/config", "/v1/admin/cluster/status",
        "/v1/admin/cluster/nodes", "/v1/admin/indexes/stats", "/v1/admin/cache/stats",
        "/v1/admin/config", "/v1/admin/quotas", "/v1/admin/slow-queries"})
    \cup PostSets({"/v1/admin/namespaces/{id}/optimize", "/v1/admin/indexes/rebuild",
                   "/v1/admin/cache/clear"})
    \cup Puts({"/v1/admin/config", "/v1/admin/quotas/default", "/v1/admin/quotas/{id}"})

BackupOps ==
  Adds({"/v1/admin/backups", "/v1/admin/backups/restore", "/v1/admin/autopilot/trigger"})
    \cup Gets({"/v1/admin/backups", "/v1/admin/autopilot/status"})
    \cup Deletes({"/v1/admin/backups/{id}"})
    \cup Puts({"/v1/admin/autopilot/config"})

DecayOps ==
  Gets({"/v1/admin/decay/config", "/v1/admin/decay/stats", "/v1/kpis"})
    \cup Puts({"/v1/admin/decay/config"}) \cup Adds({"/v1/admin/encryption/rotate-key"})

ClusterOps ==
  Gets({"/v1/admin/cluster/replication", "/v1/admin/cluster/shards",
        "/v1/admin/cluster/maintenance", "/v1/admin/quotas/default", "/v1/admin/quotas/{id}",
        "/v1/admin/slow-queries/summary"})
    \cup Adds({"/v1/admin/cluster/shards/rebalance"})
    \cup PostSets({"/v1/admin/cluster/maintenance/enable",
                   "/v1/admin/cluster/maintenance/disable"})
    \cup Deletes({"/v1/admin/quotas/{id}", "/v1/admin/slow-queries"})
    \cup Queries({"/v1/admin/quotas/{id}/check"})
    \cup Patches({"/v1/admin/slow-queries/config"})

BackupScheduleOps ==
  Gets({"/v1/admin/backups/{id}", "/v1/admin/backups/schedule",
        "/v1/admin/backups/restore/{id}",
        "/ops/diagnostics", "/ops/jobs", "/ops/jobs/{id}"})
    \cup PostSets({"/v1/admin/backups/schedule", "/ops/shutdown"})

MaintenanceOps ==
  Gets({"/v1/namespaces/{id}/fulltext/stats", "/v1/admin/ttl/stats",
        "/v1/import/{id}/status",
        "/v1/admin/storage/tiers", "/v1/admin/background-activity",
        "/v1/admin/memory-type-stats", "/v1/admin/reembed/static-count",
        "/v1/admin/derivations/status"})
    \cup PostRemoves({"/v1/namespaces/{id}/fulltext/delete", "/v1/admin/ttl/cleanup"})
    \cup Queries({"/v1/route"})
    \cup PostSets({"/v1/admin/namespaces/migrate-dimensions", "/v1/admin/reembed/drain",
                   "/v1/admin/derivations/drain"})

Catalogue ==
  UNION {VectorOps, VectorBulkOps, TextOps, FullTextOps, SearchOps, ExportOps,
         CapabilityOps, NamespaceOps, AttachmentOps, AttachmentJobOps, DocumentImportOps,
         DocumentOps, RecordOps, StoreOps, RecallOps, MemoryOps, ConsolidationOps, FeedbackOps,
         GraphOps, EntityOps, SessionOps, AgentOps, KnowledgeOps, KnowledgeQueryOps,
         KeyOps, NetworkOps, TransferOps, AuditOps, PolicyOps, AdminOps, BackupOps,
         DecayOps, ClusterOps, BackupScheduleOps, MaintenanceOps}
=============================================================================
