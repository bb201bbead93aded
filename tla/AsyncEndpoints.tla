---------------------------- MODULE AsyncEndpoints ----------------------------
(***************************************************************************)
(* The requests that the operations of AsyncDakeraClient make through      *)
(* _request, section by section of async_client.py, in the terms of        *)
(* Endpoints.  The two clients are written side by side, not one upon the  *)
(* other; how far they make the same requests is OneRequestApart, below.   *)
(***************************************************************************)
EXTENDS Endpoints

AsyncCapabilities ==
  Gets({"/v1/capabilities"})

AsyncVectors ==
  Queries({"/v1/namespaces/{id}/query", "/v1/namespaces/{id}/vectors/count",
           "/v1/namespaces/{id}/batch-query"})
    \cup PostSets({"/v1/namespaces/{id}/vectors", "/v1/namespaces/{id}/vectors/bulk-update"})
    \cup PostRemoves({"/v1/namespaces/{id}/vectors/delete",
                      "/v1/namespaces/{id}/vectors/bulk-delete"})

AsyncText ==
  Queries({"/v1/namespaces/{id}/query-text", "/v1/namespaces/{id}/batch-query-text",
           "/v1/namespaces/{id}/fulltext/search", "/v1/namespaces/{id}/hybrid"})
    \cup PostSets({"/v1/namespaces/{id}/upsert-text", "/v1/namespaces/{id}/fulltext/index"})

AsyncNamespaces ==
  Gets({"/v1/namespaces", "/v1/namespaces/{id}", "/health", "/health/ready",
        "/health/live"})
    \cup Adds({"/v1/namespaces"})
    \cup Puts({"/v1/namespaces/{id}"})
    \cup Deletes({"/v1/namespaces/{id}"})

AsyncAttachments ==
  Gets({"/v1/namespaces/{id}/attachments", "/v1/namespaces/{id}/attachments/{id}"})
    \cup Adds({"/v1/namespaces/{id}/attachments/{id}/transcribe"})
    \cup PostSets({"/v1/namespaces/{id}/attachments"})
    \cup Deletes({"/v1/namespaces/{id}/attachments/{id}"})

AsyncAttachmentJobs ==
  Gets({"/v1/namespaces/{id}/attachments/{id}/transcribe/{id}",
        "/v1/namespaces/{id}/attachments/{id}/index/{id}"})
    \cup Adds({"/v1/namespaces/{id}/attachments/{id}/index"})

AsyncImports ==
  Adds({"/v1/memory/documents", "/v1/namespaces/{id}/attachments/{id}/document"})

AsyncDocuments ==
  Gets({"/v1/memory/documents/jobs/{id}", "/v1/memory/documents",
        "/v1/memory/documents/{id}"})
    \cup Deletes({"/v1/memory/documents/{id}"})

AsyncRecords ==
  Gets({"/v1/namespaces/{id}/records/{id}", "/v1/namespaces/{id}"})
    \cup PostSets({"/v1/namespaces/{id}/records", "/ops/compact"})
    \cup Puts({"/v1/namespaces/{id}/config"})

AsyncStore ==
  Adds({"/v1/memory/store"})

AsyncRecall ==
  Queries({"/v1/memory/recall"})

AsyncMemories ==
  Gets({"/v1/memory/get/{id}"})
    \cup Queries({"/v1/memories/recall/batch"})
    \cup Adds({"/v1/memories/store/batch"})
    \cup PostRemoves({"/v1/memory/forget"})
    \cup Puts({"/v1/memory/update/{id}"})
    \cup Deletes({"/v1/memories/forget/batch"})

AsyncMaintained ==
  Queries({"/v1/memory/search"})
    \cup Adds({"/v1/agents/{id}/compress"})
    \cup PostSets({"/v1/memory/importance"})

AsyncConsolidation ==
  Gets({"/v1/agents/{id}/consolidation/log"})
    \cup Adds({"/v1/memory/consolidate", "/v1/agents/{id}/consolidate", "/v1/memory/feedback"})
    \cup Patches({"/v1/agents/{id}/consolidation/config"})

AsyncFeedback ==
  Gets({"/v1/memories/{id}/feedback", "/v1/agents/{id}/feedback/summary",
        "/v1/feedback/health"})
    \cup Adds({"/v1/memories/{id}/feedback"})
    \cup Patches({"/v1/memories/{id}/importance"})

AsyncGraph ==
  Gets({"/v1/memories/{id}/graph", "/v1/memories/{id}/path",
        "/v1/agents/{id}/graph/export"})
    \cup Adds({"/v1/memories/{id}/links"})

AsyncEntities ==
  Gets({"/v1/namespaces/{id}/config", "/v1/namespaces/{id}/extractor",
        "/v1/memory/entities/{id}"})
    \cup Queries({"/v1/memories/extract"})
    \cup Patches({"/v1/namespaces/{id}/config"})

AsyncSessions ==
  Gets({"/v1/sessions/{id}", "/v1/sessions", "/v1/sessions/{id}/memories"})
    \cup Adds({"/v1/sessions/start"})
    \cup PostSets({"/v1/sessions/{id}/end", "/v1/sessions/{id}/touch"})

AsyncAgents ==
  Gets({"/v1/agents", "/v1/agents/{id}/memories", "/v1/agents/{id}/stats",
        "/v1/agents/{id}/sessions", "/v1/agents/{id}/wake-up"})
    \cup PostSets({"/v1/agents", "/v1/namespaces/{id}/cache/warm"})

AsyncSearch ==
  Queries({"/v1/namespaces/{id}/multi-vector", "/v1/namespaces/{id}/unified-query"})

AsyncAggregation ==
  Queries({"/v1/namespaces/{id}/aggregate", "/v1/namespaces/{id}/export",
           "/v1/namespaces/{id}/explain"})
    \cup PostSets({"/v1/namespaces/{id}/upsert-columns"})

AsyncKnowledge ==
  Gets({"/v1/memory/deduplicated"})
    \cup Queries({"/v1/knowledge/graph", "/v1/knowledge/graph/full"})
    \cup Adds({"/v1/knowledge/summarize", "/v1/knowledge/deduplicate"})
    \cup PostSets({"/v1/memory/deduplicated/{id}/restore"})

AsyncKnowledgeQueries ==
  Gets({"/v1/knowledge/query", "/v1/knowledge/path", "/v1/knowledge/export"})

AsyncAnalytics ==
  Gets({"/v1/analytics/overview", "/v1/analytics/latency", "/v1/analytics/throughput",
        "/v1/analytics/storage", "/v1/ops/stats", "/v1/ops/metrics", "/debug/config"})

AsyncAdmin ==
  Gets({"/v1/admin/cluster/status", "/v1/admin/cluster/nodes", "/v1/admin/indexes/stats",
        "/v1/admin/cache/stats", "/v1/admin/config", "/v1/admin/quotas",
        "/v1/admin/slow-queries"})
    \cup PostSets({"/v1/admin/namespaces/{id}/optimize", "/v1/admin/indexes/rebuild",
                   "/v1/admin/cache/clear", "/v1/admin/cache/clear/{id}"})
    \cup Puts({"/v1/admin/config", "/v1/admin/quotas/default", "/v1/admin/quotas/{id}"})

AsyncAutopilot ==
  Gets({"/v1/admin/backups", "/v1/admin/autopilot/status"})
    \cup Adds({"/v1/admin/backups", "/v1/admin/backups/restore", "/v1/admin/autopilot/trigger"})
    \cup Puts({"/v1/admin/autopilot/config"})
    \cup Deletes({"/v1/admin/backups/{id}"})

AsyncDecay ==
  Gets({"/v1/admin/decay/config", "/v1/admin/decay/stats", "/v1/kpis"})
    \cup Adds({"/v1/admin/encryption/rotate-key"})
    \cup Puts({"/v1/admin/decay/config"})

AsyncKeys ==
  Gets({"/admin/keys", "/admin/keys/{id}", "/v1/auth/whoami", "/admin/keys/{id}/usage"})
    \cup Adds({"/admin/keys", "/admin/keys/{id}/rotate"})
    \cup PostSets({"/admin/keys/{id}/deactivate"})
    \cup Patches({"/admin/keys/{id}"})
    \cup Deletes({"/admin/keys/{id}"})

AsyncNetwork ==
  Queries({"/v1/knowledge/network/cross-agent"})

AsyncNamespaceKeys ==
  Gets({"/v1/namespaces/{id}/keys", "/v1/namespaces/{id}/keys/{id}/usage"})
    \cup Adds({"/v1/namespaces/{id}/keys"})
    \cup Patches({"/v1/namespaces/{id}/keys/{id}"})
    \cup Deletes({"/v1/namespaces/{id}/keys/{id}"})

AsyncTransfers ==
  Gets({"/v1/export"})
    \cup Adds({"/v1/import"})

AsyncAudit ==
  Gets({"/v1/audit", "/v1/audit/export"})
    \cup Queries({"/v1/extract"})
    \cup Patches({"/v1/namespaces/{id}/extractor"})

AsyncPolicies ==
  Gets({"/v1/namespaces/{id}/memory_policy"})
    \cup PostSets({"/v1/admin/fulltext/reindex"})
    \cup Puts({"/v1/namespaces/{id}/memory_policy"})

AsyncCluster ==
  Gets({"/v1/admin/cluster/replication", "/v1/admin/cluster/shards",
        "/v1/admin/cluster/maintenance", "/v1/admin/quotas", "/v1/admin/quotas/default",
        "/v1/admin/quotas/{id}", "/v1/admin/slow-queries",
        "/v1/admin/slow-queries/summary"})
    \cup Queries({"/v1/admin/quotas/{id}/check"})
    \cup Adds({"/v1/admin/cluster/shards/rebalance"})
    \cup PostSets({"/v1/admin/cluster/maintenance/enable",
                   "/v1/admin/cluster/maintenance/disable"})
    \cup Puts({"/v1/admin/quotas/default", "/v1/admin/quotas/{id}"})
    \cup Patches({"/v1/admin/slow-queries/config"})
    \cup Deletes({"/v1/admin/quotas/{id}", "/v1/admin/slow-queries"})

AsyncBackups ==
  Gets({"/v1/admin/backups", "/v1/admin/backups/{id}", "/v1/admin/backups/schedule",
        "/v1/admin/backups/restore/{id}", "/ops/diagnostics", "/ops/jobs",
        "/ops/jobs/{id}"})
    \cup Adds({"/v1/admin/backups", "/v1/admin/backups/restore"})
    \cup PostSets({"/v1/admin/backups/schedule", "/ops/compact", "/ops/shutdown"})
    \cup Deletes({"/v1/admin/backups/{id}"})

AsyncOperations ==
  Gets({"/v1/namespaces/{id}/fulltext/stats", "/v1/admin/ttl/stats",
        "/v1/import/{id}/status", "/v1/admin/storage/tiers",
        "/v1/admin/background-activity", "/v1/admin/memory-type-stats",
        "/v1/admin/reembed/static-count", "/v1/admin/derivations/status"})
    \cup Queries({"/v1/route"})
    \cup PostSets({"/v1/admin/namespaces/migrate-dimensions", "/v1/admin/reembed/drain",
                   "/v1/admin/derivations/drain"})
    \cup PostRemoves({"/v1/namespaces/{id}/fulltext/delete", "/v1/admin/ttl/cleanup"})

AsyncCatalogue ==
  UNION {AsyncCapabilities, AsyncVectors, AsyncText, AsyncNamespaces, AsyncAttachments,
         AsyncAttachmentJobs, AsyncImports, AsyncDocuments, AsyncRecords, AsyncStore,
         AsyncRecall, AsyncMemories, AsyncMaintained, AsyncConsolidation, AsyncFeedback,
         AsyncGraph, AsyncEntities, AsyncSessions, AsyncAgents, AsyncSearch,
         AsyncAggregation, AsyncKnowledge, AsyncKnowledgeQueries, AsyncAnalytics, AsyncAdmin,
         AsyncAutopilot, AsyncDecay, AsyncKeys, AsyncNetwork, AsyncNamespaceKeys,
         AsyncTransfers, AsyncAudit, AsyncPolicies, AsyncCluster, AsyncBackups,
         AsyncOperations}

\* An operation that is missing in one client, or makes another request there,
\* could be classified, and repeated, differently.  Only cache_clear differs: it
\* names a namespace in its path here, and in its body in the other client.
ASSUME OneRequestApart ==
  /\ Catalogue \subseteq AsyncCatalogue
  /\ AsyncCatalogue \ Catalogue = PostSets({"/v1/admin/cache/clear/{id}"})
=============================================================================
