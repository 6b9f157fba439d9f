--------------------------- MODULE OwnershipPairs ---------------------------
(***************************************************************************)
(* The ownership pairs of deploy/tools/assemble-release.sh. A pair is one  *)
(* group of routes that moves from Node (noevia-core) to the Rust front    *)
(* (noevia-rs) as a whole: Core's server/rust-<name>.cjs refuses them, the *)
(* front lists the capability in FEATURES, and contracts/http/routes.toml  *)
(* gives it the routes. This module is the table of what each guard of the *)
(* script demands, the value of ReleaseGuards' Table.                      *)
(*                                                                         *)
(* want    the routes the moved front must own, path -> methods, no more   *)
(* needs   the other capabilities the moved front must list                *)
(* checks  what else is read of the two trees:                             *)
(*   "old"      before the move the routes must be Node's in routes.toml   *)
(*   "refusal"  Core's file refuses exactly the routes of want             *)
(*   "handler"  the moved Core has lost its own handler (or worker, store) *)
(*   "bridge"   the moved Core offers the front what it still keeps: facts *)
(*              mounted with the front's secret, a shared lock or file     *)
(*   "optional" the whole block is skipped when there is no routes.toml    *)
(***************************************************************************)
EXTENDS TLC

Every == {"ALL"}     \* a row without a methods key: all of them

Whole(paths)       == [q \in paths |-> Every]
Only(meth, paths)  == [q \in paths |-> {meth}]
Nothing            == [q \in {} |-> Every]

Pair(want, needs, checks) == [want |-> want, needs |-> needs, checks |-> checks]

Open    == {}
Refused == {"refusal", "handler"}
Shut    == {"old", "refusal", "handler", "bridge"}

DiaryPairs ==
  "rust-feature-owner" :> Pair(Whole({"/api/features", "/api/admin/features",
      "/api/admin/features/{name}"}), {}, Open)
  @@ "rust-diary" :> Pair(Whole({"/api/diary/source", "/api/diary/today",
      "/api/diary/storage-import", "/api/diary/workspace-export",
      "/api/diary/workspace-import"}), {}, Open)
  @@ "rust-diary-local-exchange" :>
      Pair(Whole({"/api/diary/local-exchange"}), {}, {"bridge"})
  @@ "rust-diary-routes" :> Pair(
      Whole({"/api/diary", "/api/diary-connector", "/api/diary/storage-status"})
      @@ [q \in {"/api/diary/context", "/api/diary/exchanges",
                 "/api/profile/diary-connectors"} |-> {"GET", "POST"}]
      @@ Only("DELETE", {"/api/profile/diary-connectors/{*}"}), {}, {"handler"})

ProjectPairs ==
  "rust-model-reads" :> Pair(
      Only("GET", {"/api/models/capabilities", "/api/models/hardware"}), {}, Open)
  @@ "rust-project-reads" :> Pair(Only("GET", {"/api/projects/{id}/sources/text",
      "/api/projects/{id}/documents/original", "/api/projects/{id}/{*}/original"}), {}, Open)
  @@ "rust-project-lifecycle" :> Pair(Only("POST", {"/api/projects"})
      @@ Only("DELETE", {"/api/projects/{projectId}"}), {}, Open)
  @@ "rust-project-storage" :> Pair(Nothing, {"rust-project-lifecycle"}, Open)
  @@ "rust-project-files" :> Pair(
      Only("DELETE", {"/api/projects/{id}/files"}), {"rust-project-storage"}, Open)
  @@ "rust-project-config" :> Pair(
      Only("POST", {"/api/projects/{projectId}/config", "/api/projects/{project}/skills/install"})
      @@ Only("GET", {"/api/projects/{projectId}/instruction-skills/manifests",
            "/api/projects/{projectId}/instruction-skills/manifests/{skillId}/content"})
      @@ ("/api/projects/{projectId}/instruction-skills" :> {"GET", "PUT"}),
      {}, Refused \cup {"bridge"})

TaskPairs ==
  "rust-research" :> Pair(Whole({"/api/projects/{projectId}/research",
      "/api/projects/{projectId}/research/plan", "/api/projects/{projectId}/research/{job}",
      "/api/projects/{projectId}/research/{job}/cancel",
      "/api/projects/{projectId}/research/{job}/save"}), {}, Shut \cup {"optional"})
  @@ "rust-task-reads" :> Pair(Whole({"/api/code/active"})
      @@ Only("GET", {"/api/projects/{projectId}/code", "/api/projects/{projectId}/code/{task}",
            "/api/projects/{projectId}/browser", "/api/projects/{projectId}/browser/{task}"}),
      {}, Shut \cup {"optional"})
  @@ "rust-model-manager-scan" :> Pair(Only("GET", {"/api/model-manager/models"}), {}, Shut)

CalibrationPairs ==
  "rust-calibration-cancel" :> Pair(Whole({"/api/models/calibration/cancel"}), {}, Shut)
  @@ "rust-calibration-routes" :> Pair(Whole({"/api/models/calibration"}), {}, Shut)
  @@ "rust-autotune-settings" :> Pair(Whole({"/api/models/autotune/settings"}), {}, Shut)
  @@ "rust-tool-approvals" :> Pair(
      Only("POST", {"/api/tool-approvals/{approvalId}"}), {}, Shut \cup {"optional"})
  @@ "rust-toolbox-picker" :> Pair(Whole({"/api/toolboxes"}), {}, Shut)

ModelReadPairs ==
  "rust-autotune-read" :> Pair(Only("GET", {"/api/models/autotune"}), {}, Shut)
  @@ "rust-idle-unload-read" :> Pair(Only("GET", {"/api/models/idle-unload"}), {}, Shut)
  @@ "rust-model-assignments" :> Pair(Only("GET", {"/api/models/assignments"}), {}, Shut)
  @@ "rust-model-downloads-read" :> Pair(Only("GET", {"/api/models/downloads"}), {}, Shut)
  @@ "rust-preset-read" :> Pair(Only("GET", {"/api/models/preset"}), {}, Shut)

AutotunePairs ==
  "rust-autotune-clear" :> Pair(Whole({"/api/models/autotune/clear"}), {}, Shut)
  @@ "rust-autotune-resume" :> Pair(Whole({"/api/models/autotune/resume"}), {}, Shut)

AutotuneRunPairs ==
  "rust-autotune-cancel" :> Pair(Whole({"/api/models/autotune/cancel"}), {}, Shut)
  @@ "rust-autotune-untuned" :> Pair(Whole({"/api/models/autotune/untuned"}), {}, Shut)

DocumentPairs ==
  "rust-admin-users" :> Pair(Only("DELETE", {"/api/admin/users/{id}"}), {}, Refused)
  @@ "rust-project-document-pages" :> Pair(
      Only("GET", {"/api/projects/{id}/documents/pages"}), {}, Open)
  @@ "rust-conversation-import" :> Pair(
      Only("POST", {"/api/import/conversations"}), {"rust-project-lifecycle"}, Open)
  @@ "rust-project-documents" :> Pair(
      Only("POST", {"/api/projects/{id}/documents"}), {"rust-document-extraction"}, Open)

PublicPairs ==
  "rust-public-pages" :> Pair(
      [q \in {"/about", "/privacy"} |-> {"GET", "HEAD"}] @@ Whole({"/device"}), {}, Open)
  @@ "rust-plugin-directory" :> Pair(Whole({"/api/plugins/directory"}), {}, Open)
  @@ "rust-health" :> Pair(Only("GET", {"/api/health"}), {}, Open)
  @@ "rust-auto-roles" :> Pair(Only("GET", {"/api/auto-roles"}), {}, Open)
  @@ "rust-workspace" :> Pair(Only("GET", {"/api/workspace"}), {}, Open)
  @@ "rust-chat-search" :> Pair(Only("GET", {"/api/chats/search"}), {}, Refused)
  @@ "rust-chat-export" :> Pair(Only("GET", {"/api/chats/{chatId}/export"}), {}, Refused)
  @@ "rust-decision-settings" :> Pair(Whole({"/api/admin/decision-settings",
      "/api/admin/decision-settings/test"}), {}, Open)

StoragePairs ==
  "rust-storage-integrations" :> Pair(Only("POST", {"/api/integrations/storage/folder",
      "/api/integrations/storage/test", "/api/integrations/storage/nextcloud/start",
      "/api/integrations/storage/nextcloud/poll",
      "/api/integrations/storage/nextcloud/cancel"}), {}, Open)
  @@ "rust-vault-mirror-preferences" :> Pair(
      Whole({"/api/chat-vault-mirror/preferences"}), {}, Open)
  @@ "rust-storage-connection" :> Pair(
      "/api/integrations/storage" :> {"GET", "PUT"}, {}, Open)
  @@ "rust-providers" :> Pair(
      "/api/providers" :> {"GET", "POST"}
      @@ "/api/providers/{id}" :> {"PUT", "DELETE"}
      @@ "/api/providers/chatgpt" :> {"DELETE", "GET"}
      @@ "/api/providers/test" :> {"DELETE", "POST", "PUT"},
      {"rust-providers-reseal"}, Open)
  @@ "rust-providers-reseal" :> Pair(Nothing, {"rust-providers"}, {"bridge"})

ProviderPairs ==
  "rust-provider-test" :> Pair(Only("POST", {"/api/providers/test"}), {}, Open)
  @@ "rust-chatgpt-oauth" :> Pair(
      Only("POST", {"/api/providers/chatgpt/device", "/api/providers/chatgpt/device/poll",
            "/api/providers/chatgpt/device/cancel"})
      @@ Only("GET", {"/api/providers/chatgpt/models"}), {}, Open)
  @@ "rust-mcp-credentials" :> Pair(
      Only("GET", {"/api/mcp-keys/servers", "/api/mcp-oauth/servers", "/api/mcp-oauth/callback"})
      @@ ("/api/mcp-keys/{*}" :> {"DELETE", "PUT"})
      @@ Only("DELETE", {"/api/mcp-oauth/{id}"})
      @@ Only("POST", {"/api/mcp-oauth/{id}/connect"}), {}, {"bridge"})

ConnectorPairs ==
  "rust-mcp-directory" :> Pair(Whole({"/api/admin/mcp-directory",
      "/api/admin/mcp-directory/custom", "/api/admin/mcp-directory/custom/preview",
      "/api/admin/mcp-directory/{*}", "/api/admin/mcp-directory/{*}/keys",
      "/api/admin/mcp-directory/{id}/oauth-client"}), {}, {"handler", "bridge"})
  @@ "rust-toolboxes-permitted" :> Pair(
      Whole({"/api/toolboxes/permitted"}), {}, {"bridge"})
  @@ "rust-connectors" :> Pair(Only("GET", {"/api/connectors"})
      @@ Only("PUT", {"/api/connectors/nextcloud/policy"}), {}, {"bridge"})
  @@ "rust-provider-models" :> Pair(
      Whole({"/api/providers/{providerId}/models{*?}"}), {}, Open)
  @@ "rust-google-drive" :> Pair(
      Only("POST", {"/api/connectors/gdrive/connect", "/api/connectors/gdrive/disconnect"})
      @@ Only("PUT", {"/api/connectors/gdrive/policy", "/api/connectors/gdrive/backup-copy"}),
      {}, Open)

ModelStatePairs ==
  "rust-offsite-backup" :> Pair(Whole({"/api/admin/offsite-backup",
      "/api/admin/offsite-backup/copy", "/api/admin/offsite-backup/google/connect",
      "/api/admin/offsite-backup/google/disconnect", "/api/admin/offsite-backup/new-store",
      "/api/admin/offsite-backup/recovery-key", "/api/admin/offsite-backup/run",
      "/api/admin/offsite-backup/verify"}), {}, Open)
  @@ "rust-model-sizing" :> Pair(
      Only("GET", {"/api/models/estimate", "/api/models/preset/suggest"}), {}, Open)
  @@ "rust-model-state-reads" :> Pair(
      Only("GET", {"/api/models/inference-budget", "/api/models/installed"}),
      {}, Shut \cup {"optional"})
  @@ "rust-model-maintenance" :> Pair(
      Only("POST", {"/api/models/presets/reload", "/api/models/evidence/import"})
      @@ Only("GET", {"/api/models/evidence"}), {}, Open)

SourcePairs ==
  "rust-model-evidence-recheck" :> Pair(Only("POST", {"/api/models/evidence/recheck"}),
      {"rust-model-maintenance"}, Shut \cup {"optional"})
  @@ "rust-large-document-host-lock" :> Pair(Nothing, {}, {"bridge"})
  @@ "rust-project-source-work" :> Pair(
      Only("POST", {"/api/projects/{id}/upload", "/api/projects/{id}/sources/sync",
            "/api/projects/{id}/folder-import/plan"}),
      {"rust-source-jobs", "rust-document-extraction", "rust-large-document-host-lock"},
      {"handler", "bridge"})
  @@ "rust-source-jobs" :> Pair(
      Only("POST", {"/api/projects/{id}/upload", "/api/projects/{id}/sources/sync"})
      @@ Only("GET", {"/api/projects/{id}/source-jobs/{jobId}"}), {}, {"handler"})

PairTable ==
  DiaryPairs @@ ProjectPairs @@ TaskPairs @@ CalibrationPairs @@ ModelReadPairs
    @@ AutotunePairs @@ AutotuneRunPairs @@ DocumentPairs @@ PublicPairs @@ StoragePairs
    @@ ProviderPairs @@ ConnectorPairs @@ ModelStatePairs @@ SourcePairs
=============================================================================
