------------------------------ MODULE ToolDefs ------------------------------
(***************************************************************************)
(* The registry of the connectors' tools: which connector a tool belongs   *)
(* to and whether it reads or writes.  A read runs without asking, a write *)
(* is gated; some writes name the object they act on and so may carry a    *)
(* standing rule.                                                          *)
(***************************************************************************)
EXTENDS FiniteSets

Defs(connector, reads, writes) ==
  [connector |-> connector, reads |-> reads, writes |-> writes]

BrowserDefs == Defs("browser", {"browser_read_url", "browser_open_url",
  "browser_snapshot", "browser_get_text", "browser_wait",
  "browser_screenshot"}, {"browser_click", "browser_type", "browser_select",
  "browser_upload_file", "browser_close"})
GithubDefs == Defs("github", {"github_search", "github_get_issue",
  "github_list_commits", "github_clone", "github_pull"},
  {"github_create_issue", "github_reply", "github_review"})
EmailDefs == Defs("email", {"email_list_folders", "email_search",
  "email_read"}, {"email_download_attachment", "email_send"})
GmailDefs == Defs("gmail", {"gmail_search_messages", "gmail_get_message"},
  {"gmail_send_email"})
GoogleCalendarDefs == Defs("google_calendar", {"gcal_list_events",
  "gcal_free_busy"}, {"gcal_create_event", "gcal_update_event",
  "gcal_delete_event"})
OutlookDefs == Defs("outlook", {"outlook_search_messages",
  "outlook_list_events"}, {"outlook_send_mail", "outlook_create_event",
  "outlook_update_event", "outlook_delete_event", "outlook_respond_event"})
JiraDefs == Defs("jira", {"jira_search_issues", "jira_get_issue",
  "mcp__jira__getVisibleJiraProjects", "mcp__jira__searchJiraIssuesUsingJql",
  "mcp__jira__getJiraIssue", "mcp__jira__getTransitionsForJiraIssue"},
  {"jira_create_issue", "mcp__jira__createJiraIssue",
  "mcp__jira__editJiraIssue", "mcp__jira__addCommentToJiraIssue",
  "mcp__jira__transitionJiraIssue"})
MondayDefs == Defs("monday", {"mcp__monday__get_user_context",
  "mcp__monday__search", "mcp__monday__get_board_info",
  "mcp__monday__get_board_items_page", "mcp__monday__board_insights",
  "mcp__monday__get_updates"}, {"mcp__monday__create_item",
  "mcp__monday__change_item_column_values", "mcp__monday__create_update"})
AsanaDefs == Defs("asana", {"mcp__asana__get_me", "mcp__asana__search_tasks",
  "mcp__asana__get_task", "mcp__asana__get_my_tasks",
  "mcp__asana__get_project", "mcp__asana__get_status_overview"},
  {"mcp__asana__create_tasks", "mcp__asana__update_tasks",
  "mcp__asana__add_comment"})
ConfluenceDefs == Defs("confluence", {"confluence_search",
  "confluence_get_page"}, {"confluence_create_page"})
ZendeskDefs == Defs("zendesk", {"zendesk_search", "zendesk_get_ticket"},
  {"zendesk_create_ticket"})
LinearDefs == Defs("linear", {"linear_search_issues", "linear_get_issue",
  "linear_list_teams"}, {"linear_create_issue"})
GitlabDefs == Defs("gitlab", {"gitlab_search", "gitlab_get_issue",
  "gitlab_get_merge_request"}, {"gitlab_create_issue"})
DiscordDefs == Defs("discord", {"discord_list_channels",
  "discord_read_messages"}, {"discord_send_message"})
StripeDefs == Defs("stripe", {"stripe_search_customers",
  "stripe_list_charges", "stripe_list_invoices"}, {})
AsanaApiDefs == Defs("asana", {"asana_list_workspaces", "asana_search_tasks",
  "asana_get_task"}, {"asana_create_task"})
HubspotDefs == Defs("hubspot", {"hubspot_search", "hubspot_get_object"},
  {"hubspot_create_contact", "hubspot_update_object", "hubspot_log_note",
  "hubspot_create_task"})
DropboxDefs == Defs("dropbox", {"dropbox_search", "dropbox_list_folder",
  "dropbox_read_file"}, {})
BoxDefs == Defs("box", {"box_search", "box_list_folder", "box_read_file"}, {})
QuickbooksDefs == Defs("quickbooks", {"quickbooks_query",
  "quickbooks_list_customers", "quickbooks_list_invoices",
  "quickbooks_get_report"}, {})
WhatsappDefs == Defs("whatsapp", {}, {"whatsapp_send_message",
  "whatsapp_send_template"})
NotionDefs == Defs("notion", {"notion_search", "notion_read_page",
  "notion_query_database"}, {"notion_create_page"})
AttioDefs == Defs("attio", {"attio_list_objects", "attio_query_records",
  "attio_get_record"}, {"attio_create_note"})
PosthogDefs == Defs("posthog", {"posthog_query", "posthog_list_insights"}, {})
MixpanelDefs == Defs("mixpanel", {"mixpanel_segmentation",
  "mixpanel_top_events"}, {})
AmplitudeDefs == Defs("amplitude", {"amplitude_active_users",
  "amplitude_event_totals"}, {})
ApolloDefs == Defs("apollo", {"apollo_enrich_person", "apollo_enrich_company",
  "apollo_search_people"}, {})
HunterDefs == Defs("hunter", {"hunter_domain_search", "hunter_find_email",
  "hunter_verify_email"}, {})
ClickupDefs == Defs("clickup", {"clickup_list_teams", "clickup_list_spaces",
  "clickup_list_lists", "clickup_list_tasks", "clickup_get_task"},
  {"clickup_create_task", "clickup_update_task", "clickup_add_comment"})
CloseDefs == Defs("close", {"close_search_leads", "close_get_lead",
  "close_list_opportunities"}, {"close_create_lead",
  "close_update_opportunity", "close_log_note"})
FigmaDefs == Defs("figma", {"figma_get_file", "figma_get_comments",
  "figma_export_images"}, {"figma_post_comment"})
GoogleDriveDefs == Defs("google_drive", {"drive_search_files",
  "drive_list_folder", "drive_read_file"}, {})
DocusignDefs == Defs("docusign", {"docusign_list_envelopes",
  "docusign_get_envelope", "docusign_list_templates"},
  {"docusign_send_from_template"})
CanvaDefs == Defs("canva", {"canva_list_designs", "canva_get_design",
  "canva_export_design", "canva_get_export"}, {})

Registry ==
  {BrowserDefs, GithubDefs, EmailDefs, GmailDefs, GoogleCalendarDefs, OutlookDefs,
   JiraDefs, MondayDefs, AsanaDefs, ConfluenceDefs, ZendeskDefs, LinearDefs,
   GitlabDefs, DiscordDefs, StripeDefs, AsanaApiDefs, HubspotDefs, DropboxDefs,
   BoxDefs, QuickbooksDefs, WhatsappDefs, NotionDefs, AttioDefs, PosthogDefs,
   MixpanelDefs, AmplitudeDefs, ApolloDefs, HunterDefs, ClickupDefs, CloseDefs,
   FigmaDefs, GoogleDriveDefs, DocusignDefs, CanvaDefs}

Reads == UNION {d.reads : d \in Registry}
Writes == UNION {d.writes : d \in Registry}

ConnectorOf(tool) ==
  (CHOOSE d \in Registry : tool \in d.reads \union d.writes).connector

(* The tools that name their target, so that a standing rule can pin it.   *)
TargetArgs ==
  {"email_send", "gmail_send_email", "outlook_send_mail", "discord_send_message",
   "whatsapp_send_message", "whatsapp_send_template", "clickup_create_task",
   "clickup_update_task", "clickup_add_comment", "close_update_opportunity",
   "close_log_note", "figma_post_comment", "docusign_send_from_template"}

(* A mutant: the gate forgets that the registry decides.                   *)
ApprovalOfNone(tool) == FALSE

(* Whether a call of a tool goes through the permission gate.              *)
ApprovalForTool(tool) == tool \notin Reads

(* The connectors with two sets of tools, of which a profile exposes one:   *)
(* the API's, or the pinned ones of the vendor's MCP server.                *)
TwoSets == {"jira", "asana"}
ApiToolsActive(connector, mode) == connector \in TwoSets => mode # "mcp"

=============================================================================
