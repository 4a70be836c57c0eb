--------------------------- MODULE ConnectorTools ---------------------------
(***************************************************************************)
(* What each connector tool does: whose credentials it takes, and the      *)
(* requests it sends, in order.  A request is told by what it may do:      *)
(*                                                                         *)
(*   "read"      changes nothing; its failure is the call's failure        *)
(*   "glance"    changes nothing; its failure is swallowed                 *)
(*   "change"    changes something at the service                          *)
(*   "job"       starts an export at the service                           *)
(*   "page"      moves or fills in the shared browser page                 *)
(*   "disk"      writes files on this machine                              *)
(*   "discover"  finds the account's address once and saves it in the      *)
(*               profile                                                   *)
(*   "filters"   hides mail the user never shows to agents                 *)
(***************************************************************************)
EXTENDS Sequences

(* A tool of a connector: the credentials it takes and the steps it runs.  *)
(* "refuses" is whether it checks its arguments and may refuse the call.   *)
Uses(profile, steps) == [profile |-> profile, steps |-> steps, refuses |-> FALSE]
Checked(tool) == [tool EXCEPT !.refuses = TRUE]

Read == <<"read">>
Change == <<"change">>

(* Sources of credentials: one profile per connector, or a named or        *)
(* default account; the last three have helpers of their own.  GitHub      *)
(* takes a personal token, or mints one of an installation of its App.     *)
NoProfile(steps) == Uses("none", steps)
Default(steps) == Uses("default", steps)
Account(steps) == Uses("account", steps)
Gmail(steps) == Uses("gmail", steps)
Calendar(steps) == Uses("calendar", steps)
Hubspot(steps) == Uses("hubspot", steps)
Github(steps) == Uses("github", steps)

-----------------------------------------------------------------------------
(* The browser: a public page by HTTP, and the page of a shared Playwright *)
(* session.                                                                *)
BrowserReading == [browser_read_url |-> Checked(NoProfile(Read))]

BrowserViewing ==
  [browser_open_url |-> Checked(NoProfile(<<"page">>)),
   browser_snapshot |-> NoProfile(Read),
   browser_get_text |-> NoProfile(Read)]

BrowserActing ==
  [browser_click |-> NoProfile(Change),
   browser_type |-> NoProfile(<<"page">>),
   browser_select |-> NoProfile(<<"page">>),
   browser_upload_file |-> Checked(NoProfile(<<"page">>))]

BrowserWaiting ==
  [browser_wait |-> NoProfile(Read),
   browser_screenshot |-> NoProfile(<<"disk">>),
   browser_close |-> NoProfile(<<"page">>)]

(* Mail over IMAP and SMTP: each call logs in, reads without marking, and  *)
(* a message is sent once, with nothing after it.                          *)
EmailReading ==
  [email_list_folders |-> Default(<<"read", "read", "glance">>),
   email_search |-> Checked(Default(<<"read", "read", "glance">>)),
   email_read |-> Default(<<"read", "read", "read">>)]

EmailDownload ==
  [email_download_attachment |-> Checked(Default(<<"read", "read", "read", "disk">>))]

EmailSend == [email_send |-> Checked(Default(<<"read", "read", "change">>))]

(* GitHub.  A clone and a pull write into the session's directories; the   *)
(* clone needs no credentials for a public repository.                     *)
GithubIssues ==
  [github_search |-> Github(Read), github_get_issue |-> Github(Read),
   github_create_issue |-> Github(Change)]

GithubReviews ==
  [github_reply |-> Github(Change), github_review |-> Checked(Github(Change)),
   github_list_commits |-> Github(Read)]

GithubClones ==
  [github_clone |-> Checked(NoProfile(<<"disk", "glance">>)),
   github_pull |-> Checked(NoProfile(<<"read", "disk", "glance">>))]

(* Gmail.  Reads pass the user's filters before anything is shown.         *)
GmailReading ==
  [gmail_search_messages |-> Gmail(<<"read", "filters">>),
   gmail_get_message |-> Gmail(<<"read", "filters">>)]

GmailSending == [gmail_send_email |-> Gmail(Change)]

(* Google Calendar and Outlook.                                            *)
CalendarReading ==
  [gcal_list_events |-> Calendar(Read), gcal_free_busy |-> Calendar(Read)]

CalendarWriting ==
  [gcal_create_event |-> Calendar(Change),
   gcal_update_event |-> Checked(Calendar(Change)),
   gcal_delete_event |-> Calendar(Change)]

OutlookMail ==
  [outlook_search_messages |-> Account(Read), outlook_send_mail |-> Account(Change),
   outlook_list_events |-> Account(Read)]

OutlookPlanning ==
  [outlook_create_event |-> Account(Change), outlook_update_event |-> Account(Change)]

OutlookAnswers ==
  [outlook_delete_event |-> Account(Change),
   outlook_respond_event |-> Checked(Account(Change))]

(* Trackers, wikis and help desks.                                         *)
Jira ==
  [jira_search_issues |-> Default(Read), jira_get_issue |-> Default(Read),
   jira_create_issue |-> Default(Change)]

Confluence ==
  [confluence_search |-> Default(Read), confluence_get_page |-> Default(Read),
   confluence_create_page |-> Default(Change)]

Zendesk ==
  [zendesk_search |-> Default(Read), zendesk_get_ticket |-> Default(Read),
   zendesk_create_ticket |-> Default(Change)]

Linear ==
  [linear_search_issues |-> Default(Read), linear_get_issue |-> Default(Read),
   linear_list_teams |-> Default(Read), linear_create_issue |-> Default(Change)]

Gitlab ==
  [gitlab_search |-> Default(Read), gitlab_get_issue |-> Default(Read),
   gitlab_get_merge_request |-> Default(Read), gitlab_create_issue |-> Default(Change)]

Discord ==
  [discord_list_channels |-> Default(Read), discord_read_messages |-> Default(Read),
   discord_send_message |-> Default(Change)]

Stripe ==
  [stripe_search_customers |-> Default(Read), stripe_list_charges |-> Default(Read),
   stripe_list_invoices |-> Default(Read)]

Asana ==
  [asana_list_workspaces |-> Default(Read), asana_search_tasks |-> Default(Read),
   asana_get_task |-> Default(Read), asana_create_task |-> Default(Change)]

(* Customer records.  A HubSpot answer goes out without the fields the     *)
(* user hides, under the name of its portal.                               *)
HubspotReading ==
  [hubspot_search |-> Checked(Hubspot(Read)), hubspot_get_object |-> Hubspot(Read)]

HubspotWriting ==
  [hubspot_create_contact |-> Hubspot(Change),
   hubspot_update_object |-> Checked(Hubspot(Change)),
   hubspot_log_note |-> Hubspot(Change)]

HubspotTasks == [hubspot_create_task |-> Hubspot(Change)]

(* Files and books.  Dropbox reads by POST.                                *)
Dropbox ==
  [dropbox_search |-> Default(Read), dropbox_list_folder |-> Default(Read),
   dropbox_read_file |-> Default(Read)]

Box ==
  [box_search |-> Default(Read), box_list_folder |-> Default(Read),
   box_read_file |-> Default(Read)]

Quickbooks ==
  [quickbooks_query |-> Default(Read), quickbooks_list_customers |-> Default(Read),
   quickbooks_list_invoices |-> Default(Read), quickbooks_get_report |-> Default(Read)]

Whatsapp ==
  [whatsapp_send_message |-> Default(Change), whatsapp_send_template |-> Default(Change)]

(* Notion and Attio.  A page's text is best effort: its properties are     *)
(* returned without it when the second read fails.                         *)
NotionReading ==
  [notion_search |-> Account(Read), notion_read_page |-> Account(<<"read", "glance">>),
   notion_query_database |-> Checked(Account(Read))]

NotionWriting == [notion_create_page |-> Account(Change)]

Attio ==
  [attio_list_objects |-> Account(Read),
   attio_query_records |-> Checked(Account(Read)), attio_get_record |-> Account(Read),
   attio_create_note |-> Account(Change)]

(* Analytics and prospecting: reads, by GET or by POST of a query.         *)
Analytics ==
  [posthog_query |-> Account(Read), posthog_list_insights |-> Account(Read),
   mixpanel_segmentation |-> Account(Read)]

MoreAnalytics ==
  [mixpanel_top_events |-> Account(Read), amplitude_active_users |-> Account(Read),
   amplitude_event_totals |-> Account(Read)]

Apollo ==
  [apollo_enrich_person |-> Checked(Account(Read)),
   apollo_enrich_company |-> Account(Read), apollo_search_people |-> Account(Read)]

Hunter ==
  [hunter_domain_search |-> Account(Read), hunter_find_email |-> Account(Read),
   hunter_verify_email |-> Account(Read)]

(* ClickUp, Close, Figma.                                                  *)
ClickupReading ==
  [clickup_list_teams |-> Default(Read), clickup_list_spaces |-> Default(Read),
   clickup_list_lists |-> Default(Read), clickup_list_tasks |-> Default(Read),
   clickup_get_task |-> Default(Read)]

ClickupWriting ==
  [clickup_create_task |-> Default(Change),
   clickup_update_task |-> Checked(Default(Change)),
   clickup_add_comment |-> Default(Change)]

CloseReading ==
  [close_search_leads |-> Default(Read), close_get_lead |-> Default(Read),
   close_list_opportunities |-> Default(Read)]

CloseWriting ==
  [close_create_lead |-> Default(Change),
   close_update_opportunity |-> Checked(Default(Change)),
   close_log_note |-> Default(Change)]

Figma ==
  [figma_get_file |-> Default(Read), figma_get_comments |-> Default(Read),
   figma_post_comment |-> Default(Change)]

FigmaImages == [figma_export_images |-> Default(Read)]

(* Google Drive: a file's kind decides how its text is fetched.            *)
Drive ==
  [drive_search_files |-> Account(Read), drive_list_folder |-> Account(Read),
   drive_read_file |-> Account(<<"read", "read">>)]

(* DocuSign: the first call finds the account's address.                   *)
DocusignReading ==
  [docusign_list_envelopes |-> Default(<<"discover", "read">>),
   docusign_get_envelope |-> Default(<<"discover", "read">>),
   docusign_list_templates |-> Default(<<"discover", "read">>)]

DocusignSending == [docusign_send_from_template |-> Default(<<"discover", "change">>)]

(* Canva: an export is a job of the service, polled by another call.       *)
Canva ==
  [canva_list_designs |-> Default(Read), canva_get_design |-> Default(Read),
   canva_export_design |-> Default(<<"job">>), canva_get_export |-> Default(Read)]

Parts ==
  {BrowserReading, BrowserViewing, BrowserActing, BrowserWaiting, EmailReading,
   EmailDownload, EmailSend, GithubIssues, GithubReviews, GithubClones,
   GmailReading, GmailSending, CalendarReading, CalendarWriting, OutlookMail,
   OutlookPlanning, OutlookAnswers, Jira, Confluence, Zendesk, Linear, Gitlab,
   Discord, Stripe, Asana, HubspotReading, HubspotWriting, HubspotTasks, Dropbox,
   Box, Quickbooks, Whatsapp, NotionReading, NotionWriting, Attio, Analytics,
   MoreAnalytics, Apollo, Hunter, ClickupReading, ClickupWriting, CloseReading,
   CloseWriting, Figma, FigmaImages, Drive, DocusignReading, DocusignSending,
   Canva}

Tools == UNION {DOMAIN part : part \in Parts}

Plan == [tool \in Tools |-> (CHOOSE part \in Parts : tool \in DOMAIN part)[tool]]

=============================================================================
