----------------------------- MODULE Workspace -----------------------------
(***************************************************************************)
(* The parts of the server whose state is in tables of their own and that  *)
(* share only the way requests run (module Requests).  A behaviour stays   *)
(* in the area its initial state names: none of the area's requests        *)
(* touches the tables of another.                                          *)
(***************************************************************************)
EXTENDS Sidebar, FileStore, Push, Playbooks, Integrations, UserStatus, Sfu, EmailAdmin,
        Terms, Bookmarks, RateLimit, QuietHours

VARIABLE area

Areas == {"sidebar", "files", "push", "playbooks", "integrations", "status", "settings", "media",
          "mail", "terms", "bookmarks", "limits", "quiet_hours"}

WorkspaceVars == <<RequestVars, SidebarVars, FileVars, PushVars, PlaybookVars, IntegrationVars, StatusVars,
                   SfuVars, EmailAdminVars, TermsVars, BookmarkVars, RateLimitVars, QuietVars, area>>

\* Every choice of an initial state is open in its own area and settled in the others.
WorkspaceInit ==
    /\ area \in Areas
    /\ RequestsInit /\ SidebarInit /\ UserStatusInit /\ TermsInit /\ BookmarksInit /\ RateLimitInit
    /\ FileStoreInit /\ (area # "files" => upload = [u \in Uploads |-> None] /\ \A m \in Messages : ~message[m].pinned)
    /\ PushInit /\ (area # "push" => service = {})
    /\ PlaybooksInit /\ (area # "playbooks" => playbook.channel)
    /\ IntegrationsInit /\ (area # "integrations" => /\ inHook = [h \in InHooks |-> None]
                                                     /\ \A h \in OutHooks : outHook[h].when = "any")
    /\ SfuInit /\ (area # "media" => inCall = {})
    /\ EmailAdminInit /\ (area # "mail" => email_template_families = {} /\ notification_workflows.system_required)
    /\ QuietInit /\ (area # "quiet_hours" => {start, end, now} = {0})

\* The tables of the other areas.
Elsewhere ==
    /\ area # "sidebar" => UNCHANGED SidebarVars
    /\ area # "files" => UNCHANGED FileVars
    /\ area # "push" => UNCHANGED PushVars
    /\ area # "playbooks" => UNCHANGED PlaybookVars
    /\ area # "integrations" => UNCHANGED IntegrationVars
    /\ area \notin {"status", "settings"} => UNCHANGED StatusVars
    /\ area # "media" => UNCHANGED SfuVars
    /\ area # "mail" => UNCHANGED EmailAdminVars
    /\ area # "terms" => UNCHANGED TermsVars
    /\ area # "bookmarks" => UNCHANGED BookmarkVars
    /\ area # "limits" => UNCHANGED RateLimitVars
    /\ area # "quiet_hours" => UNCHANGED QuietVars
    /\ UNCHANGED area

WorkspaceNext ==
    \/ area = "sidebar" /\ SidebarNext /\ Elsewhere
    \/ area = "files" /\ FileStoreNext /\ Elsewhere
    \/ area = "push" /\ PushNext /\ Elsewhere
    \/ area = "playbooks" /\ PlaybooksNext /\ Elsewhere
    \/ area = "integrations" /\ IntegrationsNext /\ Elsewhere
    \/ area = "status" /\ StatusNext /\ Elsewhere
    \/ area = "settings" /\ SettingsNext /\ Elsewhere
    \/ area = "media" /\ SfuNext /\ Elsewhere
    \/ area = "mail" /\ EmailAdminNext /\ Elsewhere
    \/ area = "terms" /\ TermsNext /\ Elsewhere
    \/ area = "bookmarks" /\ BookmarksNext /\ Elsewhere
    \/ area = "limits" /\ RateLimitNext /\ Elsewhere
    \/ area = "quiet_hours" /\ Hold /\ Elsewhere /\ UNCHANGED RequestVars

WorkspaceSpec == WorkspaceInit /\ [][WorkspaceNext]_WorkspaceVars

=============================================================================
