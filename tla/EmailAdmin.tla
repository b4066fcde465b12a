----------------------------- MODULE EmailAdmin -----------------------------
(***************************************************************************)
(* Administration of mail (api/admin_email.rs) and what the mail service   *)
(* reads of it (services/email_service.rs, services/email_provider.rs):    *)
(* providers, one workflow and its template family, template versions, and *)
(* the notification preferences of one user.                               *)
(*                                                                         *)
(* The database's constraints are part of the statements: of a tenant's    *)
(* providers at most one is the default and at most one is not, and of a   *)
(* family and locale at most one version has each status                   *)
(* (migrations/20260223000001_email_subsystem.sql).  A statement that      *)
(* would break one fails, and its request with it.                         *)
(***************************************************************************)
EXTENDS Requests, FiniteSets

CONSTANTS
    Providers, Families, Versions,   \* identifiers, each used for one row
    Locales                          \* "en" among them

Tenants == {"site", "organisation"}   \* tenant_id: NULL, or the administrator's

VersionRow == [family : Families, locale : Locales, number : Nat, status : {"draft", "published", "archived"}, edited : BOOLEAN]

ASSUME EmailAdminAssumption == "en" \in Locales /\ IsFiniteSet(Versions) /\ None \notin VersionRow

VARIABLES
    mail_provider_settings,       \* provider -> row
    notification_workflows,       \* the workflow: enabled, system_required and the family it uses
    email_template_families,      \* the families there are
    email_template_versions,      \* version -> row
    user_notification_prefs,      \* the user's opt-in; None: no row
    used,                         \* identifiers already used
    rendered,                     \* mail rendered: the version
    publishedOnce                 \* history: <<family, locale>> that had a published version

EmailAdminVars == <<mail_provider_settings, notification_workflows, email_template_families,
                    email_template_versions, user_notification_prefs, used, rendered, publishedOnce>>

EmailAdminInit ==
    /\ mail_provider_settings = [p \in Providers |-> None]
    /\ notification_workflows \in [enabled : {TRUE}, system_required : BOOLEAN, family : {None}]
    /\ email_template_families \in SUBSET Families   \* some were made before
    /\ email_template_versions = [v \in Versions |-> None]
    /\ user_notification_prefs = None
    /\ used = email_template_families /\ rendered = {} /\ publishedOnce = {}

-----------------------------------------------------------------------------
(* Providers. *)

Rows(table) == {x \in DOMAIN table : table[x] # None}

\* UNIQUE NULLS NOT DISTINCT (tenant_id, is_default)
unique_tenant_default(table) ==
    \A p, q \in Rows(table) :
        table[p].tenant = table[q].tenant /\ table[p].is_default = table[q].is_default => p = q

\* A statement on the providers: done when the constraint allows it.
WriteProviders(t, table) ==
    /\ IF unique_tenant_default(table)
       THEN Continue(t, <<>>) /\ mail_provider_settings' = table
       ELSE GiveUp(t) /\ UNCHANGED mail_provider_settings
    /\ UNCHANGED <<notification_workflows, email_template_families, email_template_versions,
                   user_notification_prefs, used, rendered, publishedOnce>>

\* No other default of these tenants.
Cleared(tenants) ==
    [p \in Providers |->
        IF mail_provider_settings[p] = None THEN None
        ELSE [mail_provider_settings[p] EXCEPT !.is_default = @ /\ mail_provider_settings[p].tenant \notin tenants]]

\* A new default clears those of the site first, whatever tenant it is for.
create_provider(t, p, row) ==
    /\ p \notin used
    /\ used' = used \cup {p}
    /\ Begin(t, (IF row.is_default THEN <<Stmt("clear_defaults", {"site"})>> ELSE <<>>)
                \o <<Stmt("insert_provider", [p |-> p, row |-> row])>>)
    /\ UNCHANGED <<mail_provider_settings, notification_workflows, email_template_families,
                   email_template_versions, user_notification_prefs, rendered, publishedOnce>>

\* The row is read; "tenant_id = $1" holds of no row of the site, where it is NULL.
update_provider(t, p, enabled, is_default) ==
    /\ p \in Rows(mail_provider_settings)
    /\ LET row == mail_provider_settings[p] IN
       Begin(t, (IF is_default /\ ~row.is_default THEN <<Stmt("clear_defaults", {row.tenant} \ {"site"})>> ELSE <<>>)
                \o <<Stmt("update_provider", [p |-> p, enabled |-> enabled, is_default |-> is_default])>>)
    /\ UNCHANGED EmailAdminVars

set_default_provider(t, p) ==
    /\ p \in Rows(mail_provider_settings)
    /\ LET row == mail_provider_settings[p] IN
       Begin(t, <<Stmt("clear_defaults", {row.tenant}),
                  Stmt("update_provider", [p |-> p, enabled |-> row.enabled, is_default |-> TRUE])>>)
    /\ UNCHANGED EmailAdminVars

ClearDefaults(t, o)  == o.do = "clear_defaults" /\ WriteProviders(t, Cleared(o.x))
InsertProvider(t, o) ==
    o.do = "insert_provider" /\ WriteProviders(t, [mail_provider_settings EXCEPT ![o.x.p] = o.x.row])
\* A provider deleted meanwhile: no row to return.
UpdateProvider(t, o) ==
    /\ o.do = "update_provider"
    /\ IF mail_provider_settings[o.x.p] = None THEN GiveUp(t) /\ UNCHANGED EmailAdminVars
       ELSE WriteProviders(t, [mail_provider_settings EXCEPT ![o.x.p].enabled = o.x.enabled,
                                                            ![o.x.p].is_default = o.x.is_default])

delete_provider(p) ==
    /\ p \in Rows(mail_provider_settings)
    /\ mail_provider_settings' = [mail_provider_settings EXCEPT ![p] = None]
    /\ Statement
    /\ UNCHANGED <<notification_workflows, email_template_families, email_template_versions,
                   user_notification_prefs, used, rendered, publishedOnce>>

\* The enabled default of the tenant.
get_default_provider(tenant) ==
    {p \in Rows(mail_provider_settings) :
        mail_provider_settings[p] = [tenant |-> tenant, is_default |-> TRUE, enabled |-> TRUE]}

-----------------------------------------------------------------------------
(* The workflow and the template families. *)

\* A required workflow is not disabled; a family that is not there breaks the foreign key.
update_workflow(enabled, family) ==
    /\ enabled \/ ~notification_workflows.system_required
    /\ family # None => family \in email_template_families
    /\ notification_workflows' =
          [notification_workflows EXCEPT !.enabled = enabled, !.family = IF family = None THEN @ ELSE family]
    /\ Statement
    /\ UNCHANGED <<mail_provider_settings, email_template_families, email_template_versions,
                   user_notification_prefs, used, rendered, publishedOnce>>

create_template_family(f) ==
    /\ f \notin used
    /\ used' = used \cup {f}
    /\ email_template_families' = email_template_families \cup {f}
    /\ Statement
    /\ UNCHANGED <<mail_provider_settings, notification_workflows, email_template_versions,
                   user_notification_prefs, rendered, publishedOnce>>

\* Its versions go with it, and the workflow that uses it has none.
delete_template_family(f) ==
    /\ f \in email_template_families
    /\ email_template_families' = email_template_families \ {f}
    /\ email_template_versions' =
          [v \in Versions |-> IF email_template_versions[v] = None THEN None
                              ELSE IF email_template_versions[v].family = f THEN None ELSE email_template_versions[v]]
    /\ notification_workflows' = [notification_workflows EXCEPT !.family = IF @ = f THEN None ELSE @]
    /\ Statement
    /\ UNCHANGED <<mail_provider_settings, user_notification_prefs, used, rendered, publishedOnce>>

-----------------------------------------------------------------------------
(* Template versions. *)

Of(f, l) == {v \in Rows(email_template_versions) :
                email_template_versions[v].family = f /\ email_template_versions[v].locale = l}
Published(f, l) == {v \in Of(f, l) : email_template_versions[v].status = "published"}
NextNumber(f, l) == Cardinality(Of(f, l)) + 1   \* versions are never deleted alone

\* UNIQUE (family_id, locale, version), UNIQUE (family_id, locale, status)
unique_version(table) ==
    \A v, w \in Rows(table) :
        /\ table[v].family = table[w].family /\ table[v].locale = table[w].locale
        /\ table[v].number = table[w].number \/ table[v].status = table[w].status
        => v = w

\* MAX(version) is read, then the draft inserted.
create_template_version(t, v, f, l) ==
    /\ v \notin used
    /\ used' = used \cup {v}
    /\ Begin(t, <<Stmt("insert_version", [v |-> v, row |-> [family |-> f, locale |-> l, number |-> NextNumber(f, l),
                                                            status |-> "draft", edited |-> FALSE]])>>)
    /\ UNCHANGED <<mail_provider_settings, notification_workflows, email_template_families,
                   email_template_versions, user_notification_prefs, rendered, publishedOnce>>
InsertVersion(t, o) ==
    /\ o.do = "insert_version"
    /\ LET table == [email_template_versions EXCEPT ![o.x.v] = o.x.row] IN
       IF o.x.row.family \in email_template_families /\ unique_version(table)
       THEN Continue(t, <<>>) /\ email_template_versions' = table
       ELSE GiveUp(t) /\ UNCHANGED email_template_versions
    /\ UNCHANGED <<mail_provider_settings, notification_workflows, email_template_families,
                   user_notification_prefs, used, rendered, publishedOnce>>

\* The status is checked on what was read; the UPDATE does not look at it again.
update_template_version(t, v) ==
    /\ v \in Rows(email_template_versions)
    /\ email_template_versions[v].status = "draft"
    /\ Begin(t, <<Stmt("update_version", v)>>)
    /\ UNCHANGED EmailAdminVars
UpdateVersion(t, o) ==
    /\ o.do = "update_version"
    /\ IF email_template_versions[o.x] = None THEN GiveUp(t) /\ UNCHANGED email_template_versions
       ELSE /\ Continue(t, <<>>)
            /\ email_template_versions' = [email_template_versions EXCEPT ![o.x].edited = TRUE]
    /\ UNCHANGED <<mail_provider_settings, notification_workflows, email_template_families,
                   user_notification_prefs, used, rendered, publishedOnce>>

Archived(f, l) ==
    [w \in Versions |-> IF w \in Published(f, l) THEN [email_template_versions[w] EXCEPT !.status = "archived"]
                        ELSE email_template_versions[w]]

\* Publishing that takes the published version away first, in a statement of its own.
archive_then_publish(v) ==
    /\ v \in Rows(email_template_versions)
    /\ LET row == email_template_versions[v] IN
       /\ row.status = "draft"
       /\ IF Published(row.family, row.locale) # {}
          THEN /\ email_template_versions' = Archived(row.family, row.locale)
               /\ UNCHANGED publishedOnce
          ELSE /\ email_template_versions' = [email_template_versions EXCEPT ![v].status = "published"]
               /\ publishedOnce' = publishedOnce \cup {<<row.family, row.locale>>}
    /\ Statement
    /\ UNCHANGED <<mail_provider_settings, notification_workflows, email_template_families,
                   user_notification_prefs, used, rendered>>

\* One statement: a draft, and no published version of its locale, whose status would be the same.
publish_template_version(v) ==
    /\ v \in Rows(email_template_versions)
    /\ LET row == email_template_versions[v]
           table == [email_template_versions EXCEPT ![v].status = "published"] IN
       /\ row.status = "draft" /\ unique_version(table)
       /\ email_template_versions' = table
       /\ publishedOnce' = publishedOnce \cup {<<row.family, row.locale>>}
    /\ Statement
    /\ UNCHANGED <<mail_provider_settings, notification_workflows, email_template_families,
                   user_notification_prefs, used, rendered>>

\* A preview: any version, through the default provider of any tenant.
send_preview_email(v) ==
    /\ v \in Rows(email_template_versions)
    /\ \E tenant \in Tenants : get_default_provider(tenant) # {}
    /\ rendered' = rendered \cup {v}
    /\ Statement
    /\ UNCHANGED <<mail_provider_settings, notification_workflows, email_template_families,
                   email_template_versions, user_notification_prefs, used, publishedOnce>>

\* Mail of the workflow: the workflow, the family and then the template are read.
send_test_email(t, l) ==
    /\ notification_workflows.enabled /\ notification_workflows.family # None
    /\ Begin(t, <<Stmt("read_template", [family |-> notification_workflows.family, locale |-> l])>>)
    /\ UNCHANGED EmailAdminVars
\* The published version of the locale, else of English, else an error.
get_template_for_workflow(t, o) ==
    /\ o.do = "read_template"
    /\ LET fitting == IF Published(o.x.family, o.x.locale) # {} THEN Published(o.x.family, o.x.locale)
                      ELSE Published(o.x.family, "en") IN
       IF fitting = {} THEN GiveUp(t) /\ UNCHANGED rendered
       ELSE Continue(t, <<>>) /\ \E v \in fitting : rendered' = rendered \cup {v}
    /\ UNCHANGED <<mail_provider_settings, notification_workflows, email_template_families,
                   email_template_versions, user_notification_prefs, used, publishedOnce>>

-----------------------------------------------------------------------------
(* Notification preferences. *)

\* SELECT; INSERT of the defaults when there is no row, which fails when one came meanwhile.
get_user_prefs(t, then) ==
    /\ Begin(t, (IF user_notification_prefs = None THEN <<Stmt("insert_prefs", None)>> ELSE <<>>) \o then)
    /\ UNCHANGED EmailAdminVars
InsertPrefs(t, o) ==
    /\ o.do = "insert_prefs"
    /\ IF user_notification_prefs = None
       THEN Continue(t, <<>>) /\ user_notification_prefs' = TRUE
       ELSE GiveUp(t) /\ UNCHANGED user_notification_prefs
    /\ UNCHANGED <<mail_provider_settings, notification_workflows, email_template_families,
                   email_template_versions, used, rendered, publishedOnce>>
update_user_prefs(t, value) == get_user_prefs(t, <<Stmt("update_prefs", value)>>)
UpdatePrefs(t, o) ==
    /\ o.do = "update_prefs"
    /\ user_notification_prefs' = o.x
    /\ Continue(t, <<>>)
    /\ UNCHANGED <<mail_provider_settings, notification_workflows, email_template_families,
                   email_template_versions, used, rendered, publishedOnce>>

-----------------------------------------------------------------------------
ProviderRequest(t) ==
    \/ \E p \in Providers, tenant \in Tenants, d \in BOOLEAN :
          create_provider(t, p, [tenant |-> tenant, is_default |-> d, enabled |-> TRUE])
    \/ \E p \in Providers, e, d \in BOOLEAN : update_provider(t, p, e, d)
    \/ \E p \in Providers : set_default_provider(t, p) \/ delete_provider(p)

TemplateRequest(t) ==
    \/ \E e \in BOOLEAN, f \in Families \cup {None} : update_workflow(e, f)
    \/ \E f \in Families : create_template_family(f) \/ delete_template_family(f)
    \/ \E v \in Versions, f \in email_template_families, l \in Locales : create_template_version(t, v, f, l)
    \/ \E v \in Versions : update_template_version(t, v) \/ publish_template_version(v) \/ send_preview_email(v)
    \/ \E l \in Locales : send_test_email(t, l)

PrefsRequest(t) == get_user_prefs(t, <<>>) \/ \E value \in BOOLEAN : update_user_prefs(t, value)

EmailAdminStep(t, o) ==
    \/ ClearDefaults(t, o) \/ InsertProvider(t, o) \/ UpdateProvider(t, o)
    \/ InsertVersion(t, o) \/ UpdateVersion(t, o) \/ get_template_for_workflow(t, o)
    \/ InsertPrefs(t, o) \/ UpdatePrefs(t, o)

EmailAdminNext ==
    \/ /\ events < MaxEvents
       /\ \E t \in Tasks : \/ ProviderRequest(t) \/ TemplateRequest(t) \/ PrefsRequest(t)
                           \/ Interrupted(t) /\ UNCHANGED EmailAdminVars
    \/ \E t \in Tasks : Busy(t) /\ EmailAdminStep(t, Head(task[t]))

-----------------------------------------------------------------------------
(* Properties. *)

\* A family and locale that once had a published version has one as long as the family exists, so that
\* mail of a workflow that uses it is never refused for lack of a template: neither a new version nor
\* an edit under way takes the published one away (admin_email.rs, publish_template_version;
\* email_service.rs, get_template_for_workflow).
TemplateStaysAvailable ==
    \A pair \in publishedOnce : pair[1] \in email_template_families => Published(pair[1], pair[2]) # {}

=============================================================================
