------------------------------- MODULE Terms -------------------------------
(***************************************************************************)
(* Terms of service (api/v4/terms_of_service.rs): administrators write,    *)
(* activate and delete versions, users see the current one and accept it.  *)
(*                                                                         *)
(* Activation runs a trigger that takes the other versions' active flag    *)
(* (migrations/20260403000001_terms_of_service.sql).  The trigger sees the *)
(* rows as they were when the statement began, so the statement takes two  *)
(* steps here: two activations at once may leave two active versions.      *)
(***************************************************************************)
EXTENDS Requests, FiniteSets

CONSTANTS
    TermsIds,    \* identifiers, each used for one row
    TermsUsers,
    TermsDates   \* effective dates, numbers

TermsRow == [is_active : BOOLEAN, effective_date : TermsDates]

ASSUME TermsAssumption == TermsDates \subseteq Nat /\ IsFiniteSet(TermsUsers) /\ None \notin TermsRow

VARIABLES
    terms_of_service,        \* id -> row
    user_terms_acceptance,   \* pairs <<user, terms>>
    registered,              \* users whose deleted_at is NULL
    usedTerms,               \* identifiers already used
    termsAnswers,            \* user -> the last status answered, or None
    statsAnswered,           \* the last statistics answered, or None
    thanked                  \* history: <<user, terms>> answered "Terms accepted successfully"

TermsVars == <<terms_of_service, user_terms_acceptance, registered, usedTerms, termsAnswers, statsAnswered, thanked>>

TermsInit ==
    /\ terms_of_service = [i \in TermsIds |-> None]
    /\ user_terms_acceptance = {}
    /\ registered = TermsUsers
    /\ usedTerms = {}
    /\ termsAnswers = [u \in TermsUsers |-> None]
    /\ statsAnswered = None
    /\ thanked = {}

Stands(i) == terms_of_service[i] # None
ActiveTerms == {i \in TermsIds : Stands(i) /\ terms_of_service[i].is_active}

\* is_active = true ORDER BY effective_date DESC LIMIT 1
CurrentTerms ==
    {i \in ActiveTerms : \A j \in ActiveTerms : terms_of_service[j].effective_date <= terms_of_service[i].effective_date}

SetTerms(table) ==
    /\ terms_of_service' = table
    /\ UNCHANGED <<user_terms_acceptance, registered, usedTerms, termsAnswers, statsAnswered, thanked>>

-----------------------------------------------------------------------------
(* Users. *)

\* The current terms are read, then whether the user accepted them.
get_terms_status(t, u) ==
    \/ /\ CurrentTerms = {}
       /\ Statement
       /\ termsAnswers' = [termsAnswers EXCEPT ![u] = [terms |-> None, required |-> FALSE]]
       /\ UNCHANGED <<terms_of_service, user_terms_acceptance, registered, usedTerms, statsAnswered, thanked>>
    \/ \E i \in CurrentTerms : Begin(t, <<Stmt("read_acceptance", <<u, i>>)>>) /\ UNCHANGED TermsVars
ReadAcceptance(t, o) ==
    /\ o.do = "read_acceptance"
    /\ termsAnswers' = [termsAnswers EXCEPT ![o.x[1]] =
                           [terms |-> o.x[2], required |-> o.x \notin user_terms_acceptance]]
    /\ Continue(t, <<>>)
    /\ UNCHANGED <<terms_of_service, user_terms_acceptance, registered, usedTerms, statsAnswered, thanked>>

\* The terms must exist; whether they are active is not looked at.
accept_terms(t, u, i) ==
    /\ Stands(i)
    /\ Begin(t, <<Stmt("insert_acceptance", <<u, i>>)>>)
    /\ UNCHANGED TermsVars

\* The acceptance is written whatever became of the terms.
InsertUnchecked(t, o) ==
    /\ o.do = "insert_acceptance"
    /\ Continue(t, <<>>)
    /\ user_terms_acceptance' = user_terms_acceptance \cup {o.x} /\ thanked' = thanked \cup {o.x}
    /\ UNCHANGED <<terms_of_service, registered, usedTerms, termsAnswers, statsAnswered>>

\* Terms deleted since the check: the foreign key refuses the row.
InsertAcceptance(t, o) ==
    /\ o.do = "insert_acceptance"
    /\ IF Stands(o.x[2])
       THEN /\ Continue(t, <<>>)
            /\ user_terms_acceptance' = user_terms_acceptance \cup {o.x}
            /\ thanked' = thanked \cup {o.x}
       ELSE GiveUp(t) /\ UNCHANGED <<user_terms_acceptance, thanked>>
    /\ UNCHANGED <<terms_of_service, registered, usedTerms, termsAnswers, statsAnswered>>

-----------------------------------------------------------------------------
(* Administrators. *)

\* The version is new (each id stands for its own) and inactive.
create_terms(i, date) ==
    /\ i \notin usedTerms
    /\ usedTerms' = usedTerms \cup {i}
    /\ terms_of_service' = [terms_of_service EXCEPT ![i] = [is_active |-> FALSE, effective_date |-> date]]
    /\ Statement
    /\ UNCHANGED <<user_terms_acceptance, registered, termsAnswers, statsAnswered, thanked>>

\* enforce_single_active_terms: the others that were active when the statement began.
enforce_single_active_terms(table, others) ==
    [i \in TermsIds |-> IF i \in others /\ table[i] # None THEN [table[i] EXCEPT !.is_active = FALSE] ELSE table[i]]

\* The row is looked up, then updated; the trigger fires if it is active.
update_terms(t, i, date) ==
    /\ Stands(i)
    /\ Begin(t, <<Stmt("update_terms", [i |-> i, date |-> date])>>)
    /\ UNCHANGED TermsVars
UpdateTerms(t, o) ==
    /\ o.do = "update_terms"
    /\ IF ~Stands(o.x.i) THEN GiveUp(t) /\ UNCHANGED TermsVars
       ELSE LET table == [terms_of_service EXCEPT ![o.x.i].effective_date = o.x.date] IN
            /\ Continue(t, <<>>)
            /\ SetTerms(IF table[o.x.i].is_active THEN enforce_single_active_terms(table, ActiveTerms \ {o.x.i}) ELSE table)

\* Active terms are refused; the DELETE does not look again.  The acceptances go with the terms.
delete_terms(t, i) ==
    /\ i \notin ActiveTerms
    /\ Begin(t, <<Stmt("delete_terms", i)>>)
    /\ UNCHANGED TermsVars
DeleteTerms(t, o) ==
    /\ o.do = "delete_terms"
    /\ terms_of_service' = [terms_of_service EXCEPT ![o.x] = None]
    /\ user_terms_acceptance' = {p \in user_terms_acceptance : p[2] # o.x}
    /\ Continue(t, <<>>)
    /\ UNCHANGED <<registered, usedTerms, termsAnswers, statsAnswered, thanked>>

activate_terms(t, i) ==
    /\ Stands(i)
    /\ Begin(t, <<Stmt("activate_terms", [i |-> i, others |-> ActiveTerms \ {i}])>>)
    /\ UNCHANGED TermsVars
ActivateTerms(t, o) ==
    /\ o.do = "activate_terms"
    /\ Continue(t, <<>>)
    /\ IF ~Stands(o.x.i) THEN UNCHANGED TermsVars
       ELSE SetTerms(enforce_single_active_terms([terms_of_service EXCEPT ![o.x.i].is_active = TRUE], o.x.others))

-----------------------------------------------------------------------------
(* Statistics. *)

Accepted(i) == {p[1] : p \in {q \in user_terms_acceptance : q[2] = i}}

\* Of one version, in one statement.  Users deleted since they accepted are counted as accepted.
get_terms_stats(i) ==
    /\ statsAnswered' = [terms |-> i, total_users |-> Cardinality(registered), accepted_count |-> Cardinality(Accepted(i))]
    /\ Statement
    /\ UNCHANGED <<terms_of_service, user_terms_acceptance, registered, usedTerms, termsAnswers, thanked>>

\* Of the current version: the terms, the users and the acceptances are read one after the other
\* (the list of the users still pending, read last, is left out).
get_all_terms_stats(t) ==
    \E i \in CurrentTerms : Begin(t, <<Stmt("count_users", i)>>) /\ UNCHANGED TermsVars
CountUsers(t, o) ==
    /\ o.do = "count_users"
    /\ Continue(t, <<Stmt("count_accepted", [i |-> o.x, total |-> Cardinality(registered)])>>)
    /\ UNCHANGED TermsVars
CountAccepted(t, o) ==
    /\ o.do = "count_accepted"
    /\ statsAnswered' = [terms |-> o.x.i, total_users |-> o.x.total, accepted_count |-> Cardinality(Accepted(o.x.i))]
    /\ Continue(t, <<>>)
    /\ UNCHANGED <<terms_of_service, user_terms_acceptance, registered, usedTerms, termsAnswers, thanked>>

\* An account is closed (module Accounts).
AccountCloses(u) ==
    /\ u \in registered
    /\ registered' = registered \ {u}
    /\ Statement
    /\ UNCHANGED <<terms_of_service, user_terms_acceptance, usedTerms, termsAnswers, statsAnswered, thanked>>

-----------------------------------------------------------------------------
TermsRequest(t) ==
    \/ \E u \in registered : get_terms_status(t, u) \/ AccountCloses(u)
    \/ \E u \in registered, i \in TermsIds : accept_terms(t, u, i)
    \/ \E i \in TermsIds, d \in TermsDates : create_terms(i, d) \/ update_terms(t, i, d)
    \/ \E i \in TermsIds : delete_terms(t, i) \/ activate_terms(t, i) \/ get_terms_stats(i)
    \/ get_all_terms_stats(t)

TermsStep(t, o) ==
    \/ ReadAcceptance(t, o) \/ InsertAcceptance(t, o)
    \/ UpdateTerms(t, o) \/ DeleteTerms(t, o) \/ ActivateTerms(t, o)
    \/ CountUsers(t, o) \/ CountAccepted(t, o)

TermsNext ==
    \/ /\ events < MaxEvents
       /\ \E t \in Tasks : TermsRequest(t) \/ (Interrupted(t) /\ UNCHANGED TermsVars)
    \/ \E t \in Tasks : Busy(t) /\ TermsStep(t, Head(task[t]))

-----------------------------------------------------------------------------
(* Properties. *)

\* Whoever was told that the terms are accepted has accepted them for as long as they exist, through
\* edits, other activations and deletions under way, and no acceptance outlives its terms
\* (terms_of_service.rs, accept_terms and delete_terms).
AcceptanceStands ==
    /\ \A p \in thanked : Stands(p[2]) => p \in user_terms_acceptance
    /\ \A p \in user_terms_acceptance : Stands(p[2])

=============================================================================
