---------------------------- MODULE CatalogChange ----------------------------
(***************************************************************************)
(* scope catalog plan, apply and drop (internal/command/catalog_plan.go):  *)
(* a change is previewed by a dry run, reviewed, and committed on the      *)
(* condition that the catalog still has the version that was previewed.    *)
(* A plan may also be saved to a file and be applied by a later command.   *)
(*                                                                         *)
(* Several commands, and their users, work on the same catalogs at a time; *)
(* the workspace selection changes between them; a commit request that     *)
(* times out at the client may still be executed by the server, later.     *)
(***************************************************************************)
EXTENDS ErrorReports, Functions

CONSTANTS
    Proc,       \* CLI processes
    Site,       \* connections: an endpoint together with its workspace
    Object,     \* catalog objects
    Def,        \* definitions of an object
    MaxCommits, \* bound: commits to all the catalogs
    None        \* no definition, no plan, no version

Optional(S) == S \cup {None}

(* The objects of one site; None is an object that does not exist. *)
Catalog == [Object -> Optional(Def)]

(* A definition replaces the complete selected resource: one object, or    *)
(* the whole catalog.  Deleting is a replacement by nothing.               *)
Resource == {Object} \cup {{o} : o \in Object}
Change == {[o \in r |-> cat[o]] : cat \in Catalog, r \in Resource}

Apply(cat, change) ==
    [o \in Object |-> IF o \in DOMAIN change THEN change[o] ELSE cat[o]]

Destructive(before, after) ==
    \E o \in Object : before[o] # None /\ after[o] = None

(* catalogPlan: the request, its preview and where it was made. *)
Plan == [change : Change, before : Catalog, site : Site,
         version : Nat]

ASSUME CatalogAssumption ==
    /\ MaxCommits \in Nat
    /\ None \notin Def /\ None \notin Site /\ None \notin Nat /\ None \notin Plan

After(plan) == Apply(plan.before, plan.change)
Loses(plan) == Destructive(plan.before, After(plan))

Request == [site : Site, version : Optional(Nat), plan : Plan,
            allow : BOOLEAN]

VARIABLES
    catalog,    \* server: site -> catalog
    version,    \* server: site -> catalog version (ETag)
    selected,   \* the site a command resolves now
    saved,      \* the plan file
    pc,         \* what each process does next
    request,    \* what it was called with, until its plan is made
    allow,      \* data loss is allowed
    site,       \* the connection it resolved
    plan,       \* the plan it works on
    sent,       \* its commit request, until the server has dealt with it
    unknown,    \* processes whose user was told that the outcome is unknown
    agreed      \* history: processes whose user agreed to lose data

server == <<catalog, version>>
command == <<pc, request, allow, site, plan, unknown>>
vars == <<server, selected, saved, command, sent, agreed>>

(* --file or a drop with its change, or --plan. *)
Asked == [change : Optional(Change), action : {"plan", "apply", "saved"},
          yes : BOOLEAN]

PC == {"idle", "access", "preview", "review", "wait"}

-----------------------------------------------------------------------------
(* Helpers *)

Goto(p, l) == pc' = [pc EXCEPT ![p] = l]

(* What the Go SDK reports of a commit. *)
CatalogError(code, status) ==
    {[is |-> "catalog", code |-> code, status |-> status]}

(* The user is told that the outcome is not known. *)
ToldUnknown(err) ==
    Prints(err) /\ "read the catalog" \in NormalizeError(err).hints

Ends(p, err) ==
    /\ Goto(p, "idle")
    /\ request' = [request EXCEPT ![p] = None]
    /\ allow' = allow \ {p}
    /\ site' = [site EXCEPT ![p] = None]
    /\ plan' = [plan EXCEPT ![p] = None]
    /\ unknown' = IF ToldUnknown(err) THEN unknown \cup {p} ELSE unknown \ {p}
    /\ agreed' = IF sent'[p] = None THEN agreed \ {p} ELSE agreed

Fails(p) ==
    /\ UNCHANGED <<server, selected, saved, sent>>
    /\ Ends(p, Other)

-----------------------------------------------------------------------------
(* A command starts: it reads its definition or its plan file. *)

Start(p, asked, allowed) ==
    /\ pc[p] = "idle" /\ sent[p] = None
    /\ Goto(p, "access")
    /\ request' = [request EXCEPT ![p] = asked]
    /\ allow' = IF allowed THEN allow \cup {p} ELSE allow
    /\ plan' = [plan EXCEPT ![p] = IF asked.action = "saved" THEN saved ELSE None]
    /\ agreed' = IF allowed THEN agreed \cup {p} ELSE agreed
    /\ UNCHANGED <<server, selected, saved, site, sent, unknown>>

StartPlan(p) ==
    \E change \in Change :
        Start(p, [change |-> change, action |-> "plan", yes |-> FALSE], FALSE)

StartApply(p) ==
    \E change \in Change, yes \in BOOLEAN, allowed \in BOOLEAN :
        Start(p, [change |-> change, action |-> "apply", yes |-> yes], allowed)

StartSaved(p) ==
    /\ saved # None
    /\ \E allowed \in BOOLEAN :
          Start(p, [change |-> None, action |-> "saved", yes |-> TRUE], allowed)

(* ResolveDataAccess: the selection of this moment is the target.  A saved *)
(* plan is refused on any other connection.                                *)
AnyTarget(p) == TRUE    \* variant: a saved plan is applied wherever
SameTarget(p) == plan[p].site = selected

(* Data loss has to be allowed, by the option or by the confirmation. *)
AllowedByYes(p, pl) ==  \* variant: --yes confirms the loss as well
    Loses(pl) => p \in allow \/ request[p].yes
Allowed(p, pl) == Loses(pl) => p \in allow

(* The plan is final: its commit is sent. *)
IfMatchNothing(pl) == None  \* variant: an unconditional commit
IfMatch(pl) == pl.version

Commits(p, s, pl, allowed) ==
    /\ Goto(p, "wait")
    /\ sent' = [sent EXCEPT ![p] =
         [site |-> s, version |-> IfMatch(pl), plan |-> pl, allow |-> allowed]]
    /\ request' = [request EXCEPT ![p] = None]
    /\ allow' = allow \ {p}
    /\ site' = [site EXCEPT ![p] = None]
    /\ plan' = [plan EXCEPT ![p] = None]
    /\ UNCHANGED unknown

ResolveAccess(p) ==
    /\ pc[p] = "access" /\ request[p].action # "saved"
    /\ Goto(p, "preview")
    /\ site' = [site EXCEPT ![p] = selected]
    /\ UNCHANGED <<server, selected, saved, request, allow, plan, unknown, sent,
                   agreed>>

ApplySaved(p) ==
    /\ pc[p] = "access" /\ request[p].action = "saved"
    /\ IF SameTarget(p) /\ Allowed(p, plan[p])
         THEN /\ Commits(p, selected, plan[p], p \in allow)
              /\ UNCHANGED <<server, selected, saved, agreed>>
         ELSE Fails(p)

(* The dry run: a snapshot of the catalog, what the change makes of it,    *)
(* and its version.  A plan is written out; a change that shows a diff is  *)
(* confirmed unless --yes; data loss needs its own permission.             *)
DryRunUnbound(p) ==     \* variant: the plan does not say where it was made
    [change |-> request[p].change, before |-> catalog[site[p]],
     site |-> None, version |-> version[site[p]]]
DryRun(p) ==
    [change |-> request[p].change, before |-> catalog[site[p]],
     site |-> site[p], version |-> version[site[p]]]

PreviewSaved(p) ==
    /\ pc[p] = "preview" /\ request[p].action = "plan"
    /\ saved' = DryRun(p)
    /\ UNCHANGED <<server, selected, sent>>
    /\ Ends(p, {})

PreviewReviewed(p) ==
    /\ pc[p] = "preview" /\ request[p].action = "apply" /\ ~request[p].yes
    /\ After(DryRun(p)) # catalog[site[p]]
    /\ Goto(p, "review")
    /\ plan' = [plan EXCEPT ![p] = DryRun(p)]
    /\ request' = [request EXCEPT ![p] = None]
    /\ UNCHANGED <<server, selected, saved, allow, site, unknown, sent, agreed>>

PreviewAccepted(p) ==
    /\ pc[p] = "preview" /\ request[p].action = "apply"
    /\ request[p].yes \/ After(DryRun(p)) = catalog[site[p]]
    /\ IF Allowed(p, DryRun(p))
         THEN /\ Commits(p, site[p], DryRun(p), p \in allow)
              /\ UNCHANGED <<server, selected, saved, agreed>>
         ELSE Fails(p)

(* The user answers yes to the diff, and to the warning if there is one. *)
Confirm(p) ==
    /\ pc[p] = "review"
    /\ Commits(p, site[p], plan[p], p \in allow \/ Loses(plan[p]))
    /\ agreed' = IF Loses(plan[p]) THEN agreed \cup {p} ELSE agreed
    /\ UNCHANGED <<server, selected, saved>>

(* No access, a failed dry run, no confirmation, or Ctrl+C: nothing was    *)
(* sent that could change a catalog.                                       *)
GivesUp(p) == pc[p] \in {"access", "preview", "review"} /\ Fails(p)

-----------------------------------------------------------------------------
(* Commit *)

CommitsSoFar == FoldFunction(+, 0, version)

(* The server executes the request; what answers arrive is another matter. *)
Accepts(r) ==
    /\ r.version \in {None, version[r.site]}
    /\ Destructive(catalog[r.site], Apply(catalog[r.site], r.plan.change)) => r.allow
    /\ CommitsSoFar < MaxCommits

Executes(r) ==
    /\ catalog' = [catalog EXCEPT ![r.site] = Apply(@, r.plan.change)]
    /\ version' = [version EXCEPT ![r.site] = @ + 1]

Applied(p) ==
    /\ pc[p] = "wait"
    /\ sent[p] # None /\ Accepts(sent[p])
    /\ Executes(sent[p])
    /\ sent' = [sent EXCEPT ![p] = None]
    /\ Ends(p, {})
    /\ UNCHANGED <<selected, saved>>

(* 412, catalog_destructive_change, or another refusal. *)
Refused(p) ==
    /\ pc[p] = "wait"
    /\ sent[p] # None
    /\ sent' = [sent EXCEPT ![p] = None]
    /\ Ends(p, CatalogError("refused", 412))
    /\ UNCHANGED <<server, selected, saved>>

(* A broken connection, a timeout or Ctrl+C: the request is still on its   *)
(* way.                                                                    *)
ReportsFailure(p) ==    \* variant: a timeout counts as a refusal
    Ends(p, Deadline)
ReportsUnknown(p) ==
    \E stopped \in {{}, Canceled, Deadline} :
        Ends(p, CatalogError("outcome_unknown", 0) \cup stopped)

TimesOut(p) ==
    /\ pc[p] = "wait"
    /\ UNCHANGED <<server, selected, saved, sent>>
    /\ ReportsUnknown(p)

(* A request without a waiting command is executed, refused or lost. *)
ExecutedLate(p) ==
    /\ pc[p] = "idle"
    /\ sent[p] # None
    /\ sent' = [sent EXCEPT ![p] = None]
    /\ \/ /\ Accepts(sent[p])
          /\ Executes(sent[p])
       \/ UNCHANGED server
    /\ agreed' = agreed \ {p}
    /\ unknown' = unknown \ {p}
    /\ UNCHANGED <<selected, saved, pc, request, allow, site, plan>>

(* scope workspace use *)
SelectSite(s) ==
    /\ selected' = s
    /\ UNCHANGED <<server, saved, command, sent, agreed>>

-----------------------------------------------------------------------------
Init ==
    /\ catalog \in [Site -> Catalog]
    /\ version = [s \in Site |-> 0]
    /\ selected \in Site
    /\ saved = None
    /\ pc = [p \in Proc |-> "idle"]
    /\ request = [p \in Proc |-> None]
    /\ allow = {}
    /\ site = [p \in Proc |-> None]
    /\ plan = [p \in Proc |-> None]
    /\ sent = [p \in Proc |-> None]
    /\ unknown = {}
    /\ agreed = {}

Next ==
    \/ \E p \in Proc :
          \/ StartPlan(p) \/ StartApply(p) \/ StartSaved(p)
          \/ ResolveAccess(p) \/ ApplySaved(p)
          \/ PreviewSaved(p) \/ PreviewReviewed(p) \/ PreviewAccepted(p)
          \/ Confirm(p) \/ GivesUp(p)
          \/ Applied(p) \/ Refused(p) \/ TimesOut(p)
          \/ ExecutedLate(p)
    \/ \E s \in Site : SelectSite(s)

Spec == Init /\ [][Next]_vars

-----------------------------------------------------------------------------
(* Properties *)

(* Types of the catalogs, the plan file and what each command remembers. *)
TypeOK ==
    /\ catalog \in [Site -> Catalog]
    /\ version \in [Site -> Nat]
    /\ selected \in Site
    /\ saved \in Optional(Plan)
    /\ pc \in [Proc -> PC]
    /\ request \in [Proc -> Optional(Asked)]
    /\ allow \subseteq Proc
    /\ site \in [Proc -> Optional(Site)]
    /\ plan \in [Proc -> Optional(Plan)]
    /\ sent \in [Proc -> Optional(Request)]
    /\ unknown \subseteq Proc /\ agreed \subseteq Proc

(* What changes a catalog is what its user was shown: the commit turns     *)
(* exactly the previewed "before" into the previewed "after", whoever else *)
(* changed the catalog meanwhile, however late the request is executed and *)
(* however often a saved plan is submitted ("If the catalog or connection  *)
(* has changed, apply fails", README.md).                                  *)
PreviewedChange ==
    [][\A s \in Site : catalog'[s] # catalog[s] =>
          \E p \in Proc : /\ sent[p] # None /\ sent'[p] = None
                          /\ sent[p].site = s
                          /\ sent[p].plan.before = catalog[s]
                          /\ After(sent[p].plan) = catalog'[s]]_vars

(* A saved plan changes only the connection and workspace it was made for. *)
PlanStaysOnSite ==
    \A p \in Proc : sent[p] # None => sent[p].site = sent[p].plan.site

(* An object is lost only when the user of that very command allowed it,   *)
(* with --allow-destructive or after the warning: --yes alone is not       *)
(* enough, nor is a permission given to an earlier command.                *)
LossAgreed ==
    \A p \in Proc :
        sent[p] # None /\ Loses(sent[p].plan) => p \in agreed

(* A command never says "failed" of a commit that may still be executed:   *)
(* while its request is on its way, its user has been told that the outcome *)
(* is unknown (catalog_commit_outcome_unknown) and to read the catalog,     *)
(* also when Ctrl+C, which otherwise ends a command silently, came first.   *)
HonestResult ==
    \A p \in Proc : sent[p] # None /\ pc[p] = "idle" => p \in unknown
=============================================================================
