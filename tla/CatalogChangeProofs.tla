-------------------------- MODULE CatalogChangeProofs --------------------------
(***************************************************************************)
(* Proofs about CatalogChange, for any number of commands, connections,    *)
(* objects and commits: types, and that a change is the one its user was   *)
(* shown, on the connection it was made for, with the data loss that user  *)
(* allowed, and never reported as failed while it may still happen.        *)
(*                                                                         *)
(* The heart of it is Fresh: a plan whose version is still that of the     *)
(* catalog was made from that very catalog, wherever the plan is kept.     *)
(***************************************************************************)
EXTENDS CatalogChange, TLAPS

(* A plan is older than its catalog, or shows it as it is. *)
Fresh(pl) ==
    /\ pl.version <= version[pl.site]
    /\ pl.version = version[pl.site] => pl.before = catalog[pl.site]

(* What a command remembers at each step. *)
StageOK(p) ==
    /\ pc[p] \in {"access", "preview"} =>
          /\ request[p] \in Asked
          /\ request[p].action # "saved" => request[p].change \in Change
    /\ pc[p] = "access" /\ request[p].action = "saved" => plan[p] \in Plan
    /\ pc[p] = "preview" => site[p] \in Site /\ request[p].action # "saved"
    /\ pc[p] = "review" => plan[p] \in Plan /\ plan[p].site = site[p]
    /\ pc[p] \in {"access", "preview", "review"} => sent[p] = None
    /\ p \in allow => p \in agreed /\ pc[p] \in {"access", "preview", "review"}

(* What a commit request says. *)
SentOK(p) ==
    sent[p] # None =>
        /\ sent[p].version = sent[p].plan.version
        /\ sent[p].site = sent[p].plan.site
        /\ Loses(sent[p].plan) => p \in agreed
        /\ pc[p] = "idle" => p \in unknown

FreshOK(p) ==
    /\ plan[p] # None => Fresh(plan[p])
    /\ sent[p] # None => Fresh(sent[p].plan)

IInv ==
    /\ TypeOK
    /\ saved # None => Fresh(saved)
    /\ \A p \in Proc : StageOK(p) /\ SentOK(p) /\ FreshOK(p)

-----------------------------------------------------------------------------
(* Catalogs, changes and plans *)

LEMMA ApplyType ==
    ASSUME NEW cat \in Catalog, NEW change \in Change
    PROVE  Apply(cat, change) \in Catalog
<1>1. PICK c \in Catalog, r \in Resource : change = [o \in r |-> c[o]]
  BY DEF Change
<1>2. \A o \in Object : c[o] \in Optional(Def) /\ cat[o] \in Optional(Def)
  BY DEF Catalog
<1>3. ASSUME NEW o \in Object
      PROVE  (IF o \in DOMAIN change THEN change[o] ELSE cat[o]) \in Optional(Def)
  <2>1. CASE o \in r
    BY <1>1, <1>2, <2>1
  <2>2. CASE o \notin r
    BY <1>1, <1>2, <2>2
  <2> QED
    BY <2>1, <2>2
<1> QED
  BY <1>3 DEF Apply, Catalog

LEMMA DryRunFresh ==
    ASSUME IInv, NEW p \in Proc, pc[p] = "preview"
    PROVE  /\ DryRun(p) \in Plan /\ Fresh(DryRun(p))
           /\ DryRun(p).site = site[p]
           /\ DryRun(p).before = catalog[site[p]]
           /\ DryRun(p).version = version[site[p]]
<1>1. site[p] \in Site /\ request[p].change \in Change
  BY DEF IInv, StageOK
<1>2. catalog[site[p]] \in Catalog /\ version[site[p]] \in Nat
  BY <1>1 DEF IInv, TypeOK
<1> QED
  BY <1>1, <1>2 DEF DryRun, Plan, Fresh

(* Nothing that happens to the catalogs makes a plan seem fresh. *)
LEMMA FreshStays ==
    ASSUME TypeOK, NEW pl \in Plan, Fresh(pl),
           UNCHANGED server \/ \E r \in Request : Executes(r)
    PROVE  Fresh(pl)'
<1>1. /\ pl.site \in Site /\ pl.version \in Nat
      /\ version[pl.site] \in Nat
  BY DEF TypeOK, Plan
<1>2. CASE UNCHANGED server
  BY <1>2 DEF server, Fresh
<1>3. ASSUME NEW r \in Request, Executes(r)
      PROVE  Fresh(pl)'
  <2>1. r.site \in Site /\ version[r.site] \in Nat
    BY DEF Request, TypeOK
  <2>2. CASE r.site = pl.site
    <3>1. version'[pl.site] = version[pl.site] + 1
      BY <1>1, <1>3, <2>1, <2>2 DEF Executes, TypeOK
    <3> QED
      BY <1>1, <3>1 DEF Fresh
  <2>3. CASE r.site # pl.site
    <3>1. version'[pl.site] = version[pl.site] /\ catalog'[pl.site] = catalog[pl.site]
      BY <1>1, <1>3, <2>1, <2>3 DEF Executes, TypeOK
    <3> QED
      BY <3>1 DEF Fresh
  <2> QED
    BY <2>2, <2>3
<1> QED
  BY <1>2, <1>3

(* What a commit that is executed does is what its preview showed. *)
LEMMA ExecutesPreview ==
    ASSUME IInv, NEW p \in Proc, sent[p] # None, Accepts(sent[p]), Executes(sent[p])
    PROVE  /\ catalog' \in [Site -> Catalog] /\ version' \in [Site -> Nat]
           /\ sent[p] \in Request
           /\ sent[p].plan.before = catalog[sent[p].site]
           /\ catalog' = [catalog EXCEPT ![sent[p].site] = After(sent[p].plan)]
<1> DEFINE r == sent[p]
<1>1. r \in Request /\ SentOK(p) /\ Fresh(r.plan)
  BY DEF IInv, TypeOK, FreshOK, Optional
<1>2. /\ r.site \in Site /\ r.plan \in Plan /\ r.plan.version \in Nat
      /\ r.plan.change \in Change /\ r.plan.before \in Catalog
  BY <1>1 DEF Request, Plan
<1>3. r.version = r.plan.version /\ r.site = r.plan.site
  BY <1>1 DEF SentOK
<1>4. r.version # None
  BY <1>2, <1>3, CatalogAssumption
<1>5. r.version = version[r.site]
  BY <1>4 DEF Accepts
<1>6. r.plan.before = catalog[r.site]
  BY <1>1, <1>3, <1>5 DEF Fresh
<1>7. /\ catalog \in [Site -> Catalog] /\ version \in [Site -> Nat]
  BY DEF IInv, TypeOK
<1>8. After(r.plan) \in Catalog
  BY <1>2, ApplyType DEF After
<1>9. catalog' = [catalog EXCEPT ![r.site] = After(r.plan)]
  BY <1>2, <1>6, <1>7 DEF Executes, After
<1>10. version' \in [Site -> Nat]
  BY <1>2, <1>7 DEF Executes
<1> QED
  BY <1>1, <1>6, <1>7, <1>8, <1>9, <1>10

-----------------------------------------------------------------------------
(* The other commands *)

(* An action of p leaves what the others remember, and may execute p's     *)
(* request.                                                                *)
Others(p) ==
    /\ UNCHANGED server \/ \E r \in Request : Executes(r)
    /\ \A q \in Proc \ {p} :
          /\ UNCHANGED <<pc[q], request[q], site[q], plan[q], sent[q]>>
          /\ q \in allow' <=> q \in allow
          /\ q \in agreed' <=> q \in agreed
          /\ q \in unknown' <=> q \in unknown

LEMMA OthersKeep ==
    ASSUME IInv, NEW p \in Proc, Others(p),
           TypeOK', StageOK(p)', SentOK(p)', FreshOK(p)',
           saved' \in {saved, DryRun(p)} /\ (saved' = saved \/ pc[p] = "preview")
    PROVE  IInv'
<1>1. UNCHANGED server \/ \E r \in Request : Executes(r)
  BY DEF Others
<1>2. ASSUME NEW q \in Proc, q # p
      PROVE  StageOK(q)' /\ SentOK(q)' /\ FreshOK(q)'
  <2>1. /\ UNCHANGED <<pc[q], request[q], site[q], plan[q], sent[q]>>
        /\ q \in allow' <=> q \in allow
        /\ q \in agreed' <=> q \in agreed
        /\ q \in unknown' <=> q \in unknown
    BY <1>2 DEF Others
  <2>2. StageOK(q) /\ SentOK(q) /\ FreshOK(q)
    BY DEF IInv
  <2>3. StageOK(q)'
    BY <2>1, <2>2 DEF StageOK
  <2>4. SentOK(q)'
    BY <2>1, <2>2 DEF SentOK
  <2>5. plan[q] # None => Fresh(plan[q])'
    <3>1. SUFFICES ASSUME plan[q] # None PROVE Fresh(plan[q])'
      OBVIOUS
    <3>2. plan[q] \in Plan /\ Fresh(plan[q])
      BY <2>2, <3>1 DEF IInv, TypeOK, FreshOK, Optional
    <3> DEFINE pl == plan[q]
    <3>3. pl' = pl
      BY <2>1
    <3> QED
      BY <1>1, <2>1, <3>2, FreshStays DEF IInv, Fresh
  <2>6. sent[q] # None => Fresh(sent[q].plan)'
    <3>1. SUFFICES ASSUME sent[q] # None PROVE Fresh(sent[q].plan)'
      OBVIOUS
    <3>2. sent[q].plan \in Plan /\ Fresh(sent[q].plan)
      BY <2>2, <3>1 DEF IInv, TypeOK, FreshOK, Optional, Request
    <3> QED
      BY <1>1, <2>1, <3>2, FreshStays DEF IInv, Fresh
  <2>7. FreshOK(q)'
    BY <2>1, <2>5, <2>6 DEF FreshOK
  <2> QED
    BY <2>3, <2>4, <2>7
<1>3. saved' # None => Fresh(saved)'
  <2>1. CASE saved' = saved
    <3>1. SUFFICES ASSUME saved # None PROVE Fresh(saved)'
      BY <2>1
    <3>2. saved \in Plan /\ Fresh(saved)
      BY <3>1 DEF IInv, TypeOK, Optional
    <3> QED
      BY <1>1, <2>1, <3>2, FreshStays DEF IInv, Fresh
  <2>2. CASE saved' = DryRun(p) /\ pc[p] = "preview"
    <3>1. DryRun(p) \in Plan /\ Fresh(DryRun(p))
      BY <2>2, DryRunFresh
    <3> QED
      BY <1>1, <2>2, <3>1, FreshStays DEF IInv, Fresh
  <2> QED
    BY <2>1, <2>2
<1> QED
  BY <1>2, <1>3 DEF IInv

-----------------------------------------------------------------------------
(* The ways a step of a command ends *)

LEMMA EndsInv ==
    ASSUME IInv, NEW p \in Proc, NEW err, Ends(p, err),
           \/ UNCHANGED server
           \/ sent[p] # None /\ Accepts(sent[p]) /\ Executes(sent[p]),
           UNCHANGED selected,
           saved' = saved \/ (saved' = DryRun(p) /\ pc[p] = "preview"),
           \/ sent' = [sent EXCEPT ![p] = None]
           \/ sent' = sent /\ (sent[p] # None => ToldUnknown(err))
    PROVE  IInv'
<1>1. /\ pc' = [pc EXCEPT ![p] = "idle"]
      /\ request' = [request EXCEPT ![p] = None]
      /\ allow' = allow \ {p}
      /\ site' = [site EXCEPT ![p] = None]
      /\ plan' = [plan EXCEPT ![p] = None]
      /\ unknown' = IF ToldUnknown(err) THEN unknown \cup {p} ELSE unknown \ {p}
      /\ agreed' = IF sent'[p] = None THEN agreed \ {p} ELSE agreed
  BY DEF Ends, Goto
<1>2. TypeOK /\ sent' \in [Proc -> Optional(Request)] /\ sent'[p] \in {sent[p], None}
  BY DEF IInv, TypeOK, Optional
<1>3. /\ UNCHANGED server \/ \E r \in Request : Executes(r)
      /\ catalog' \in [Site -> Catalog] /\ version' \in [Site -> Nat]
  <2>1. CASE UNCHANGED server
    BY <1>2, <2>1 DEF server, TypeOK
  <2>2. CASE sent[p] # None /\ Accepts(sent[p]) /\ Executes(sent[p])
    BY <2>2, ExecutesPreview
  <2> QED
    BY <2>1, <2>2
<1>4. saved' \in Optional(Plan)
  BY <1>2, DryRunFresh DEF TypeOK, Optional
<1>5. TypeOK'
  BY <1>1, <1>2, <1>3, <1>4 DEF TypeOK, PC, Optional
<1>6. pc'[p] = "idle" /\ plan'[p] = None /\ p \notin allow'
  BY <1>1, <1>2 DEF TypeOK
<1>7. sent'[p] # None => sent' = sent /\ p \in unknown' /\ agreed' = agreed
  BY <1>1, <1>2 DEF TypeOK
<1>8. StageOK(p)'
  BY <1>6 DEF StageOK
<1>9. SentOK(p)'
  BY <1>7 DEF IInv, SentOK
<1>10. FreshOK(p)'
  <2>1. SUFFICES ASSUME sent'[p] # None PROVE Fresh(sent[p].plan)'
    BY <1>6 DEF FreshOK
  <2>2. sent' = sent
    BY <1>7, <2>1
  <2>3. sent[p].plan \in Plan /\ Fresh(sent[p].plan)
    BY <1>2, <2>1, <2>2 DEF IInv, TypeOK, FreshOK, Optional, Request
  <2> QED
    BY <1>2, <1>3, <2>2, <2>3, FreshStays DEF Fresh
<1>11. Others(p)
  BY <1>1, <1>2, <1>3 DEF Others, TypeOK
<1> QED
  BY <1>5, <1>8, <1>9, <1>10, <1>11, OthersKeep

LEMMA FailsInv ==
    ASSUME IInv, NEW p \in Proc, Fails(p), sent[p] = None
    PROVE  IInv'
<1>1. UNCHANGED server /\ UNCHANGED selected /\ UNCHANGED saved /\ UNCHANGED sent
  BY DEF Fails
<1>2. Ends(p, Other)
  BY DEF Fails
<1>3. \/ sent' = [sent EXCEPT ![p] = None]
      \/ sent' = sent /\ (sent[p] # None => ToldUnknown(Other))
  BY <1>1
<1>4. \/ UNCHANGED server
      \/ sent[p] # None /\ Accepts(sent[p]) /\ Executes(sent[p])
  BY <1>1
<1> QED
  BY <1>1, <1>2, <1>3, <1>4, EndsInv, Zenon

LEMMA CommitsInv ==
    ASSUME IInv, NEW p \in Proc, NEW s, NEW pl \in Plan, NEW allowed \in BOOLEAN,
           Commits(p, s, pl, allowed), s = pl.site, Fresh(pl), pc[p] # "idle",
           \/ agreed' = agreed
           \/ agreed' = agreed \cup {p},
           Loses(pl) => p \in agreed',
           UNCHANGED <<server, selected, saved>>
    PROVE  IInv'
<1> DEFINE r == [site |-> s, version |-> pl.version, plan |-> pl, allow |-> allowed]
<1>1. /\ pc' = [pc EXCEPT ![p] = "wait"]
      /\ sent' = [sent EXCEPT ![p] = r]
      /\ request' = [request EXCEPT ![p] = None]
      /\ allow' = allow \ {p}
      /\ site' = [site EXCEPT ![p] = None]
      /\ plan' = [plan EXCEPT ![p] = None]
      /\ UNCHANGED unknown
  BY DEF Commits, Goto, IfMatch
<1>2. r \in Request /\ r.plan = pl /\ r.version = pl.version /\ r.site = s
  BY DEF Plan, Request, Optional
<1> HIDE DEF r
<1>3. TypeOK
  BY DEF IInv
<1>4. /\ pc'[p] = "wait" /\ sent'[p] = r /\ plan'[p] = None /\ p \notin allow'
  BY <1>1, <1>3 DEF TypeOK
<1>5. TypeOK'
  BY <1>1, <1>2, <1>3 DEF TypeOK, PC, Optional, server
<1>6. StageOK(p)'
  BY <1>4 DEF StageOK
<1>7. SentOK(p)'
  BY <1>2, <1>4 DEF SentOK, Loses, After
<1>8. FreshOK(p)'
  BY <1>2, <1>4 DEF FreshOK, Fresh, server
<1>9. Others(p)
  BY <1>1, <1>3 DEF Others, TypeOK
<1> QED
  BY <1>5, <1>6, <1>7, <1>8, <1>9, OthersKeep

(* The user is told so whenever the outcome is unknown. *)
LEMMA UnknownTold ==
    ASSUME NEW stopped \in {{}, Canceled, Deadline}
    PROVE  ToldUnknown(CatalogError("outcome_unknown", 0) \cup stopped)
<1> DEFINE f == [is |-> "catalog", code |-> "outcome_unknown", status |-> 0]
           err == CatalogError("outcome_unknown", 0) \cup stopped
<1>1. err = {f} \cup stopped /\ f.is = "catalog" /\ f.code = "outcome_unknown"
  BY DEF CatalogError
<1>2. \A g \in stopped : g.is \in {"canceled", "deadline"}
  BY DEF Canceled, Deadline, Fact
<1>3. err # {} /\ f \in err
  BY <1>1
<1>4. \A g \in err : g.is = "catalog" => g = f
  BY <1>1, <1>2
<1>5. /\ Is(err, "catalog") /\ As(err, "catalog") = f
      /\ ~Is(err, "ready") /\ ~Is(err, "cleanup")
  <2>1. \A g \in err : g.is \in {"catalog", "canceled", "deadline"}
    BY <1>1, <1>2
  <2> HIDE DEF err, f
  <2> QED
    BY <1>1, <1>3, <1>4, <2>1 DEF Is, As
<1> HIDE DEF err, f
<1>6. NormalizeError(err) = Report(CatalogCode(f, err), CatalogHints(f, err))
  BY <1>3, <1>5 DEF NormalizeError, NormalizeCause
<1>7. CatalogHints(f, err) = {"read the catalog"}
  <2>1. f.code = "outcome_unknown" /\ f.code # "destructive"
    BY <1>1
  <2>2. ~(f.code # "outcome_unknown" /\ Is(err, "canceled"))
        /\ ~(f.code = "destructive" /\ ~Is(err, "canceled"))
    BY <2>1
  <2> QED
    BY <2>1, <2>2 DEF CatalogHints
<1>8. NormalizeError(err).hints = {"read the catalog"}
  <2>1. \A code, hints : Report(code, hints).hints = hints
    BY DEF Report
  <2> QED
    BY <1>6, <1>7, <2>1
<1>9. ToldUnknown(err)
  BY <1>8 DEF ToldUnknown, Prints
<1> QED
  BY <1>9 DEF err

-----------------------------------------------------------------------------
(* Every step preserves the invariant *)

LEMMA StartInv ==
    ASSUME IInv, NEW p \in Proc, NEW asked \in Asked, NEW allowed \in BOOLEAN,
           Start(p, asked, allowed),
           asked.action = "saved" => saved # None,
           asked.action # "saved" => asked.change \in Change
    PROVE  IInv'
<1>1. /\ pc[p] = "idle" /\ sent[p] = None
      /\ pc' = [pc EXCEPT ![p] = "access"]
      /\ request' = [request EXCEPT ![p] = asked]
      /\ allow' = IF allowed THEN allow \cup {p} ELSE allow
      /\ plan' = [plan EXCEPT ![p] = IF asked.action = "saved" THEN saved ELSE None]
      /\ agreed' = IF allowed THEN agreed \cup {p} ELSE agreed
      /\ UNCHANGED <<catalog, version, selected, saved, site, sent, unknown>>
  BY DEF Start, Goto, server
<1>2. TypeOK
  BY DEF IInv
<1>3. /\ pc'[p] = "access" /\ request'[p] = asked /\ sent'[p] = None
      /\ plan'[p] = IF asked.action = "saved" THEN saved ELSE None
  BY <1>1, <1>2 DEF TypeOK
<1>4. TypeOK'
  <2>1. plan' \in [Proc -> Optional(Plan)]
    BY <1>1, <1>2 DEF TypeOK, Optional
  <2>2. request' \in [Proc -> Optional(Asked)]
    BY <1>1, <1>2 DEF TypeOK, Optional
  <2>3. allow' \subseteq Proc /\ agreed' \subseteq Proc
    BY <1>1, <1>2 DEF TypeOK
  <2> QED
    BY <1>1, <1>2, <2>1, <2>2, <2>3 DEF TypeOK, PC
<1>5. StageOK(p)'
  <2>1. p \in allow' => p \in agreed'
    BY <1>1 DEF IInv, StageOK
  <2>2. asked.action = "saved" => plan'[p] \in Plan
    BY <1>2, <1>3 DEF TypeOK, Optional
  <2> QED
    BY <1>3, <2>1, <2>2 DEF StageOK
<1>6. SentOK(p)'
  BY <1>3 DEF SentOK
<1>7. FreshOK(p)'
  <2>1. plan'[p] # None => saved # None /\ plan'[p] = saved
    BY <1>3
  <2> QED
    BY <1>1, <1>3, <2>1 DEF IInv, FreshOK, Fresh
<1>8. Others(p)
  BY <1>1, <1>2 DEF Others, TypeOK, server
<1> QED
  BY <1>1, <1>4, <1>5, <1>6, <1>7, <1>8, OthersKeep

LEMMA StartsInv ==
    ASSUME IInv, NEW p \in Proc, StartPlan(p) \/ StartApply(p) \/ StartSaved(p)
    PROVE  IInv'
<1>1. CASE StartPlan(p)
  <2>1. PICK change \in Change :
           Start(p, [change |-> change, action |-> "plan", yes |-> FALSE], FALSE)
    BY <1>1 DEF StartPlan
  <2> DEFINE asked == [change |-> change, action |-> "plan", yes |-> FALSE]
  <2>2. asked \in Asked /\ asked.action = "plan" /\ asked.change \in Change
    BY DEF Asked, Optional
  <2> QED
    BY <2>1, <2>2, StartInv
<1>2. CASE StartApply(p)
  <2>1. PICK change \in Change, yes \in BOOLEAN, allowed \in BOOLEAN :
           Start(p, [change |-> change, action |-> "apply", yes |-> yes], allowed)
    BY <1>2 DEF StartApply
  <2> DEFINE asked == [change |-> change, action |-> "apply", yes |-> yes]
  <2>2. asked \in Asked /\ asked.action = "apply" /\ asked.change \in Change
    BY DEF Asked, Optional
  <2> QED
    BY <2>1, <2>2, StartInv
<1>3. CASE StartSaved(p)
  <2>1. saved # None
    BY <1>3 DEF StartSaved
  <2>2. PICK allowed \in BOOLEAN :
           Start(p, [change |-> None, action |-> "saved", yes |-> TRUE], allowed)
    BY <1>3 DEF StartSaved
  <2> DEFINE asked == [change |-> None, action |-> "saved", yes |-> TRUE]
  <2>3. asked \in Asked /\ asked.action = "saved"
    BY DEF Asked, Optional
  <2> QED
    BY <2>1, <2>2, <2>3, StartInv
<1> QED
  BY <1>1, <1>2, <1>3

LEMMA ResolveAccessInv ==
    ASSUME IInv, NEW p \in Proc, ResolveAccess(p)
    PROVE  IInv'
<1>1. /\ pc[p] = "access" /\ request[p].action # "saved"
      /\ pc' = [pc EXCEPT ![p] = "preview"]
      /\ site' = [site EXCEPT ![p] = selected]
      /\ UNCHANGED <<catalog, version, selected, saved, request, allow, plan,
                     unknown, sent, agreed>>
  BY DEF ResolveAccess, Goto, server
<1>2. TypeOK /\ StageOK(p) /\ FreshOK(p)
  BY DEF IInv
<1>3. pc'[p] = "preview" /\ site'[p] = selected /\ selected \in Site
  BY <1>1, <1>2 DEF TypeOK
<1>4. TypeOK'
  BY <1>1, <1>2 DEF TypeOK, PC, Optional
<1>5. StageOK(p)' /\ SentOK(p)'
  BY <1>1, <1>2, <1>3 DEF StageOK, SentOK
<1>6. FreshOK(p)'
  BY <1>1, <1>2 DEF FreshOK, Fresh
<1>7. Others(p)
  BY <1>1, <1>2 DEF Others, TypeOK, server
<1> QED
  BY <1>1, <1>4, <1>5, <1>6, <1>7, OthersKeep

LEMMA ApplySavedInv ==
    ASSUME IInv, NEW p \in Proc, ApplySaved(p)
    PROVE  IInv'
<1>1. /\ pc[p] = "access" /\ plan[p] \in Plan /\ sent[p] = None
      /\ p \in allow => p \in agreed
  BY DEF IInv, StageOK, ApplySaved
<1>2. plan[p] # None => Fresh(plan[p])
  BY DEF IInv, FreshOK
<1>3. CASE SameTarget(p) /\ Allowed(p, plan[p])
  <2>1. /\ Commits(p, selected, plan[p], p \in allow)
        /\ UNCHANGED <<server, selected, saved>> /\ agreed' = agreed
    BY <1>3 DEF ApplySaved
  <2>2. selected = plan[p].site /\ (Loses(plan[p]) => p \in agreed')
    BY <1>1, <1>3, <2>1 DEF SameTarget, Allowed
  <2>3. Fresh(plan[p])
    BY <1>2, <1>1, CatalogAssumption
  <2>4. (p \in allow) \in BOOLEAN
    OBVIOUS
  <2> QED
    BY <1>1, <2>1, <2>2, <2>3, <2>4, CommitsInv
<1>4. CASE ~(SameTarget(p) /\ Allowed(p, plan[p]))
  BY <1>1, <1>4, FailsInv DEF ApplySaved
<1> QED
  BY <1>3, <1>4

LEMMA PreviewInv ==
    ASSUME IInv, NEW p \in Proc,
           PreviewSaved(p) \/ PreviewReviewed(p) \/ PreviewAccepted(p)
    PROVE  IInv'
<1>1. /\ pc[p] = "preview" /\ sent[p] = None
      /\ p \in allow => p \in agreed
  BY DEF IInv, StageOK, PreviewSaved, PreviewReviewed, PreviewAccepted
<1> DEFINE pl == DryRun(p)
<1>2. pl \in Plan /\ Fresh(pl) /\ pl.site = site[p]
  BY <1>1, DryRunFresh
<1> HIDE DEF pl
<1>3. CASE PreviewSaved(p)
  <2>1. /\ saved' = DryRun(p) /\ sent' = sent /\ UNCHANGED server
        /\ UNCHANGED selected /\ Ends(p, {})
    BY <1>3 DEF PreviewSaved
  <2> QED
    BY <1>1, <2>1, EndsInv
<1>4. CASE PreviewReviewed(p)
  <2>1. /\ pc' = [pc EXCEPT ![p] = "review"]
        /\ plan' = [plan EXCEPT ![p] = pl]
        /\ request' = [request EXCEPT ![p] = None]
        /\ UNCHANGED <<catalog, version, selected, saved, allow, site, unknown,
                       sent, agreed>>
    BY <1>4 DEF PreviewReviewed, Goto, server, pl
  <2>2. TypeOK
    BY DEF IInv
  <2>3. pc'[p] = "review" /\ plan'[p] = pl /\ sent'[p] = None
    BY <1>1, <2>1, <2>2 DEF TypeOK
  <2>4. TypeOK'
    BY <1>2, <2>1, <2>2 DEF TypeOK, PC, Optional
  <2>5. StageOK(p)' /\ SentOK(p)'
    BY <1>1, <1>2, <2>1, <2>3 DEF StageOK, SentOK
  <2>6. FreshOK(p)'
    BY <1>2, <2>1, <2>3 DEF FreshOK, Fresh
  <2>7. Others(p)
    BY <2>1, <2>2 DEF Others, TypeOK, server
  <2> QED
    BY <2>1, <2>4, <2>5, <2>6, <2>7, OthersKeep
<1>5. CASE PreviewAccepted(p)
  <2>1. CASE Allowed(p, pl)
    <3>1. /\ Commits(p, site[p], pl, p \in allow)
          /\ UNCHANGED <<server, selected, saved>> /\ agreed' = agreed
      BY <1>5, <2>1 DEF PreviewAccepted, pl
    <3>2. Loses(pl) => p \in agreed'
      BY <1>1, <2>1, <3>1 DEF Allowed
    <3>3. (p \in allow) \in BOOLEAN
      OBVIOUS
    <3> QED
      BY <1>1, <1>2, <3>1, <3>2, <3>3, CommitsInv
  <2>2. CASE ~Allowed(p, pl)
    BY <1>1, <1>5, <2>2, FailsInv DEF PreviewAccepted, pl
  <2> QED
    BY <2>1, <2>2
<1> QED
  BY <1>3, <1>4, <1>5

LEMMA ConfirmInv ==
    ASSUME IInv, NEW p \in Proc, Confirm(p)
    PROVE  IInv'
<1>1. /\ pc[p] = "review" /\ plan[p] \in Plan /\ plan[p].site = site[p]
      /\ p \in allow => p \in agreed
  BY DEF IInv, StageOK, Confirm
<1>2. Fresh(plan[p])
  BY <1>1, CatalogAssumption DEF IInv, FreshOK
<1>3. /\ Commits(p, site[p], plan[p], p \in allow \/ Loses(plan[p]))
      /\ agreed' = IF Loses(plan[p]) THEN agreed \cup {p} ELSE agreed
      /\ UNCHANGED <<server, selected, saved>>
  BY DEF Confirm
<1>4. (p \in allow \/ Loses(plan[p])) \in BOOLEAN
  OBVIOUS
<1>5. /\ agreed' = agreed \/ agreed' = agreed \cup {p}
      /\ Loses(plan[p]) => p \in agreed'
  BY <1>3
<1> QED
  BY <1>1, <1>2, <1>3, <1>4, <1>5, CommitsInv

LEMMA GivesUpInv ==
    ASSUME IInv, NEW p \in Proc, GivesUp(p)
    PROVE  IInv'
<1>1. sent[p] = None
  BY DEF IInv, StageOK, GivesUp
<1> QED
  BY <1>1, FailsInv DEF GivesUp

LEMMA AnswerInv ==
    ASSUME IInv, NEW p \in Proc, Applied(p) \/ Refused(p) \/ TimesOut(p)
    PROVE  IInv'
<1>1. UNCHANGED selected /\ UNCHANGED saved
  BY DEF Applied, Refused, TimesOut
<1>2. CASE Applied(p)
  BY <1>1, <1>2, EndsInv DEF Applied
<1>3. CASE Refused(p)
  <2>1. UNCHANGED server
    BY <1>3 DEF Refused
  <2> QED
    BY <1>1, <1>3, <2>1, EndsInv DEF Refused
<1>4. CASE TimesOut(p)
  <2>1. UNCHANGED server /\ UNCHANGED sent
    BY <1>4 DEF TimesOut
  <2>2. PICK stopped \in {{}, Canceled, Deadline} :
           Ends(p, CatalogError("outcome_unknown", 0) \cup stopped)
    BY <1>4 DEF TimesOut, ReportsUnknown
  <2>3. ToldUnknown(CatalogError("outcome_unknown", 0) \cup stopped)
    BY UnknownTold
  <2> QED
    BY <1>1, <2>1, <2>2, <2>3, EndsInv
<1> QED
  BY <1>2, <1>3, <1>4

LEMMA ExecutedLateInv ==
    ASSUME IInv, NEW p \in Proc, ExecutedLate(p)
    PROVE  IInv'
<1>1. /\ pc[p] = "idle" /\ sent[p] # None
      /\ sent' = [sent EXCEPT ![p] = None]
      /\ agreed' = agreed \ {p} /\ unknown' = unknown \ {p}
      /\ UNCHANGED <<selected, saved, pc, request, allow, site, plan>>
  BY DEF ExecutedLate
<1>2. TypeOK /\ StageOK(p) /\ FreshOK(p)
  BY DEF IInv
<1>3. /\ UNCHANGED server \/ \E r \in Request : Executes(r)
      /\ catalog' \in [Site -> Catalog] /\ version' \in [Site -> Nat]
  <2>1. CASE UNCHANGED server
    BY <1>2, <2>1 DEF server, TypeOK
  <2>2. CASE Accepts(sent[p]) /\ Executes(sent[p])
    BY <1>1, <2>2, ExecutesPreview
  <2> QED
    BY <2>1, <2>2 DEF ExecutedLate
<1>4. sent'[p] = None
  BY <1>1, <1>2 DEF TypeOK
<1>5. TypeOK'
  BY <1>1, <1>2, <1>3 DEF TypeOK, Optional
<1>6. p \notin allow'
  BY <1>1, <1>2 DEF StageOK
<1>7. StageOK(p)' /\ SentOK(p)'
  BY <1>1, <1>2, <1>4, <1>6 DEF StageOK, SentOK
<1>8. FreshOK(p)'
  <2>1. SUFFICES ASSUME plan[p] # None PROVE Fresh(plan[p])'
    BY <1>1, <1>4 DEF FreshOK
  <2>2. plan[p] \in Plan /\ Fresh(plan[p])
    BY <1>2, <2>1 DEF TypeOK, FreshOK, Optional
  <2> QED
    BY <1>1, <1>2, <1>3, <2>2, FreshStays DEF Fresh
<1>9. Others(p)
  BY <1>1, <1>2, <1>3 DEF Others, TypeOK
<1> QED
  BY <1>1, <1>5, <1>7, <1>8, <1>9, OthersKeep

LEMMA SelectSiteInv ==
    ASSUME IInv, NEW s \in Site, SelectSite(s) \/ UNCHANGED vars
    PROVE  IInv'
<1>1. /\ UNCHANGED <<catalog, version, saved, pc, request, allow, site, plan, sent,
                     unknown, agreed>>
      /\ selected' \in {s, selected}
  BY DEF SelectSite, vars, server, command
<1> QED
  BY <1>1 DEF IInv, TypeOK, StageOK, SentOK, FreshOK, Fresh

LEMMA InitInv == Init => IInv
<1> SUFFICES ASSUME Init PROVE IInv
  OBVIOUS
<1>1. TypeOK
  BY DEF Init, TypeOK, PC, Optional
<1>2. \A p \in Proc : StageOK(p) /\ SentOK(p) /\ FreshOK(p)
  BY DEF Init, StageOK, SentOK, FreshOK
<1>3. saved = None
  BY DEF Init
<1> QED
  BY <1>1, <1>2, <1>3 DEF IInv

LEMMA NextInv ==
    ASSUME IInv, [Next]_vars
    PROVE  IInv'
<1>1. ASSUME NEW p \in Proc,
             \/ StartPlan(p) \/ StartApply(p) \/ StartSaved(p)
             \/ ResolveAccess(p) \/ ApplySaved(p)
             \/ PreviewSaved(p) \/ PreviewReviewed(p) \/ PreviewAccepted(p)
             \/ Confirm(p) \/ GivesUp(p)
             \/ Applied(p) \/ Refused(p) \/ TimesOut(p)
             \/ ExecutedLate(p)
      PROVE  IInv'
  BY <1>1, StartsInv, ResolveAccessInv, ApplySavedInv, PreviewInv, ConfirmInv,
     GivesUpInv, AnswerInv, ExecutedLateInv
<1>2. ASSUME NEW s \in Site, SelectSite(s) PROVE IInv'
  BY <1>2, SelectSiteInv
<1>3. CASE UNCHANGED vars
  <2>1. selected \in Site
    BY DEF IInv, TypeOK
  <2> QED
    BY <1>3, <2>1, SelectSiteInv
<1> QED
  BY <1>1, <1>2, <1>3 DEF Next

(* The invariant all results follow from: what a command has at each of     *)
(* its steps, what its commit request says, and that plans are fresh or old. *)
THEOREM InductiveInvariant == Spec => []IInv
<1>1. IInv /\ [Next]_vars => IInv'
  BY NextInv
<1> QED
  BY <1>1, InitInv, PTL DEF Spec

(* Type correctness: catalogs, plan file, and what a command remembers.    *)
THEOREM TypeCorrect == Spec => []TypeOK
<1>1. IInv => TypeOK
  BY DEF IInv
<1> QED
  BY <1>1, InductiveInvariant, PTL

(* LossAgreed: data is lost only when the user of that command allowed it. *)
THEOREM LossAgreedHolds == Spec => []LossAgreed
<1>1. IInv => LossAgreed
  BY DEF IInv, SentOK, LossAgreed
<1> QED
  BY <1>1, InductiveInvariant, PTL

(* PlanStaysOnSite: a saved plan changes only the connection and workspace *)
(* it was made for.                                                        *)
THEOREM PlanStaysOnSiteHolds == Spec => []PlanStaysOnSite
<1>1. IInv => PlanStaysOnSite
  BY DEF IInv, SentOK, PlanStaysOnSite
<1> QED
  BY <1>1, InductiveInvariant, PTL

(* HonestResult: while a commit may still be executed without its command, *)
(* its user has been told to read the catalog.                             *)
THEOREM HonestResultHolds == Spec => []HonestResult
<1>1. IInv => HonestResult
  BY DEF IInv, SentOK, HonestResult
<1> QED
  BY <1>1, InductiveInvariant, PTL

(* PreviewedChange: a catalog changes exactly as a preview has shown.      *)
THEOREM PreviewedChangeHolds == Spec => PreviewedChange
<1> DEFINE Previewed(s, p) ==
               /\ sent[p] # None /\ sent'[p] = None
               /\ sent[p].site = s
               /\ sent[p].plan.before = catalog[s]
               /\ After(sent[p].plan) = catalog'[s]
           A == \A s \in Site : catalog'[s] # catalog[s] =>
                   \E p \in Proc : Previewed(s, p)
<1>1. IInv /\ [Next]_vars => [A]_vars
  <2> SUFFICES ASSUME IInv, Next, NEW s \in Site, catalog'[s] # catalog[s]
               PROVE  \E p \in Proc : Previewed(s, p)
    OBVIOUS
  <2>1. catalog' # catalog
    OBVIOUS
  <2>2. PICK p \in Proc : Applied(p) \/ ExecutedLate(p)
    BY <2>1 DEF Next, StartPlan, StartApply, StartSaved, Start, ResolveAccess,
       ApplySaved, PreviewSaved, PreviewReviewed, PreviewAccepted, Confirm, GivesUp,
       Fails, Refused, TimesOut, SelectSite, server
  <2>3. sent[p] # None /\ Accepts(sent[p]) /\ Executes(sent[p])
    BY <2>1, <2>2 DEF Applied, ExecutedLate, server
  <2>4. /\ sent[p].plan.before = catalog[sent[p].site]
        /\ catalog' = [catalog EXCEPT ![sent[p].site] = After(sent[p].plan)]
    BY <2>3, ExecutesPreview
  <2>5. sent \in [Proc -> Optional(Request)] /\ catalog \in [Site -> Catalog]
    BY DEF IInv, TypeOK
  <2>6. sent' = [sent EXCEPT ![p] = None]
    BY <2>2 DEF Applied, ExecutedLate
  <2>7. sent'[p] = None
    BY <2>5, <2>6
  <2>8. sent[p].site = s /\ After(sent[p].plan) = catalog'[s]
    BY <2>4, <2>5
  <2> QED
    BY <2>3, <2>4, <2>7, <2>8
<1>2. PreviewedChange <=> [][A]_vars
  BY PTL DEF PreviewedChange
<1> QED
  BY <1>1, <1>2, InductiveInvariant, PTL DEF Spec
=============================================================================
